---------------------------- MODULE MCQrTransfer ----------------------------
EXTENDS QrTransfer
Cuts(a, b, c, d) ==
  "w1" :> ("small" :> a @@ "large" :> b) @@ "w2" :> ("small" :> c @@ "large" :> d)
MCParts ==
  "desktop" :> ("balqr" :> Cuts(3, 2, 2, 1) @@ "ur1" :> Cuts(1, 1, 2, 2)
                @@ "ur2" :> Cuts(2, 1, 1, 1) @@ "bbqr" :> Cuts(2, 2, 1, 1))
  @@ "phone" :> ("balqr" :> Cuts(2, 2, 2, 1) @@ "ur1" :> Cuts(2, 1, 2, 2)
                 @@ "ur2" :> Cuts(3, 1, 1, 2) @@ "bbqr" :> Cuts(2, 1, 1, 2))
MCChosen ==
  2 :> (3 :> {0, 1} @@ 4 :> {1})
  @@ 3 :> (4 :> {0, 1} @@ 5 :> {1, 2} @@ 6 :> {0, 1, 2})
=============================================================================

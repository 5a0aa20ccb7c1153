------------------------- MODULE MCPdfRenderService -------------------------
(* Instances of PdfRenderService for TLC. *)
EXTENDS PdfRenderService

CONSTANTS ta, tb, ea

\* Templates differ in nothing but their names, so the first may as well be ta.
MCInit == Init /\ spec.template = ta
MCSpec == MCInit /\ [][Next]_vars /\ Fairness
=============================================================================

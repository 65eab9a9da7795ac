---------------------------- MODULE MCDocuments -----------------------------
(***************************************************************************)
(* A small instance of Documents: two uploads to one application with room *)
(* for one, two replicas with tesseract and one without.                   *)
(***************************************************************************)
EXTENDS Documents, TLC

CONSTANTS a1, d1, d2, w1, w2, w3

OneApp == [d \in Docs |-> a1]
AllDifferent == d1 :> "id card" @@ d2 :> "payslip"
SomeTools == w1 :> TRUE @@ w2 :> TRUE @@ w3 :> FALSE

=============================================================================

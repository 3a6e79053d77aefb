------------------------------ MODULE AgeCheck ------------------------------
(***************************************************************************)
(* What an age check is: the site asks one question at a time, holders     *)
(* consent to answer questions, and a question is answered with "verified" *)
(* only if somebody whose credential bears it out consented to answer this *)
(* very question, to this site.                                            *)
(***************************************************************************)
EXTENDS Naturals

CONSTANTS Question, Answer

VARIABLES
  asked,     \* the question in flight: none or one
  consents,  \* the questions somebody fit has consented to answer
  outcome    \* the last answer given, "none" while a question is in flight

vars == <<asked, consents, outcome>>

Init == asked = {} /\ consents = {} /\ outcome = "none"

Ask(q) == asked' = {q} /\ outcome' = "none" /\ UNCHANGED consents

Consent(q) == consents' = consents \cup {q} /\ UNCHANGED <<asked, outcome>>

Conclude(answer) ==
  /\ answer = "verified" => asked # {} /\ asked \subseteq consents
  /\ asked' = {}
  /\ outcome' = answer
  /\ UNCHANGED consents

Next ==
  \/ \E q \in Question : Ask(q) \/ Consent(q)
  \/ \E answer \in Answer : Conclude(answer)

Spec == Init /\ [][Next]_vars
=============================================================================

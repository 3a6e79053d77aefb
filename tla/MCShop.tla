------------------------------- MODULE MCShop -------------------------------
(* An instance of Shop for model checking.                                 *)
EXTENDS Shop

Adult ==
  [response |-> [decodes |-> TRUE, docType |-> "mDL", readable |-> TRUE,
                 elements |-> [a \in Age |-> "true"]],
   verdict  |-> [v \in DOMAIN Core!NoVerdict |-> TRUE]]
Minor == [Adult EXCEPT !.response.elements = [a \in Age |-> "false"]]

Cards == {Adult, Minor}
UnsignedOnly == {Unsigned}
=============================================================================

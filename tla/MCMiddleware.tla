--------------------------- MODULE MCMiddleware ---------------------------
(* Instances of Middleware for model checking.                             *)
EXTENDS Middleware, TLC

Verified == [issuerTrusted |-> TRUE, authentic |-> TRUE,
             withinValidity |-> TRUE, deviceBound |-> TRUE]

Discloses(elements) ==
  [decodes |-> TRUE, docType |-> "mDL", readable |-> TRUE, elements |-> elements]

(* A credential good for every age, one whose holder is under every age,   *)
(* and one whose issuer signed it but whose device signature is wrong.     *)
Adult == [response |-> Discloses([a \in Age |-> "true"]), verdict |-> Verified]
Minor == [response |-> Discloses([a \in Age |-> "false"]), verdict |-> Verified]
Stolen == [Adult EXCEPT !.verdict.deviceBound = FALSE]

AdultOnly == {Adult}
AllCards == {Adult, Minor, Stolen}

UnsignedOnly == {Unsigned}
AllProtocols == {Unsigned, Google, Iso}

Interchangeable ==
  Permutations(Req) \cup Permutations(Sid) \cup Permutations(Nonce) \cup Permutations(Proof)
=============================================================================

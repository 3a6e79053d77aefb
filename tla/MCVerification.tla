-------------------------- MODULE MCVerification --------------------------
(* Instances of Verification: what is presented and what the library may   *)
(* report of it.                                                           *)
EXTENDS Verification, TLC

(* Ages 18 and 21: proven over both, over 18 only, disclosed without 21,   *)
(* disclosed but not a boolean, not readable, not an age document, garbage. *)
Card(docType, readable, over18, over21) ==
  [decodes |-> TRUE, docType |-> docType, readable |-> readable,
   elements |-> (18 :> over18 @@ 21 :> over21)]

MCPresentation ==
  { Card("mDL", TRUE, "true", "true"), Card("idPass", TRUE, "true", "false"),
    Card("mDL", TRUE, "true", "absent"), Card("mDL", TRUE, "true", "nonBoolean"),
    Card("mDL", FALSE, "true", "true"), Card("otherType", TRUE, "true", "true"),
    [Card("mDL", TRUE, "true", "true") EXCEPT !.decodes = FALSE] }

Reports(status, category, checks) ==
  [status: {status}, category: {category}, check: checks]

(* Every check the mapping knows can pass; a known issuer check, one it    *)
(* does not know, and one check of each other category, an unknown one     *)
(* among them, can fail.                                                   *)
MCReport ==
  Reports("PASSED", "ISSUER_AUTH", IssuerChecks)
    \cup Reports("FAILED", "ISSUER_AUTH", {"trustChain", "unknown"})
    \cup Reports("PASSED", "DEVICE_AUTH", {"device"})
    \cup Reports("PASSED", "DATA_INTEGRITY", {"digest"})
    \cup Reports("FAILED", "DEVICE_AUTH", {"device"})
    \cup Reports("FAILED", "DATA_INTEGRITY", {"digest"})
    \cup Reports("FAILED", "DOCUMENT_FORMAT", {"format"})
    \cup Reports("FAILED", "STATUS", {"revoked"})
=============================================================================

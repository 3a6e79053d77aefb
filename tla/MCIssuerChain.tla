--------------------------- MODULE MCIssuerChain ---------------------------
(* An instance of IssuerChain for model checking.                          *)
EXTENDS IssuerChain

(* A root good from today on, the one it renews, of the same name and key, *)
(* and a signer good until today.                                          *)
Root == IacaCert("dmv", Now, 9)
RenewedRoot == IacaCert("dmv", 0, Now - 1)
SignerToday == DsCert("dmv", 0, Now)

LapsedRoot == IacaCert("lapsed", 0, 4)
Signer == DsCert("dmv", 0, 9)

(* An intermediate authority cross-signed by both roots, one with neither  *)
(* CA flag, one without the key usage, and signers under them.             *)
Under(root, subject, ca, usage) ==
  [Root EXCEPT !.subject = subject, !.key = KeyOf(subject, "ca"),
               !.signedWith = root.key, !.ca = ca, !.usage = usage]
State == Under(Root, "State", TRUE, "absent")
StateByLapsed == [State EXCEPT !.signedWith = LapsedRoot.key]
NoAuthority == Under(Root, "NotACA", FALSE, "keyCertSign")
NoUsage == Under(Root, "NoUsage", TRUE, "digitalSignature")
SignerOf(ca) == [Signer EXCEPT !.issuer = ca.subject, !.signedWith = ca.key]

(* Two authorities that signed each other.                                 *)
Left == [State EXCEPT !.subject = "Left", !.issuer = "Right",
                      !.key = KeyOf("Left", "ca"), !.signedWith = KeyOf("Right", "ca")]
Right == [Left EXCEPT !.subject = "Right", !.issuer = "Left",
                      !.key = KeyOf("Right", "ca"), !.signedWith = KeyOf("Left", "ca")]

Certificates ==
  { Root, RenewedRoot, LapsedRoot, Signer, SignerToday, [Signer EXCEPT !.to = 4],
    DsCert("lapsed", 0, 9), DsCert("forger", 0, 9), State, StateByLapsed, SignerOf(State),
    NoAuthority, SignerOf(NoAuthority), NoUsage, SignerOf(NoUsage), Left, Right, SignerOf(Left) }

Sent == UNION {[1 .. n -> Certificates] : n \in 0 .. 2}
          \cup { <<SignerOf(State), State, Root>>, <<SignerOf(State), StateByLapsed, State>>,
                 <<SignerOf(State), Root, State>> }

Pinned ==
  { {}, {Root}, {LapsedRoot}, {Root, LapsedRoot}, {Root, RenewedRoot}, {State},
    {StateByLapsed, Root}, {StateByLapsed, LapsedRoot}, {Signer}, {Left}, {NoAuthority, NoUsage} }
=============================================================================

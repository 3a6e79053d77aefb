----------------------------- MODULE MCExchange -----------------------------
(* An instance of Exchange for model checking.                             *)
EXTENDS Exchange

Shop == Origin("shop", 0)

(* The certificate Apple issues, and the one it is signed by.              *)
AppleFiles ==
  LET key == KeyOf("shop", "apple")
      root == CreateGoogleReader("apple").certChain[1]
  IN  [key |-> key, chain |-> << [root EXCEPT !.subject = "shop", !.key = key], root >>]

(* An authority that renewed its certificate.                              *)
Renewed == {Anchor("renewed"), IacaCert("renewed", 0, Now - 1)}

Config(slashes, google, apple) ==
  [ origin |-> Origin("shop", slashes), google |-> google, apple |-> apple,
    trustAnchors |-> {Anchor("good"), Anchor("test")} \cup Renewed ]

(* No wallet registered, both, with a slash too many in the origin, one    *)
(* only, and one with a file of certificates that has none.                *)
Sites ==
  { Config(0, LoadGoogleConfig(FALSE, {}), LoadAppleConfig({})),
    Config(1, LoadGoogleConfig(TRUE, {}), LoadAppleConfig({AppleFiles})),
    Config(0, LoadGoogleConfig(TRUE, {AppleFiles}), LoadAppleConfig({})),
    Config(0, {}, LoadAppleConfig({[AppleFiles EXCEPT !.chain = << >>]})) }

Over == Mint("good", "mDL", {13, 21}, NoClaims, Current)
Between == Mint("good", "mDL", {13}, [a \in {21} |-> "false"], Current)
IdPass == Mint("good", "idPass", {13}, NoClaims, Current)
Other == Mint("good", "otherType", {13, 21}, NoClaims, Current)
(* Chains of two: the anchor sent along, and one that has nothing to do    *)
(* with it; and one of two possible anchors.                               *)
With(card, cert) == [card EXCEPT !.x5chain = @ \o <<cert>>]
Whole == With(Over, Anchor("good"))
Unrelated == With(Over, Anchor("evil"))
Either == Mint("renewed", "mDL", {13, 21}, NoClaims, Current)
Foreign == Mint("evil", "mDL", {13, 21}, NoClaims, Current)

Wallets ==
  {<< >>} \cup {<<card>> : card \in {Whole, Between, IdPass, Other, Unrelated, Either}}
    \cup { <<Over, IdPass>>, <<Over, Foreign>>, <<Foreign, Over>>, <<Between, Over>> }

(* What the theorems on the examples suppose, these sites fulfil.          *)
ASSUME TestAuthoritiesTrusted
=============================================================================

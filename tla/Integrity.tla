----------------------------- MODULE Integrity -----------------------------
(***************************************************************************)
(* Whether bytes are what an integrity value authorises:                   *)
(* src/fetcher/integrity.  A value is a sequence of tokens, each of a form *)
(* and naming the content it is a digest of.  A module graph decides the   *)
(* same question again from a SHA-256 digest it has computed anyway.       *)
(***************************************************************************)
EXTENDS Integers, SequencesExt, FiniteSetsExt, Functions

Tokens(expected, form) == {t \in Range(expected) : t.form = form}

\* A lone digest without a prefix.
BareHex(expected) == Len(expected) = 1 /\ expected[1].form = "hex"

\* The strongest subresource digest there is, of those that can be decoded.
StrongestTokens(expected) ==
  IF Tokens(expected, "sha512-") # {} THEN Tokens(expected, "sha512-")
  ELSE Tokens(expected, "sha256-")

\* A slip: of several subresource digests any will do.
DecisiveTokensAny(expected) ==
  IF Tokens(expected, "sha256:") # {} THEN Tokens(expected, "sha256:")
  ELSE IF BareHex(expected) THEN Range(expected)
  ELSE Tokens(expected, "sha512-") \cup Tokens(expected, "sha256-")

\* A "sha256:" digest leaves no room for others.
DecisiveTokens(expected) ==
  IF Tokens(expected, "sha256:") # {} THEN Tokens(expected, "sha256:")
  ELSE IF BareHex(expected) THEN Range(expected)
  ELSE StrongestTokens(expected)

\* "none" is no error.
VerifyIntegrity(content, expected) ==
  IF expected = <<>> THEN "policy"
  ELSE IF \E t \in DecisiveTokens(expected) : t.of = content THEN "none" ELSE "fetch"

\* From the SHA-256 digest alone; "unknown" where only the bytes can tell.
VerifyFromSha256(content, expected) ==
  IF expected = <<>> THEN "policy"
  ELSE LET accept(tokens) == IF \E t \in tokens : t.of = content THEN "none" ELSE "fetch"
       IN  IF Tokens(expected, "sha256:") # {} THEN accept(Tokens(expected, "sha256:"))
           ELSE IF BareHex(expected) THEN accept(Range(expected))
           ELSE IF Tokens(expected, "sha512-") # {} THEN "unknown"
           ELSE accept(Tokens(expected, "sha256-"))

\* A registry entry is worth pinning only with a digest that will be checked.
SupportedIntegrity(expected) == StrongestTokens(expected) # {}

\* JSR manifests know one form only.
VerifyJsrChecksum(content, checksum) ==
  IF checksum.form = "sha256-hex" /\ checksum.of = content THEN "none" ELSE "fetch"
=============================================================================

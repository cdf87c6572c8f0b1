--------------------------- MODULE VersionComparator ---------------------------
(***************************************************************************)
(* How pkgman decides which of two versions is higher.  A version is cut   *)
(* into blocks, a block into tokens and a mixed token into runs of digits  *)
(* and runs of other characters; the first pair that differs decides.      *)
(* A string is a sequence of one-character strings.                        *)
(***************************************************************************)
EXTENDS Integers, Sequences, SequencesExt

CONSTANT LongMax  \* LONG_MAX, the number strtol makes of what is too long

Chars(s) == [i \in 1..Len(s) |-> SubSeq(s, i, i)]

\* The characters of versions in the order of their codes.
Ordered == Chars("+-0123456789ABCDEFGHIJKLMNOPQRSTUVWXYZ_abcdefghijklmnopqrstuvwxyz~")
Code(c) == CHOOSE i \in DOMAIN Ordered : Ordered[i] = c

Digit == {Ordered[i] : i \in 3..12}
MinusOne == <<"-", "1">>

\* The parts between the delimiters; an empty part is kept, but not a last one.
split(s, dels) ==
  LET Put(parts, c) == IF c \in dels THEN Append(parts, << >>)
                       ELSE Front(parts) \o <<Append(Last(parts), c)>>
      parts == FoldLeft(Put, << << >> >>, s)
  IN  IF Last(parts) = << >> THEN Front(parts) ELSE parts

tokenizeIntoBlocks(version) == split(version, {"-", "_"})

\* Runs of digits and runs of other characters.  The empty string has no first
\* character to look at.
tokenizeMixedIntoBlocks(s) ==
  LET Put(toks, c) ==
        IF (c \in Digit) = (Last(Last(toks)) \in Digit)
        THEN Front(toks) \o <<Append(Last(toks), c)>>
        ELSE Append(toks, <<c>>)
  IN  FoldLeft(Put, << <<Head(s)>> >>, Tail(s))

normalizeBlocksSize(v, length) ==
  [i \in 1..length |-> IF i <= Len(v) THEN v[i] ELSE MinusOne]

Unsigned(t) == IF Len(t) > 1 /\ Head(t) = "+" THEN Tail(t) ELSE t

\* strtol reads all of the token.
IsNumber(t) == t = MinusOne \/ \A i \in DOMAIN Unsigned(t) : Unsigned(t)[i] \in Digit

Number(t) ==
  IF t = MinusOne THEN -1
  ELSE FoldLeft(LAMBDA n, c : Min({10 * n + Code(c) - 3, LongMax}), 0, Unsigned(t))

Order(x, y) == IF x < y THEN "LESS" ELSE IF x > y THEN "GREATER" ELSE "EQUAL"

Versions == Chars("alpha beta gamma delta")

\* The places where the guessing finds the token.
Found(t) == {p \in 1..(Len(Versions) - Len(t) + 1) : SubSeq(Versions, p, p + Len(t) - 1) = t}

compareSubtokens(s, t) ==
  CASE s = t -> "EQUAL"
    [] IsNumber(s) /\ IsNumber(t) -> Order(Number(s), Number(t))
    [] ~ (IsNumber(s) /\ IsNumber(t)) /\ Len(s) = 1 /\ Len(t) = 1 -> Order(Code(s[1]), Code(t[1]))
    [] OTHER ->
         IF Found(s) # {} /\ Found(t) # {} /\ Min(Found(s)) # Min(Found(t))
         THEN Order(Min(Found(s)), Min(Found(t)))
         ELSE "UNDEFINED"

\* The first pair of parts that differs decides.
Decide(v, w, Compare(_, _)) ==
  LET length == IF Len(v) < Len(w) THEN Len(w) ELSE Len(v)
      left == normalizeBlocksSize(v, length)
      right == normalizeBlocksSize(w, length)
      decisions == [i \in 1..length |-> Compare(left[i], right[i])]
      decisive == {i \in 1..length : decisions[i] # "EQUAL"}
  IN  IF decisive = {} THEN "EQUAL" ELSE decisions[Min(decisive)]

\* "CRASH": an empty token against one that is not a number.
compareTokens(s, t) ==
  CASE s = t -> "EQUAL"
    [] s # t /\ IsNumber(s) /\ IsNumber(t) -> Order(Number(s), Number(t))
    [] s # t /\ ~ (IsNumber(s) /\ IsNumber(t)) ->
         IF s = << >> \/ t = << >> THEN "CRASH"
         ELSE Decide(tokenizeMixedIntoBlocks(s), tokenizeMixedIntoBlocks(t), compareSubtokens)

compareBlocks(v, w) == Decide(split(v, {"."}), split(w, {"."}), compareTokens)

compareVersions(v1, v2) ==
  Decide(tokenizeIntoBlocks(v1), tokenizeIntoBlocks(v2), compareBlocks)
===============================================================================

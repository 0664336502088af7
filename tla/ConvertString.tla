---------------------------- MODULE ConvertString ----------------------------
(* The algorithms of convert_string: base64 both ways, split and replace, each as an  *)
(* operator, applied to one input.  A character of base64 is its                        *)
(* place in the alphabet; Pad is "=" and Bad any character outside.                     *)
EXTENDS Integers, Sequences, SequencesExt

CONSTANTS
    CsBytes,     \* bytes to encode
    CsMaxBytes,  \* bound: bytes of an input
    CsChars,     \* characters to decode
    CsMaxChars,  \* bound: characters after the leading ones
    CsLeads,     \* leading characters of an input to decode
    CsMaxText    \* bound: length of a text to split

VARIABLES
    csInput,     \* the operation and its arguments
    csOutput     \* its result, or NotRun

csVars == <<csInput, csOutput>>

Pad == 64
Bad == 65
NotRun == [ok |-> FALSE]
Letters == {1, 2}

CsInit ==
    /\ csInput \in [op : {"encode"}, data : SeqOf(CsBytes, CsMaxBytes)]
               \cup [op : {"decode"}, data : {l \o s : l \in CsLeads, s \in SeqOf(CsChars, CsMaxChars)}]
               \cup [op : {"split"}, data : SeqOf(Letters, CsMaxText), token : SeqOf(Letters, 2)]
               \cup [op : {"replace"}, data : SeqOf(Letters, CsMaxText), token : SeqOf(Letters, 2),
                     target : {<<>>, <<1>>, <<3>>, <<2, 1>>}]
    /\ csOutput = NotRun

-----------------------------------------------------------------------------
(* base64_encode and base64_decode.                                           *)

Octet(d, i) == IF i <= Len(d) THEN d[i] ELSE 0
Triple(d, g) == Octet(d, 3 * g - 2) * 65536 + Octet(d, 3 * g - 1) * 256 + Octet(d, 3 * g)
Sextet(n, k) == (n \div 64^(4 - k)) % 64

\* mod_table.
PadsOf(n) == <<0, 2, 1>>[(n % 3) + 1]

Base64Encode(d) ==
    LET n == 4 * ((Len(d) + 2) \div 3) IN
    [i \in 1..n |-> IF i > n - PadsOf(Len(d)) THEN Pad ELSE Sextet(Triple(d, (i + 3) \div 4), ((i - 1) % 4) + 1)]

\* Of the two last characters, how many are pads.
Padding(s) == (IF s # <<>> /\ s[Len(s)] = Pad THEN 1 ELSE 0) + (IF Len(s) >= 2 /\ s[Len(s) - 1] = Pad THEN 1 ELSE 0)

\* Mutant: a pad may stand anywhere in the last group.
PadMisplacedLoose(s, i) == i <= Len(s) - 4

\* A pad before the padding that was counted.
PadMisplaced(s, i) == i <= Len(s) - Padding(s)

\* One character: at: characters read; the buffer keeps the bits not yet in a byte.
Reading == [at |-> 0, buffer |-> 0, bits |-> 0, out |-> <<>>, ended |-> FALSE, error |-> FALSE]

ReadChar(s, r, c) ==
    LET i == r.at + 1   b == (r.buffer * 64 + c) % 2^14   bits == r.bits + 6 IN
    IF r.error THEN r
    ELSE IF r.ended THEN [r EXCEPT !.at = i, !.error = c # Pad]
    ELSE IF c = Pad THEN [r EXCEPT !.at = i, !.ended = TRUE, !.error = PadMisplaced(s, i)]
    ELSE IF c = Bad THEN [r EXCEPT !.at = i, !.error = TRUE]
    ELSE IF bits < 8 THEN [r EXCEPT !.at = i, !.buffer = b, !.bits = bits]
    ELSE [r EXCEPT !.at = i, !.buffer = b, !.bits = bits - 8, !.out = Append(@, (b \div 2^(bits - 8)) % 256)]

Base64Decode(s) ==
    LET r == FoldLeft(LAMBDA a, c : ReadChar(s, a, c), Reading, s) IN
    IF Len(s) % 4 # 0 \/ r.error THEN [ok |-> FALSE, value |-> <<>>] ELSE [ok |-> TRUE, value |-> r.out]

-----------------------------------------------------------------------------
(* split and replace2.                                                        *)

Matches(s, token, i) == i + Len(token) - 1 <= Len(s) /\ SubSeq(s, i, i + Len(token) - 1) = token

\* std::string::find from place i on; 0 is npos.
Find(s, token, i) ==
    LET found == {k \in i..Len(s) : Matches(s, token, k)} IN
    IF found = {} THEN 0 ELSE CHOOSE k \in found : \A m \in found : k <= m

AfterMatch(k, token) == k + Len(token)

\* The pieces between the matches, from place i on.
Pieces(s, token) ==
    LET p[i \in 1..(Len(s) + 1)] ==
          LET k == Find(s, token, i) IN
          IF k = 0 THEN <<SubSeq(s, i, Len(s))>> ELSE <<SubSeq(s, i, k - 1)>> \o p[AfterMatch(k, token)]
    IN p[1]

Split(s, token) == IF token = <<>> THEN <<s>> ELSE Pieces(s, token)

\* The text before each match followed by the target, then the rest.
Replaced(s, token, target) ==
    FoldLeft(LAMBDA a, piece : a \o piece \o target, <<>>, Front(Pieces(s, token))) \o Last(Pieces(s, token))

Replace2(s, token, target) ==
    IF s = <<>> \/ token = <<>> THEN [ok |-> FALSE, value |-> <<>>] ELSE [ok |-> TRUE, value |-> Replaced(s, token, target)]

-----------------------------------------------------------------------------

Result(in) ==
    CASE in.op = "encode"  -> [ok |-> TRUE, value |-> Base64Encode(in.data)]
      [] in.op = "decode"  -> Base64Decode(in.data)
      [] in.op = "split"   -> [ok |-> TRUE, value |-> Split(in.data, in.token)]
      [] in.op = "replace" -> Replace2(in.data, in.token, in.target)

Convert == csOutput = NotRun /\ csOutput' = Result(csInput) /\ UNCHANGED csInput

CsNext == Convert

-----------------------------------------------------------------------------
(* Properties.                                                                *)

Ran(op) == csInput.op = op /\ csOutput # NotRun

\* What was encoded is decoded to the same bytes, for every remainder modulo three.
Base64RoundTrip == Ran("encode") => Base64Decode(csOutput.value) = [ok |-> TRUE, value |-> csInput.data]

\* base64_decode accepts a text exactly when it consists of whole groups of characters of the
\* alphabet, of which at most the last two are pads, and then yields a byte for every
\* eight full bits: byte k is cut out of the two characters that hold it.
Base64DecodeExact ==
    Ran("decode") =>
       LET s == csInput.data   n == Len(s)
           pads == {k \in 0..2 : k <= n /\ (\A i \in 1..n : (i > n - k) = (s[i] = Pad))}
           valid == n % 4 = 0 /\ Bad \notin ToSet(s) /\ pads # {}
           bit(j) == (s[(j \div 6) + 1] \div 2^(5 - (j % 6))) % 2
           byte(k) == FoldLeft(LAMBDA a, j : 2 * a + bit(8 * (k - 1) + j), 0, <<0, 1, 2, 3, 4, 5, 6, 7>>)
       IN /\ csOutput.ok = valid
          /\ valid => csOutput.value = [k \in 1..(3 * (n \div 4) - (CHOOSE p \in pads : TRUE)) |-> byte(k)]

\* split loses nothing: the pieces, joined by the token, are the source, and no piece holds
\* the token.
SplitRejoins ==
    Ran("split") /\ csInput.token # <<>> =>
       /\ FoldLeft(LAMBDA a, piece : a \o csInput.token \o piece, Head(csOutput.value), Tail(csOutput.value)) = csInput.data
       /\ \A i \in DOMAIN csOutput.value : Find(csOutput.value[i], csInput.token, 1) = 0

\* replace2 puts the target where split cuts, from left to right and never inside a target
\* that it has inserted: its length tells the number of matches, and with the token as its
\* own target it changes nothing.
ReplaceCountsMatches ==
    Ran("replace") /\ csOutput.ok =>
       /\ Len(csOutput.value) = Len(csInput.data)
             + (Len(Split(csInput.data, csInput.token)) - 1) * (Len(csInput.target) - Len(csInput.token))
       /\ csInput.token = csInput.target => csOutput.value = csInput.data

\* Each conversion agrees with its reference definition, for all inputs up to the bounds.
ConversionsExact == Base64RoundTrip /\ Base64DecodeExact /\ SplitRejoins /\ ReplaceCountsMatches
=============================================================================

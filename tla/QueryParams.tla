---------------------------- MODULE QueryParams ----------------------------
(***************************************************************************)
(* crow::query_string: the raw URL is cut into key/value pairs in place    *)
(* and the values are decoded in place.  A buffer is a sequence of         *)
(* characters that ends with "NUL"; a pair is its position in the buffer.  *)
(***************************************************************************)
EXTENDS Integers, Sequences, FiniteSets, SequencesExt, FiniteSetsExt

CONSTANT MAX_KEY_VALUE_PAIRS_COUNT

ASSUME QueryParamsAssumption == MAX_KEY_VALUE_PAIRS_COUNT \in Nat \ {0}

(***************************************************************************)
(* Characters.  Of the escapes only those of characters that mean          *)
(* something in a query are told apart.                                    *)
(***************************************************************************)
Escapes == {[c |-> " ", hex |-> <<"2", "0">>], [c |-> "#", hex |-> <<"2", "3">>],
  [c |-> "%", hex |-> <<"2", "5">>], [c |-> "&", hex |-> <<"2", "6">>],
  [c |-> "+", hex |-> <<"2", "B">>], [c |-> "=", hex |-> <<"3", "D">>],
  [c |-> "?", hex |-> <<"3", "F">>], [c |-> "NUL", hex |-> <<"0", "0">>]}

ISHEX(c) == c \in {"0", "1", "2", "3", "4", "5", "6", "7", "8", "9", "A", "B", "C", "D",
  "E", "F", "a", "b", "c", "d", "e", "f"}
HEX2DEC(h, l) ==
  LET found == {e \in Escapes : e.hex = <<h, l>>}
  IN IF found = {} THEN "other" ELSE (CHOOSE e \in found : TRUE).c
ISQSCHR(c) == c \notin {"=", "#", "&", "NUL"}

At(s, i) == IF i \in DOMAIN s THEN s[i] ELSE "NUL"
strcspn(s, i, S) == Min({n \in 0 .. Len(s) : At(s, i + n) \in S \cup {"NUL"}})
CString(s, i) == SubSeq(s, i, i + strcspn(s, i, {}) - 1)

(***************************************************************************)
(* The functions on buffers.                                               *)
(***************************************************************************)
\* qs_decode(): the decoded characters and "NUL" take the place of those
\* from i on, of which there are at least as many.
qs_decode(s, i) ==
  LET from[j \in Nat] ==
        LET c == At(s, j)
        IN CASE ~ISQSCHR(c) -> <<>>
             [] c = "+" -> <<" ">> \o from[j + 1]
             [] c = "%" -> IF ISHEX(At(s, j + 1)) /\ ISHEX(At(s, j + 2))
                           THEN <<HEX2DEC(s[j + 1], s[j + 2])>> \o from[j + 3] ELSE <<>>
             [] OTHER -> <<c>> \o from[j + 1]
      out == Append(from[i], "NUL")
  IN [k \in DOMAIN s |-> IF k - i + 1 \in DOMAIN out THEN out[k - i + 1] ELSE s[k]]

\* One character of qs_strncmp(), decoded, and where the next one is.
Decoded(s, i) ==
  LET c == At(s, i)
      hex == ISHEX(At(s, i + 1)) /\ ISHEX(At(s, i + 2))
  IN CASE ~ISQSCHR(c) -> [c |-> "NUL", next |-> i + 1]
       [] c = "+" -> [c |-> " ", next |-> i + 1]
       [] c = "%" -> [c |-> IF hex THEN HEX2DEC(s[i + 1], s[i + 2]) ELSE "NUL", next |-> i + 3]
       [] OTHER -> [c |-> c, next |-> i + 1]

\* qs_strncmp(): whether at most n characters of a key and the pair at start
\* are equal and, when all n were compared, the pair's key ends there.
qs_strncmp(key, s, start, n) ==
  LET equal[i, j, left \in Nat] ==
        LET u1 == Decoded(key, i)
            u2 == Decoded(s, j)
        IN IF left = 0 THEN ~ISQSCHR(At(s, j))
           ELSE u1.c = u2.c /\ (u1.c = "NUL" \/ equal[u1.next, u2.next, left - 1])
  IN equal[1, start, n]

\* The first loop of qs_parse(): a pointer for each pair while there is room.
Pairs(s, start, size) ==
  LET from[i, room \in Nat] ==
        LET amp == i + strcspn(s, i, {"&"})
        IN IF room = 0 THEN <<>>
           ELSE <<i>> \o (IF At(s, amp) = "NUL" THEN <<>> ELSE from[amp + 1, room - 1])
  IN from[start, size]

\* Its second loop: the value of each pair is decoded.
DecodeValue(s, i) ==
  LET e == i + strcspn(s, i, {"=", "&", "#"})
  IN IF At(s, e) \in {"&", "NUL"} THEN [s EXCEPT ![e] = "NUL"] ELSE qs_decode(s, e + 1)

\* qs_parse(): when the room ends before the pairs do, one pair too many is
\* counted and read past the end of qs_kv.
qs_parse(s, size) ==
  LET start == 1 + strcspn(s, 1, {"?", "#"})
      kv == Pairs(s, start + 1, size)
      left == Len(kv) = size /\ At(s, Last(kv) + strcspn(s, Last(kv), {"&"})) = "&"
  IN IF At(s, start) = "NUL" THEN [url |-> s, kv |-> <<>>, overrun |-> FALSE]
     ELSE [url |-> FoldLeft(DecodeValue, s, kv), kv |-> kv, overrun |-> left]

\* qs_k2v(): the value of the first pair with the key, 0 for none.
qs_k2v(key, s, kv) ==
  LET equal == SelectSeq(kv, LAMBDA i : qs_strncmp(key, s, i, Len(key)))
      eq == equal[1] + strcspn(s, equal[1], {"="})
  IN CASE equal = <<>> -> 0
       [] equal # <<>> /\ At(s, eq) = "=" -> eq + 1
       [] OTHER -> eq

\* query_string(url), and the empty one.
query_string(url) == qs_parse(Append(url, "NUL"), MAX_KEY_VALUE_PAIRS_COUNT)
no_params == [url |-> <<"NUL">>, kv |-> <<>>, overrun |-> FALSE]

\* get(): the value as a sequence of at most one string.
get(q, key) ==
  LET v == qs_k2v(key, q.url, q.kv)
  IN IF v = 0 THEN <<>> ELSE <<CString(q.url, v)>>

(***************************************************************************)
(* The sender (external) escapes keys and values.  A pair without a value  *)
(* is sent without "=".                                                    *)
(***************************************************************************)
Escape(s) == FlattenSeq([i \in DOMAIN s |->
  IF \E e \in Escapes : e.c = s[i]
  THEN <<"%">> \o (CHOOSE e \in Escapes : e.c = s[i]).hex ELSE <<s[i]>>])
PairText(pair) ==
  Escape(pair.key) \o (IF pair.value = <<>> THEN <<>> ELSE <<"=">> \o Escape(pair.value))
QueryText(pairs) ==
  FlattenSeq([i \in DOMAIN pairs |-> <<IF i = 1 THEN "?" ELSE "&">> \o PairText(pairs[i])])

\* What the sender meant by a key: the value it sent first.
Meant(pairs, key) ==
  LET with == SelectSeq(pairs, LAMBDA pair : pair.key = key)
  IN IF with = <<>> THEN <<>> ELSE <<with[1].value>>
=============================================================================

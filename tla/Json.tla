-------------------------------- MODULE Json --------------------------------
(***************************************************************************)
(* crow::json: the writer (wvalue, dump) and the reader (load), joined by  *)
(* the text between them.  A text is a sequence of characters; one past    *)
(* its end is the NUL that load() appends.  A number is its decimal text,  *)
(* "%g" a map on such texts.  Control characters and the bytes of UTF-8    *)
(* have names.                                                             *)
(***************************************************************************)
EXTENDS Integers, Sequences, FiniteSets, SequencesExt, FiniteSetsExt

CONSTANTS
  Texts,          \* texts that are loaded besides the ones dump() writes
  Scalars,        \* what the application assigns: [t, d, s]
  Vectors,        \* the vectors it assigns
  Paths,          \* where: sequences of [index] and [key]
  Printed,        \* "%g": a function on the numbers it does not leave alone
  NotFinite,      \* the texts "%g" writes for NaN and the infinities
  FirstCapacity,  \* 4
  MaxGrowth,      \* 60000
  RemainRange,    \* 2^16, the range of lremain_
  MaxSets         \* bound: assignments

ASSUME JsonAssumption ==
  /\ FirstCapacity \in Nat \ {0} /\ MaxGrowth \in Nat \ {0} /\ MaxSets \in Nat
  /\ FirstCapacity < RemainRange /\ MaxGrowth < RemainRange

VARIABLES w, r, text, sets, how

vars == <<w, r, text, sets, how>>

(***************************************************************************)
(* Characters.                                                             *)
(***************************************************************************)
Quote == "\""
Backslash == "\\"
Digit == {"0", "1", "2", "3", "4", "5", "6", "7", "8", "9"}
HexDigit == Digit \cup {"a", "b", "c", "d", "e", "f", "A", "B", "C", "D", "E", "F"}
Space == {" ", "HT", "CR", "LF"}

\* escape(): the short escapes; 01 stands for the other control characters.
Short == [c \in {Quote, Backslash, "LF", "BS", "FF", "CR", "HT"} |->
  CASE c = Quote -> Quote [] c = Backslash -> Backslash [] c = "LF" -> "n" [] c = "BS" -> "b"
    [] c = "FF" -> "f" [] c = "CR" -> "r" [] c = "HT" -> "t"]

\* Mistake: a backslash is written as it is.
EscapeCharMistake(c) == IF c \in DOMAIN Short \ {Backslash} THEN <<Backslash, Short[c]>> ELSE <<c>>

EscapeChar(c) ==
  IF c \in DOMAIN Short THEN <<Backslash, Short[c]>>
  ELSE IF c = "01" THEN <<Backslash, "u", "0", "0", "0", "1">>
  ELSE <<c>>
escape(s) == FlattenSeq([i \in DOMAIN s |-> EscapeChar(s[i])])

\* The bytes of \uXXXX.
Utf8(h) ==
  IF h[1] # "0" \/ h[2] \in HexDigit \ {"0", "1", "2", "3", "4", "5", "6", "7"} THEN <<"hi", "hi", "hi">>
  ELSE IF h[2] # "0" \/ h[3] \in HexDigit \ {"0", "1", "2", "3", "4", "5", "6", "7"} THEN <<"hi", "hi">>
  ELSE IF h = <<"0", "0", "0", "1">> THEN <<"01">> ELSE <<"other">>

\* unescape(), run on first use; its output never overtakes its input.
RECURSIVE unescape(_)
unescape(s) ==
  IF s = <<>> THEN <<>>
  ELSE IF s[1] # Backslash THEN <<s[1]>> \o unescape(Tail(s))
  ELSE IF s[2] = "u" THEN Utf8(SubSeq(s, 3, 6)) \o unescape(SubSeq(s, 7, Len(s)))
  ELSE (IF s[2] = "/" THEN <<"/">> ELSE <<CHOOSE c \in DOMAIN Short : Short[c] = s[2]>>)
       \o unescape(SubSeq(s, 3, Len(s)))

(***************************************************************************)
(* The reader.  A position's result is [v, p]: the rvalue and data.        *)
(***************************************************************************)
Rvalue(t, s) == [t |-> t, s |-> s, l |-> <<>>, cap |-> 0, lremain |-> 0]
Bad == Rvalue("Error", <<>>)
Error == [v |-> Bad, p |-> 0]

At(s, i) == IF i \in DOMAIN s THEN s[i] ELSE "NUL"
ws_skip(s, p) == Min({i \in p .. Len(s) + 1 : At(s, i) \notin Space})

\* emplace_back()'s new_size.
Grown(lsize) ==
  LET doubled == lsize + lsize
      new_size == IF doubled - lsize > MaxGrowth THEN lsize + MaxGrowth ELSE doubled
  IN IF new_size < FirstCapacity THEN FirstCapacity ELSE new_size

emplace_back(list, key, v) ==
  LET lsize == Len(list.l)
      full == list.lremain = 0
      room == IF full THEN (Grown(lsize) - lsize) % RemainRange ELSE list.lremain
  IN [list EXCEPT !.l = Append(@, [key |-> key, v |-> v]),
                  !.cap = IF full THEN Grown(lsize) ELSE @,
                  !.lremain = (room - 1) % RemainRange]

\* decode_string()'s loop: the position of the closing quote, 0 for none.
RECURSIVE StringEnd(_, _)
StringEnd(s, p) ==
  CASE At(s, p) = Quote -> p
    [] At(s, p) = "NUL" -> 0
    [] At(s, p) = Backslash ->
         IF At(s, p + 1) = "u"
         THEN IF \A i \in 2 .. 5 : At(s, p + i) \in HexDigit THEN StringEnd(s, p + 6) ELSE 0
         ELSE IF At(s, p + 1) \in Range(Short) \cup {"/"} THEN StringEnd(s, p + 2) ELSE 0
    [] OTHER -> StringEnd(s, p + 1)

decode_string(s, p) ==
  LET e == StringEnd(s, p + 1)
  IN IF At(s, p) # Quote \/ e = 0 THEN Error
     ELSE [v |-> Rvalue("String", SubSeq(s, p + 1, e - 1)), p |-> e + 1]

NumberStates == {"Minus", "AfterMinus", "ZeroFirst", "Digits", "DigitsAfterPoints", "E",
                 "DigitsAfterE", "Invalid"}
\* Mistake: an exponent may begin after a lone zero's sign.
NextStateMistake(c, st) ==
  CASE c = "-" /\ st = "Minus" -> "AfterMinus"
    [] c = "0" /\ st \in {"Minus", "AfterMinus"} -> "ZeroFirst"
    [] c \in Digit \ {"0"} /\ st \in {"Minus", "AfterMinus"} -> "Digits"
    [] c \in Digit /\ st \in {"Digits", "DigitsAfterPoints"} -> st
    [] c \in Digit /\ st \in {"E", "DigitsAfterE"} -> "DigitsAfterE"
    [] c = "." /\ st \in {"AfterMinus", "ZeroFirst", "Digits"} -> "DigitsAfterPoints"
    [] c \in {"e", "E"} /\ st \in {"Digits", "DigitsAfterPoints"} -> "E"
    [] c \in {"+", "-"} /\ st = "E" -> "DigitsAfterE"
    [] OTHER -> "Invalid"

\* The tables of decode_number().
NextState(c, st) ==
  CASE c = "-" /\ st = "Minus" -> "AfterMinus"
    [] c = "0" /\ st \in {"Minus", "AfterMinus"} -> "ZeroFirst"
    [] c \in Digit \ {"0"} /\ st \in {"Minus", "AfterMinus"} -> "Digits"
    [] c \in Digit /\ st \in {"Digits", "DigitsAfterPoints"} -> st
    [] c \in Digit /\ st \in {"E", "DigitsAfterE"} -> "DigitsAfterE"
    [] c = "." /\ st \in {"ZeroFirst", "Digits"} -> "DigitsAfterPoints"
    [] c \in {"e", "E"} /\ st \in {"Digits", "DigitsAfterPoints"} -> "E"
    [] c \in {"+", "-"} /\ st = "E" -> "DigitsAfterE"
    [] OTHER -> "Invalid"

RECURSIVE NumberEnd(_, _, _)
NumberEnd(s, p, st) ==
  IF st = "Invalid" THEN 0
  ELSE IF At(s, p) \in Digit \cup {".", "-", "+", "e", "E"}
  THEN NumberEnd(s, p + 1, NextState(At(s, p), st))
  ELSE IF st \in {"ZeroFirst", "Digits", "DigitsAfterPoints", "DigitsAfterE"} THEN p ELSE 0

decode_number(s, p) ==
  LET e == NumberEnd(s, p, "Minus")
  IN IF e = 0 THEN Error ELSE [v |-> Rvalue("Number", SubSeq(s, p, e - 1)), p |-> e]

Word(t) == CASE t = "True" -> <<"t", "r", "u", "e">> [] t = "False" -> <<"f", "a", "l", "s", "e">>
             [] t = "Null" -> <<"n", "u", "l", "l">>
decode_word(s, p, t) ==
  IF IsPrefix(Word(t), SubSeq(s, p, Len(s))) THEN [v |-> Rvalue(t, <<>>), p |-> p + Len(Word(t))]
  ELSE Error

RECURSIVE decode_value(_, _), Elements(_, _, _), Members(_, _, _)
\* decode_list(), decode_object() and their loops.
decode_list(s, p) ==
  LET q == ws_skip(s, p + 1)
  IN IF At(s, q) = "]" THEN [v |-> Rvalue("List", <<>>), p |-> q + 1]
     ELSE Elements(s, q, Rvalue("List", <<>>))
decode_object(s, p) ==
  LET q == ws_skip(s, p + 1)
  IN IF At(s, q) = "}" THEN [v |-> Rvalue("Object", <<>>), p |-> q + 1]
     ELSE Members(s, q, Rvalue("Object", <<>>))

Elements(s, p, list) ==
  LET x == decode_value(s, p)
      q == ws_skip(s, x.p)
      more == emplace_back(list, <<>>, x.v)
  IN IF x = Error THEN Error
     ELSE IF At(s, q) = "]" THEN [v |-> more, p |-> q + 1]
     ELSE IF At(s, q) # "," THEN Error
     ELSE Elements(s, ws_skip(s, q + 1), more)

Members(s, p, list) ==
  LET k == decode_string(s, p)
      c == ws_skip(s, k.p)
      x == decode_value(s, ws_skip(s, c + 1))
      q == ws_skip(s, x.p)
      more == emplace_back(list, unescape(k.v.s), x.v)
  IN IF k = Error \/ At(s, c) # ":" \/ x = Error THEN Error
     ELSE IF At(s, q) = "}" THEN [v |-> more, p |-> q + 1]
     ELSE IF At(s, q) # "," THEN Error
     ELSE Members(s, ws_skip(s, q + 1), more)

decode_value(s, p) ==
  CASE At(s, p) = "[" -> decode_list(s, p)
    [] At(s, p) = "{" -> decode_object(s, p)
    [] At(s, p) = Quote -> decode_string(s, p)
    [] At(s, p) = "t" -> decode_word(s, p, "True")
    [] At(s, p) = "f" -> decode_word(s, p, "False")
    [] At(s, p) = "n" -> decode_word(s, p, "Null")
    [] OTHER -> decode_number(s, p)

\* parse() and load().
load(s) ==
  LET x == decode_value(s, ws_skip(s, 1))
  IN IF x = Error \/ ws_skip(s, x.p) <= Len(s) THEN Bad ELSE x.v

(***************************************************************************)
(* The writer.                                                             *)
(***************************************************************************)
wvalue(t, d, s) == [t |-> t, d |-> d, s |-> s, l |-> <<>>, o |-> <<>>]
reset(v) == [v EXCEPT !.t = "Null", !.l = <<>>, !.o = <<>>]
Extended(f, x, y) == [z \in DOMAIN f \cup {x} |-> IF z = x THEN y ELSE f[z]]

\* operator = for a scalar; what the type does not use stays.
assign(v, x) ==
  [reset(v) EXCEPT !.t = x.t, !.d = IF x.t = "Number" THEN x.d ELSE @, !.s = IF x.t = "String" THEN x.s ELSE @]

\* operator = for a vector of scalars.
assign_vector(v, xs) ==
  [(IF v.t = "List" THEN v ELSE reset(v)) EXCEPT
     !.t = "List", !.l = [i \in DOMAIN xs |-> assign(wvalue("Null", <<"0">>, <<>>), xs[i])]]

Null == wvalue("Null", <<"0">>, <<>>)

\* What operator[] does before it indexes.
as(v, t) == [(IF v.t = t THEN v ELSE reset(v)) EXCEPT !.t = t]

\* The assignments of a scalar and of a vector, and clear().
Put(v, x) == CASE x.t = "Vector" -> assign_vector(v, x.s)
               [] x.t = "Clear" -> reset(v)
               [] OTHER -> assign(v, x)

\* Mistake: the list is resized though it is long enough.
ResizedMistake(l, i) == [k \in 1 .. i + 1 |-> IF k \in DOMAIN l THEN l[k] ELSE Null]

\* A list that has an element at index i.
Resized(l, i) ==
  [k \in 1 .. (IF Len(l) < i + 1 THEN i + 1 ELSE Len(l)) |-> IF k \in DOMAIN l THEN l[k] ELSE Null]

\* operator[] along a path, then an assignment to what is there.
RECURSIVE Update(_, _, _)
Update(v, path, x) ==
  IF path = <<>> THEN Put(v, x)
  ELSE IF "index" \in DOMAIN Head(path)
  THEN LET i == Head(path).index
           u == as(v, "List")
       IN [u EXCEPT !.l = [Resized(u.l, i) EXCEPT ![i + 1] = Update(@, Tail(path), x)]]
  ELSE LET k == Head(path).key
           u == as(v, "Object")
           old == IF k \in DOMAIN u.o THEN u.o[k] ELSE Null
       IN [u EXCEPT !.o = Extended(@, k, Update(old, Tail(path), x))]

PrintNumber(d) == IF d \in DOMAIN Printed THEN Printed[d] ELSE d
dump_string(s) == <<Quote>> \o escape(s) \o <<Quote>>
Commas(ss) == FlattenSeq([i \in DOMAIN ss |-> IF i = 1 THEN ss[i] ELSE <<",">> \o ss[i]])

RECURSIVE dump(_)
dump(v) ==
  CASE v.t \in {"Null", "False", "True"} -> Word(v.t)
    [] v.t = "Number" -> PrintNumber(v.d)
    [] v.t = "String" -> dump_string(v.s)
    [] v.t = "List" -> <<"[">> \o Commas([i \in DOMAIN v.l |-> dump(v.l[i])]) \o <<"]">>
    [] v.t = "Object" ->
         LET ks == SetToSeq(DOMAIN v.o)
         IN <<"{">> \o Commas([i \in DOMAIN ks |-> dump_string(ks[i]) \o <<":">> \o dump(v.o[ks[i]])])
            \o <<"}">>

\* wvalue(const rvalue&): of two equal keys the first is taken.
RECURSIVE Converted(_)
Converted(x) ==
  LET v == wvalue(x.t, IF x.t = "Number" THEN x.s ELSE <<"0">>, IF x.t = "String" THEN unescape(x.s) ELSE <<>>)
  IN CASE x.t = "List" -> [v EXCEPT !.l = [i \in DOMAIN x.l |-> Converted(x.l[i].v)]]
       [] x.t = "Object" -> [v EXCEPT !.o = [k \in {x.l[i].key : i \in DOMAIN x.l} |->
            Converted(x.l[Min({i \in DOMAIN x.l : x.l[i].key = k})].v)]]
       [] OTHER -> v

(***************************************************************************)
(* An application that fills a document, writes it and reads a text.       *)
(***************************************************************************)
Init == w = Null /\ r = Bad /\ text = <<>> /\ sets = 0 /\ how = "empty"

Edit(v) ==
  /\ sets < MaxSets /\ how \in {"empty", "edited"}
  /\ sets' = sets + 1 /\ w' = v /\ how' = "edited"
  /\ UNCHANGED <<r, text>>

Assign(path, x) == Edit(Update(w, path, x))
AssignVector(path, xs) == Edit(Update(w, path, [t |-> "Vector", s |-> xs]))
Clear(path) == Edit(Update(w, path, [t |-> "Clear"]))

Dump ==
  /\ how \in {"empty", "edited"}
  /\ text' = dump(w) /\ r' = load(text') /\ how' = "dumped"
  /\ UNCHANGED <<w, sets>>

Load(t) ==
  /\ how = "empty"
  /\ text' = t /\ r' = load(t) /\ how' = "given"
  /\ UNCHANGED <<w, sets>>

\* wvalue x(r), moved into the document.
Convert ==
  /\ how \in {"dumped", "given"} /\ r # Bad
  /\ w' = Converted(r) /\ how' = "converted"
  /\ UNCHANGED <<r, text, sets>>

Next ==
  \/ \E path \in Paths : \/ \E x \in Scalars : Assign(path, x)
                         \/ \E xs \in Vectors : AssignVector(path, xs)
                         \/ Clear(path)
  \/ Dump \/ Convert
  \/ \E t \in Texts : Load(t)

Spec == Init /\ [][Next]_vars

(***************************************************************************)
(* Properties.                                                             *)
(***************************************************************************)
\* What a document means, whatever its unused fields hold.
RECURSIVE Meaning(_)
Meaning(v) ==
  [wvalue(v.t, IF v.t = "Number" THEN PrintNumber(v.d) ELSE <<"0">>, IF v.t = "String" THEN v.s ELSE <<>>)
     EXCEPT !.l = [i \in DOMAIN v.l |-> Meaning(v.l[i])], !.o = [k \in DOMAIN v.o |-> Meaning(v.o[k])]]
RECURSIVE IsFinite(_)
IsFinite(v) ==
  /\ v.t = "Number" => PrintNumber(v.d) \notin NotFinite
  /\ \A i \in DOMAIN v.l : IsFinite(v.l[i])
  /\ \A k \in DOMAIN v.o : IsFinite(v.o[k])

\* What dump() writes load() reads, up to the digits "%g" keeps, and exactly
\* when every number is finite: one NaN makes the whole text unreadable.
DumpReadsBack ==
  how = "dumped" => /\ r # Bad <=> IsFinite(w)
                    /\ r # Bad => Converted(r) = Meaning(w)

\* The texts that are JSON, up to what decode_number() takes besides and not:
\* a point or a signed exponent without digits, and no exponent after a lone 0.
IsInt(s) == s # <<>> /\ Range(s) \subseteq Digit /\ (Len(s) > 1 => s[1] # "0")
IsExponent(s) == /\ Len(s) > 1 /\ s[1] \in {"e", "E"} /\ s[2] \in Digit \cup {"+", "-"}
                 /\ \A i \in 3 .. Len(s) : s[i] \in Digit
IsNumber(s) ==
  LET m == IF At(s, 1) = "-" THEN Tail(s) ELSE s
  IN \E a \in 1 .. Len(m), b \in 1 .. Len(m) :
       LET fraction == SubSeq(m, a + 1, b)
           exponent == SubSeq(m, b + 1, Len(m))
       IN /\ a <= b /\ IsInt(SubSeq(m, 1, a))
          /\ fraction # <<>> => fraction[1] = "." /\ Range(Tail(fraction)) \subseteq Digit
          /\ exponent # <<>> => IsExponent(exponent) /\ (fraction = <<>> => SubSeq(m, 1, a) # <<"0">>)
RECURSIVE IsChars(_)
IsChars(s) ==
  \/ s = <<>>
  \/ s[1] \notin {Quote, Backslash} /\ IsChars(Tail(s))
  \/ s[1] = Backslash /\ At(s, 2) \in Range(Short) \cup {"/"} /\ IsChars(SubSeq(s, 3, Len(s)))
  \/ /\ s[1] = Backslash /\ At(s, 2) = "u" /\ \A i \in 3 .. 6 : At(s, i) \in HexDigit
     /\ IsChars(SubSeq(s, 7, Len(s)))
IsString(s) == Len(s) > 1 /\ s[1] = Quote /\ Last(s) = Quote /\ IsChars(SubSeq(s, 2, Len(s) - 1))
Blank(s) == Range(s) \subseteq Space
Trim(s) == IF Blank(s) THEN <<>>
           ELSE LET solid == {i \in DOMAIN s : s[i] \notin Space} IN SubSeq(s, Min(solid), Max(solid))
Inner(s) == SubSeq(s, 2, Len(s) - 1)
Wrapped(s, a, z) == Len(s) > 1 /\ s[1] = a /\ Last(s) = z
RECURSIVE IsJson(_), AreJson(_), AreMembers(_)
IsJson(padded) ==
  LET s == Trim(padded)
  IN \/ s \in {Word("Null"), Word("True"), Word("False")} \/ IsNumber(s) \/ IsString(s)
     \/ Wrapped(s, "[", "]") /\ (Blank(Inner(s)) \/ AreJson(Inner(s)))
     \/ Wrapped(s, "{", "}") /\ (Blank(Inner(s)) \/ AreMembers(Inner(s)))
AreJson(s) ==
  \/ IsJson(s)
  \/ \E i \in DOMAIN s : s[i] = "," /\ IsJson(SubSeq(s, 1, i - 1)) /\ AreJson(SubSeq(s, i + 1, Len(s)))
IsMember(s) ==
  \E i \in DOMAIN s : s[i] = ":" /\ IsString(Trim(SubSeq(s, 1, i - 1))) /\ IsJson(SubSeq(s, i + 1, Len(s)))
AreMembers(s) ==
  \/ IsMember(s)
  \/ \E i \in DOMAIN s : s[i] = "," /\ IsMember(SubSeq(s, 1, i - 1)) /\ AreMembers(SubSeq(s, i + 1, Len(s)))

RECURSIVE RoomIsExact(_)
RoomIsExact(x) == Len(x.l) + x.lremain = x.cap /\ \A i \in DOMAIN x.l : RoomIsExact(x.l[i].v)

\* load() takes exactly the texts that are JSON, to their last character, and
\* the lists it fills are as large as their elements and lremain_ say: no
\* element is stored past the end and lremain_ never wraps.
ReaderTakesJson == (how = "given" => (r # Bad <=> IsJson(text))) /\ RoomIsExact(r)

\* An assignment at one path leaves the values at other paths alone, unless
\* it turned a container on the way into one of the other kind.
RECURSIVE Lookup(_, _)
Lookup(v, path) ==
  IF path = <<>> THEN Meaning(v)
  ELSE IF "index" \in DOMAIN Head(path)
  THEN IF Head(path).index + 1 \in DOMAIN v.l THEN Lookup(v.l[Head(path).index + 1], Tail(path)) ELSE Meaning(Null)
  ELSE IF Head(path).key \in DOMAIN v.o THEN Lookup(v.o[Head(path).key], Tail(path)) ELSE Meaning(Null)
Kinds(path) == [i \in DOMAIN path |-> DOMAIN path[i]]
Apart(p, q) == /\ ~IsPrefix(p, q) /\ ~IsPrefix(q, p)
               /\ IsPrefix(Kinds(p), Kinds(q)) \/ IsPrefix(Kinds(q), Kinds(p))
OthersStay ==
  [][how' = "edited" => \A p \in Paths : (\E x \in Scalars : Assign(p, x)) =>
       \A q \in Paths : Apart(p, q) => Lookup(w', q) = Lookup(w, q)]_vars
=============================================================================

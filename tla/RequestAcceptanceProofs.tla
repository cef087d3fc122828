----------------------- MODULE RequestAcceptanceProofs -----------------------
(***************************************************************************)
(* Theorems about RequestAcceptance, for every set of inputs and every     *)
(* limit.  The first half says what the operators on texts compute: what   *)
(* Split takes apart Joined puts together, an accepted path survives the   *)
(* URL join and a provider that decodes it, and an operation matches what  *)
(* it covers.  The second half carries AcceptanceInv through the steps of  *)
(* one exchange and draws every invariant of the module from it.           *)
(***************************************************************************)
EXTENDS RequestAcceptance, Induction

-----------------------------------------------------------------------------
(* Splitting a text                                                        *)

\* The parts of a text; there is always one.
Text == Seq(Token)
Parts == Seq(Text) \ {<<>>}

\* A slash is a token, and alone it is a text; so is nothing.
LEMMA TextTokens == "/" \in Token /\ <<>> \in Text /\ <<"/">> \in Text
  BY DEF Text, Token

\* Two texts in a row are a text.
LEMMA TextConcat == ASSUME NEW r \in Text, NEW s \in Text PROVE r \o s \in Text
  BY DEF Text

\* It does not matter which two of three texts are put together first.
LEMMA TextAssoc ==
  ASSUME NEW r \in Text, NEW s \in Text, NEW t \in Text
  PROVE  (r \o s) \o t = r \o (s \o t)
  BY ConcatAssociative DEF Text

\* The empty text adds nothing.
LEMMA TextUnit == ASSUME NEW s \in Text PROVE s \o <<>> = s /\ <<>> \o s = s
  BY DEF Text

\* A token at the end is a text of one token.
LEMMA TextAppend ==
  ASSUME NEW s \in Text, NEW x \in Token
  PROVE  <<x>> \in Text /\ Append(s, x) \in Text /\ Append(s, x) = s \o <<x>>
  BY DEF Text

\* A token added to the second text is added to both in a row.
LEMMA TextConcatAppend ==
  ASSUME NEW r \in Text, NEW s \in Text, NEW x \in Token
  PROVE  r \o Append(s, x) = Append(r \o s, x)
  BY DEF Text

\* What Split makes of one more token, as an operator and as a function.
SplitStep(parts, token, separators) ==
  IF token \in separators THEN Append(parts, <<>>)
  ELSE [parts EXCEPT ![Len(parts)] = Append(@, token)]

SplitSteps(text, separators) ==
  [x \in Parts \X (1 .. Len(text)) |-> SplitStep(x[1], text[x[2]], separators)]

\* Parts have a last one, which takes the next token.
LEMMA SplitStepParts ==
  ASSUME NEW parts \in Parts, NEW token \in Token, NEW separators
  PROVE  SplitStep(parts, token, separators) \in Parts
  BY DEF Parts, Text, SplitStep

\* Split takes one token at a time.
LEMMA SplitRuns ==
  ASSUME NEW text \in Text, NEW separators
  PROVE  FoldRuns(Parts, << <<>> >>, Len(text), SplitSteps(text, separators), Split(text, separators))
<1> DEFINE m == Len(text)
           c == << <<>> >>
           step == SplitSteps(text, separators)
           pick == [t \in SUBSET (1 .. m) |-> Max(t)]
           Body(h, t) == IF t = {} THEN c ELSE SplitStep(h[t \ {Max(t)}], text[Max(t)], separators)
           iter == CHOOSE h : h = [t \in SUBSET DOMAIN text |-> Body(h, t)]
<1>1. c \in Parts /\ m \in Nat /\ DOMAIN text = 1 .. m /\ \A i \in 1 .. m : text[i] \in Token
  BY DEF Parts, Text
<1>2. step \in [Parts \X (1 .. m) -> Parts]
  BY <1>1, SplitStepParts DEF SplitSteps
<1>3. \A a \in Parts, i \in 1 .. m : step[<<a, i>>] = SplitStep(a, text[i], separators)
  BY <1>1 DEF SplitSteps
<1> HIDE DEF m, c, step
<1>4. FoldDefined(Parts, c, 1 .. m, step, pick)
  BY <1>1, <1>2, FoldFromLeft
<1>5. PICK g \in [SUBSET (1 .. m) -> Parts] :
        \A t \in SUBSET (1 .. m) : g[t] = FoldStep(c, step, pick, g, t)
  BY <1>4 DEF FoldDefined
<1>6. \A t \in SUBSET (1 .. m) : t # {} => Max(t) \in t /\ t \ {Max(t)} \in SUBSET (1 .. m)
  BY <1>1, MaxIn
<1>7. \A t \in SUBSET (1 .. m) : g[t] = Body(g, t)
  BY <1>3, <1>5, <1>6 DEF FoldStep
<1>8. g = [t \in SUBSET DOMAIN text |-> Body(g, t)]
  BY <1>1, <1>5, <1>7
<1>9. iter = [t \in SUBSET DOMAIN text |-> Body(iter, t)]
  BY <1>8
<1>10. Split(text, separators) = iter[DOMAIN text]
  BY DEF Split, FoldLeft, MapThenFoldSet, SplitStep, c
<1> HIDE DEF iter
<1>11. iter[{}] = c
  BY <1>9
<1>12. ASSUME NEW t \in SUBSET (1 .. m), t # {}, iter[t \ {Max(t)}] \in Parts
       PROVE  iter[t] = step[<<iter[t \ {Max(t)}], Max(t)>>]
  BY <1>1, <1>3, <1>6, <1>9, <1>12
<1>13. FoldRuns(Parts, c, m, step, iter[1 .. m])
  BY <1>1, <1>2, <1>11, <1>12, FoldPositions
<1>14. QED
  BY <1>1, <1>10, <1>13 DEF m, c, step

\* A text splits into parts.
LEMMA SplitType ==
  ASSUME NEW text \in Text, NEW separators
  PROVE  Split(text, separators) \in Parts
<1>1. Len(text) \in Nat
  BY DEF Text
<1>2. QED
  BY <1>1, SplitRuns, FoldType

\* The empty text has one part, the empty one.
LEMMA SplitEmpty == ASSUME NEW separators PROVE Split(<<>>, separators) = << <<>> >>
<1>1. <<>> \in Text /\ Len(<<>>) = 0
  BY DEF Text
<1>2. FoldRuns(Parts, << <<>> >>, 0, SplitSteps(<<>>, separators), Split(<<>>, separators))
  BY <1>1, SplitRuns, Zenon
<1>3. QED
  BY <1>2, FoldOfNone, Zenon

\* One more token takes one more step.
LEMMA SplitAppend ==
  ASSUME NEW text \in Text, NEW token \in Token, NEW separators
  PROVE  Split(Append(text, token), separators) = SplitStep(Split(text, separators), token, separators)
<1> DEFINE t == Append(text, token)
           m == Len(text)
<1>1. /\ t \in Text /\ Len(t) = m + 1 /\ m \in Nat
      /\ \A i \in 1 .. m : t[i] = text[i]
      /\ t[m + 1] = token
  BY AppendProperties, LenProperties DEF Text
<1>2. /\ FoldRuns(Parts, << <<>> >>, m, SplitSteps(text, separators), Split(text, separators))
      /\ FoldRuns(Parts, << <<>> >>, m + 1, SplitSteps(t, separators), Split(t, separators))
  BY <1>1, SplitRuns
<1> HIDE DEF t
<1>3. \A a \in Parts, i \in 1 .. m :
        SplitSteps(t, separators)[<<a, i>>] = SplitSteps(text, separators)[<<a, i>>]
  BY <1>1 DEF SplitSteps
<1>4. Split(t, separators) = SplitSteps(t, separators)[<<Split(text, separators), m + 1>>]
  BY <1>1, <1>2, <1>3, FoldExtends
<1>5. Split(t, separators) = SplitStep(Split(text, separators), token, separators)
  BY <1>1, <1>4, SplitType DEF SplitSteps
<1>6. QED
  BY <1>5 DEF t

\* What a step makes of the last part.
LEMMA SplitStepLast ==
  ASSUME NEW first \in Seq(Text), NEW last \in Text, NEW token \in Token, NEW separators
  PROVE  SplitStep(Append(first, last), token, separators) =
           IF token \in separators THEN Append(Append(first, last), <<>>)
           ELSE Append(first, Append(last, token))
<1> DEFINE parts == Append(first, last)
           n == Len(first)
<1>1. /\ parts \in Seq(Text) /\ Len(parts) = n + 1 /\ parts[n + 1] = last /\ n \in Nat
      /\ \A i \in 1 .. n : parts[i] = first[i]
  BY AppendProperties, LenProperties
<1>2. Append(last, token) \in Text
  BY DEF Text
<1> HIDE DEF parts
<1>3. [parts EXCEPT ![n + 1] = Append(@, token)] = Append(first, Append(last, token))
  <2> DEFINE l == [parts EXCEPT ![n + 1] = Append(@, token)]
             r == Append(first, Append(last, token))
  <2>1. l \in Seq(Text) /\ Len(l) = n + 1 /\ l[n + 1] = Append(last, token)
        /\ \A i \in 1 .. n : l[i] = first[i]
    BY <1>1, <1>2
  <2>2. r \in Seq(Text) /\ Len(r) = n + 1 /\ r[n + 1] = Append(last, token)
        /\ \A i \in 1 .. n : r[i] = first[i]
    BY <1>1, <1>2, AppendProperties
  <2> HIDE DEF l, r
  <2>3. \A i \in 1 .. n + 1 : l[i] = r[i]
    <3>1. \A i \in 1 .. n + 1 : i \in 1 .. n \/ i = n + 1
      BY <1>1
    <3>2. QED
      BY <2>1, <2>2, <3>1
  <2>4. l = r
    BY <2>1, <2>2, <2>3, SeqEqual
  <2>5. QED
    BY <2>4 DEF l, r
<1>4. QED
  BY <1>1, <1>3 DEF SplitStep, parts

\* Parts are some parts and a last one.
LEMMA PartsLast ==
  ASSUME NEW parts \in Parts
  PROVE  \E first \in Seq(Text), last \in Text : parts = Append(first, last)
  BY SequenceEmptyOrAppend DEF Parts

\* Parts that come before are left alone.
LEMMA SplitStepAfter ==
  ASSUME NEW before \in Seq(Text), NEW parts \in Parts, NEW token \in Token, NEW separators
  PROVE  SplitStep(before \o parts, token, separators) = before \o SplitStep(parts, token, separators)
<1>1. PICK first \in Seq(Text), last \in Text : parts = Append(first, last)
  BY PartsLast
<1>2. <<>> \in Text /\ Append(last, token) \in Text
  BY DEF Text
<1>3. PICK both \in Seq(Text) : both = before \o first
  <2>1. before \o first \in Seq(Text)
    OBVIOUS
  <2>2. QED
    BY <2>1, Zenon
<1>4. \A x \in Text : before \o Append(first, x) = Append(both, x)
  BY <1>3
<1>5. before \o parts = Append(both, last)
  BY <1>1, <1>4, Zenon
<1>6. CASE token \in separators
  <2>1. SplitStep(Append(both, last), token, separators) = Append(Append(both, last), <<>>)
    BY <1>6, SplitStepLast
  <2>2. SplitStep(Append(first, last), token, separators) = Append(Append(first, last), <<>>)
    BY <1>6, SplitStepLast
  <2>3. before \o Append(Append(first, last), <<>>) = Append(before \o Append(first, last), <<>>)
    BY <1>2
  <2>4. QED
    BY <1>1, <1>4, <1>5, <2>1, <2>2, <2>3, Zenon
<1>7. CASE token \notin separators
  <2>1. SplitStep(Append(both, last), token, separators) = Append(both, Append(last, token))
    BY <1>7, SplitStepLast
  <2>2. SplitStep(Append(first, last), token, separators) = Append(first, Append(last, token))
    BY <1>7, SplitStepLast
  <2>3. QED
    BY <1>1, <1>2, <1>4, <1>5, <2>1, <2>2, Zenon
<1>8. QED
  BY <1>6, <1>7

\* At a separator a text splits into the parts before and the parts after it.
LEMMA SplitAtSeparator ==
  ASSUME NEW s \in Text, NEW separators, NEW token \in Token \cap separators, NEW r \in Text
  PROVE  Split(Append(s, token) \o r, separators) = Split(s, separators) \o Split(r, separators)
<1> DEFINE S == {t \in Text : Split(Append(s, token) \o t, separators)
                                = Split(s, separators) \o Split(t, separators)}
<1>1. \A t \in Text : Split(t, separators) \in Parts
  BY SplitType
<1>2. Append(s, token) \in Text /\ \A t \in Text : Append(s, token) \o t \in Text
  BY DEF Text
<1>3. <<>> \in S
  <2>1. Append(s, token) \o <<>> = Append(s, token) /\ <<>> \in Text
    BY <1>2 DEF Text
  <2>2. Split(Append(s, token), separators) = Append(Split(s, separators), <<>>)
    BY SplitAppend DEF SplitStep
  <2>3. Split(s, separators) \o << <<>> >> = Append(Split(s, separators), <<>>)
    BY <1>1 DEF Parts
  <2>4. QED
    BY <2>1, <2>2, <2>3, SplitEmpty, Zenon
<1>4. ASSUME NEW t \in Text, NEW x \in Token, t \in S PROVE Append(t, x) \in S
  <2>1. /\ Append(s, token) \o Append(t, x) = Append(Append(s, token) \o t, x)
        /\ Append(t, x) \in Text
    BY <1>2 DEF Text
  <2>2. Split(Append(Append(s, token) \o t, x), separators)
          = SplitStep(Split(Append(s, token) \o t, separators), x, separators)
    BY <1>2, SplitAppend, Zenon
  <2>3. Split(Append(s, token) \o t, separators) = Split(s, separators) \o Split(t, separators)
    BY <1>4
  <2>4. SplitStep(Split(s, separators) \o Split(t, separators), x, separators)
          = Split(s, separators) \o SplitStep(Split(t, separators), x, separators)
    <3>1. Split(s, separators) \in Seq(Text) /\ Split(t, separators) \in Parts
      BY <1>1 DEF Parts
    <3>2. QED
      BY <3>1, SplitStepAfter
  <2>5. SplitStep(Split(t, separators), x, separators) = Split(Append(t, x), separators)
    BY SplitAppend, Zenon
  <2>6. Split(Append(s, token) \o Append(t, x), separators)
          = Split(s, separators) \o Split(Append(t, x), separators)
    BY <2>1, <2>2, <2>3, <2>4, <2>5, Zenon
  <2>7. QED
    BY <2>1, <2>6, Zenon
<1>5. Text \subseteq S
  <2> HIDE DEF S
  <2> QED BY <1>3, <1>4, InductionOverSeq DEF Text
<1>6. QED
  BY <1>5

-----------------------------------------------------------------------------
(* Joining parts                                                           *)

\* One step of FlattenSeq, as a function.
ConcatSteps(parts) == [x \in Text \X (1 .. Len(parts)) |-> x[1] \o parts[x[2]]]

\* FlattenSeq takes one part at a time.
LEMMA FlattenRuns ==
  ASSUME NEW parts \in Seq(Text)
  PROVE  FoldRuns(Text, <<>>, Len(parts), ConcatSteps(parts), FlattenSeq(parts))
<1> DEFINE m == Len(parts)
           c == <<>>
           step == ConcatSteps(parts)
           pick == [t \in SUBSET (1 .. m) |-> Max(t)]
           Body(h, i) == IF i = 1 THEN parts[i] ELSE h[i - 1] \o parts[i]
           flat == CHOOSE h : h = [i \in 1 .. m |-> Body(h, i)]
<1>1. c \in Text /\ m \in Nat /\ \A i \in 1 .. m : parts[i] \in Text
  BY DEF Text
<1>2. \A a \in Text, i \in 1 .. m : step[<<a, i>>] = a \o parts[i]
  BY <1>1 DEF ConcatSteps
<1>3. step \in [Text \X (1 .. m) -> Text]
  BY <1>1 DEF ConcatSteps, Text
<1>4. FlattenSeq(parts) = IF m = 0 THEN parts ELSE flat[m]
  BY DEF FlattenSeq
<1>5. m = 0 => parts = c
  OBVIOUS
<1>6. \A a \in Text : c \o a = a
  BY DEF Text
<1> HIDE DEF m, c, step, flat
<1>7. FoldDefined(Text, c, 1 .. m, step, pick)
  BY <1>1, <1>3, FoldFromLeft
<1>8. PICK g \in [SUBSET (1 .. m) -> Text] :
        \A t \in SUBSET (1 .. m) : g[t] = FoldStep(c, step, pick, g, t)
  BY <1>7 DEF FoldDefined
<1>9. FoldRuns(Text, c, m, step, g[1 .. m])
  <2>1. g[{}] = c
    BY <1>8 DEF FoldStep
  <2>2. ASSUME NEW t \in SUBSET (1 .. m), t # {}
        PROVE  g[t] = step[<<g[t \ {Max(t)}], Max(t)>>]
    BY <1>8, <2>2 DEF FoldStep
  <2>3. QED
    BY <1>1, <1>3, <2>1, <2>2, FoldPositions
<1>10. PICK f \in [0 .. m -> Text] :
        f[0] = c /\ f[m] = g[1 .. m] /\ \A i \in 1 .. m : f[i] = step[<<f[i - 1], i>>]
  BY <1>9 DEF FoldRuns
<1>11. ASSUME NEW i \in 1 .. m PROVE f[i] = f[i - 1] \o parts[i] /\ f[i - 1] \in Text
  <2>1. f[i - 1] \in Text
    BY <1>1, <1>10
  <2>2. QED
    BY <1>2, <1>10, <2>1, Zenon
<1>12. flat = [i \in 1 .. m |-> Body(flat, i)]
  <2> DEFINE h == [i \in 1 .. m |-> f[i]]
  <2>1. ASSUME NEW i \in 1 .. m PROVE h[i] = Body(h, i)
    <3>1. CASE i = 1
      <4>1. f[i - 1] = c /\ parts[i] \in Text /\ h[i] = f[i]
        BY <1>1, <1>10, <3>1
      <4>2. f[i] = c \o parts[i]
        BY <1>11, <4>1, Zenon
      <4>3. QED
        BY <1>6, <3>1, <4>1, <4>2, Zenon
    <3>2. CASE i # 1
      <4>1. i - 1 \in 1 .. m
        BY <1>1, <3>2
      <4>2. h[i - 1] = f[i - 1] /\ h[i] = f[i]
        BY <4>1
      <4>3. QED
        BY <1>11, <3>2, <4>2, Zenon
    <3>3. QED
      BY <3>1, <3>2
  <2>2. h = [i \in 1 .. m |-> Body(h, i)]
    BY <2>1
  <2> HIDE DEF h
  <2>3. QED
    BY <2>2 DEF flat
<1>13. \A i \in 1 .. m : flat[i] = f[i]
  <2> DEFINE S == {i \in Nat : i + 1 <= m => flat[i + 1] = f[i + 1]}
  <2>1. 0 \in S
    <3>1. SUFFICES ASSUME 1 <= m PROVE flat[1] = f[1]
      OBVIOUS
    <3>2. 1 \in 1 .. m /\ f[1 - 1] = c
      BY <1>1, <1>10, <3>1
    <3>3. flat[1] = parts[1]
      BY <1>12, <3>2
    <3>4. f[1] = c \o parts[1] /\ parts[1] \in Text
      BY <1>1, <1>11, <3>2, Zenon
    <3>5. QED
      BY <1>6, <3>3, <3>4, Zenon
  <2>2. ASSUME NEW i \in Nat, i \in S PROVE i + 1 \in S
    <3>1. SUFFICES ASSUME (i + 1) + 1 <= m PROVE flat[(i + 1) + 1] = f[(i + 1) + 1]
      OBVIOUS
    <3>2. flat[i + 1] = f[i + 1] /\ (i + 1) + 1 \in 1 .. m /\ (i + 1) + 1 # 1
          /\ ((i + 1) + 1) - 1 = i + 1
      BY <1>1, <2>2, <3>1
    <3>3. f[(i + 1) + 1] = f[i + 1] \o parts[(i + 1) + 1]
      BY <1>11, <3>2, Zenon
    <3>4. flat[(i + 1) + 1] = Body(flat, (i + 1) + 1)
      BY <1>12, <3>2, Zenon
    <3>5. QED
      BY <3>2, <3>3, <3>4, Zenon
  <2>3. Nat \subseteq S
    <3> HIDE DEF S
    <3> QED BY <2>1, <2>2, InductionOverNat
  <2>4. ASSUME NEW i \in 1 .. m PROVE flat[i] = f[i]
    <3>1. i - 1 \in Nat /\ (i - 1) + 1 = i /\ i <= m
      BY <1>1
    <3>2. i - 1 \in S
      BY <2>3, <3>1, Zenon
    <3>3. QED
      BY <3>1, <3>2
  <2>5. QED
    BY <2>4
<1>14. f[m] = FlattenSeq(parts)
  BY <1>1, <1>4, <1>5, <1>10, <1>13
<1>15. FoldRuns(Text, c, m, step, FlattenSeq(parts))
  BY <1>9, <1>10, <1>14
<1>16. QED
  BY <1>15 DEF m, c, step

\* The text that has a slash before every part, as SetPath builds it.
Joined(parts) == FlattenSeq([i \in DOMAIN parts |-> <<"/">> \o parts[i]])

\* Parts with their slashes.
LEMMA SlashedParts ==
  ASSUME NEW parts \in Seq(Text)
  PROVE  /\ [i \in DOMAIN parts |-> <<"/">> \o parts[i]] \in Seq(Text)
         /\ Len([i \in DOMAIN parts |-> <<"/">> \o parts[i]]) = Len(parts)
<1> DEFINE s == [i \in DOMAIN parts |-> <<"/">> \o parts[i]]
<1>1. "/" \in Token
  BY DEF Token
<1>2. \A part \in Text : <<"/">> \o part \in Text
  BY <1>1 DEF Text
<1>3. DOMAIN parts = 1 .. Len(parts) /\ Len(parts) \in Nat /\ \A i \in 1 .. Len(parts) : parts[i] \in Text
  OBVIOUS
<1>4. s = [i \in 1 .. Len(parts) |-> <<"/">> \o parts[i]]
  BY <1>3
<1>5. \A i \in 1 .. Len(parts) : <<"/">> \o parts[i] \in Text
  BY <1>2, <1>3, Zenon
<1>6. [i \in 1 .. Len(parts) |-> <<"/">> \o parts[i]] \in [1 .. Len(parts) -> Text]
  BY <1>5, Zenon
<1>7. s \in [1 .. Len(parts) -> Text]
  BY <1>4, <1>6, Zenon
<1> HIDE DEF s
<1>8. s \in Seq(Text) /\ Len(s) = Len(parts)
  BY <1>3, <1>7
<1>9. QED
  BY <1>8 DEF s

\* Joined parts are a text.
LEMMA JoinedType == ASSUME NEW parts \in Seq(Text) PROVE Joined(parts) \in Text
<1>1. Len(parts) \in Nat
  OBVIOUS
<1>2. QED
  BY <1>1, SlashedParts, FlattenRuns, FoldType DEF Joined

\* No parts join to the empty text.
LEMMA JoinedEmpty == Joined(<<>>) = <<>>
<1>1. [i \in DOMAIN <<>> |-> <<"/">> \o <<>>[i]] = <<>>
  OBVIOUS
<1>2. FlattenSeq(<<>>) = <<>>
  BY DEF FlattenSeq
<1>3. QED
  BY <1>1, <1>2, Zenon DEF Joined

\* One more part adds a slash and itself.
LEMMA JoinedAppend ==
  ASSUME NEW parts \in Seq(Text), NEW part \in Text
  PROVE  Joined(Append(parts, part)) = Joined(parts) \o (<<"/">> \o part)
<1> DEFINE m == Len(parts)
           all == Append(parts, part)
           s == [i \in DOMAIN parts |-> <<"/">> \o parts[i]]
           t == [i \in DOMAIN all |-> <<"/">> \o all[i]]
<1>1. /\ all \in Seq(Text) /\ m \in Nat /\ Len(all) = m + 1 /\ all[m + 1] = part
      /\ \A i \in 1 .. m : all[i] = parts[i]
  BY AppendProperties, LenProperties
<1>2. DOMAIN all = 1 .. m + 1 /\ DOMAIN parts = 1 .. m
  BY <1>1, LenProperties
<1> HIDE DEF all
<1>3. s \in Seq(Text) /\ Len(s) = m /\ t \in Seq(Text) /\ Len(t) = m + 1
  BY <1>1, SlashedParts
<1>4. t[m + 1] = <<"/">> \o part /\ \A i \in 1 .. m : t[i] = s[i]
  BY <1>1, <1>2
<1> HIDE DEF s, t
<1>5. /\ FoldRuns(Text, <<>>, m, ConcatSteps(s), FlattenSeq(s))
      /\ FoldRuns(Text, <<>>, m + 1, ConcatSteps(t), FlattenSeq(t))
  BY <1>3, FlattenRuns
<1>6. \A a \in Text, i \in 1 .. m : ConcatSteps(t)[<<a, i>>] = ConcatSteps(s)[<<a, i>>]
  BY <1>1, <1>3, <1>4 DEF ConcatSteps
<1>7. FlattenSeq(t) = ConcatSteps(t)[<<FlattenSeq(s), m + 1>>]
  BY <1>1, <1>5, <1>6, FoldExtends
<1>8. FlattenSeq(s) \in Text
  BY <1>1, <1>5, FoldType
<1>9. FlattenSeq(t) = FlattenSeq(s) \o t[m + 1]
  <2>1. <<FlattenSeq(s), m + 1>> \in Text \X (1 .. Len(t))
    BY <1>1, <1>3, <1>8
  <2>2. ConcatSteps(t)[<<FlattenSeq(s), m + 1>>] = FlattenSeq(s) \o t[m + 1]
    BY <2>1 DEF ConcatSteps
  <2>3. QED
    BY <1>7, <2>2, Zenon
<1>10. QED
  BY <1>4, <1>9, Zenon DEF Joined, all, s, t

\* Joining goes through a concatenation of parts.
LEMMA JoinedConcat ==
  ASSUME NEW first \in Seq(Text), NEW second \in Seq(Text)
  PROVE  Joined(first \o second) = Joined(first) \o Joined(second)
<1> DEFINE S == {r \in Seq(Text) : Joined(first \o r) = Joined(first) \o Joined(r)}
<1>1. <<>> \in S
  <2>1. first \o <<>> = first /\ <<>> \in Seq(Text)
    OBVIOUS
  <2>2. Joined(first) \o <<>> = Joined(first)
    BY JoinedType DEF Text
  <2>3. QED
    BY <2>1, <2>2, JoinedEmpty, Zenon
<1>2. ASSUME NEW r \in Seq(Text), NEW part \in Text, r \in S PROVE Append(r, part) \in S
  <2>1. first \o Append(r, part) = Append(first \o r, part) /\ first \o r \in Seq(Text)
        /\ Append(r, part) \in Seq(Text)
    OBVIOUS
  <2>2. Joined(Append(first \o r, part)) = Joined(first \o r) \o (<<"/">> \o part)
    BY <2>1, JoinedAppend, Zenon
  <2>3. Joined(Append(r, part)) = Joined(r) \o (<<"/">> \o part)
    BY JoinedAppend, Zenon
  <2>4. Joined(first \o r) = Joined(first) \o Joined(r)
    BY <1>2
  <2>5. <<"/">> \o part \in Text /\ Joined(first) \in Text /\ Joined(r) \in Text
    BY JoinedType, TextTokens, TextConcat, Zenon
  <2>6. (Joined(first) \o Joined(r)) \o (<<"/">> \o part) = Joined(first) \o (Joined(r) \o (<<"/">> \o part))
    BY <2>5, TextAssoc, Zenon
  <2>7. Joined(first \o Append(r, part)) = Joined(first) \o Joined(Append(r, part))
    BY <2>1, <2>2, <2>3, <2>4, <2>6, Zenon
  <2>8. QED
    BY <2>1, <2>7, Zenon
<1>3. Seq(Text) \subseteq S
  <2> HIDE DEF S
  <2> QED BY <1>1, <1>2, InductionOverSeq
<1>4. QED
  BY <1>3

\* Joined parts start with a slash, if there are any.
LEMMA JoinedSlash ==
  ASSUME NEW parts \in Seq(Text), parts # <<>>
  PROVE  \E rest \in Text : Joined(parts) = <<"/">> \o rest
<1> DEFINE S == {r \in Seq(Text) : r # <<>> => \E rest \in Text : Joined(r) = <<"/">> \o rest}
<1>1. <<>> \in S
  OBVIOUS
<1>2. ASSUME NEW r \in Seq(Text), NEW part \in Text, r \in S PROVE Append(r, part) \in S
  <2>1. Append(r, part) \in Seq(Text)
    OBVIOUS
  <2>2. Joined(Append(r, part)) = Joined(r) \o (<<"/">> \o part)
    BY JoinedAppend, Zenon
  <2>3. CASE r = <<>>
    <3>1. <<>> \o (<<"/">> \o part) = <<"/">> \o part
      BY TextTokens, TextConcat, TextUnit, Zenon
    <3>2. QED
      BY <2>1, <2>2, <2>3, <3>1, JoinedEmpty, Zenon
  <2>4. CASE r # <<>>
    <3>1. PICK rest \in Text : Joined(r) = <<"/">> \o rest
      BY <1>2, <2>4
    <3>2. <<"/">> \o part \in Text /\ rest \o (<<"/">> \o part) \in Text
      BY TextTokens, TextConcat, Zenon
    <3>3. (<<"/">> \o rest) \o (<<"/">> \o part) = <<"/">> \o (rest \o (<<"/">> \o part))
      <4>1. <<"/">> \in Text
        BY TextTokens
      <4>2. QED
        BY <3>2, <4>1, TextAssoc, Zenon
    <3>4. QED
      BY <2>1, <2>2, <3>1, <3>2, <3>3, Zenon
  <2>5. QED
    BY <2>3, <2>4
<1>3. Seq(Text) \subseteq S
  <2> HIDE DEF S
  <2> QED BY <1>1, <1>2, InductionOverSeq
<1>4. QED
  BY <1>3

Slash == {"/"}

\* What Split takes apart at the slashes, Joined puts together.
LEMMA JoinedSplit ==
  ASSUME NEW text \in Text
  PROVE  Joined(Split(text, Slash)) = <<"/">> \o text
<1> DEFINE S == {t \in Text : Joined(Split(t, Slash)) = <<"/">> \o t}
<1>1. <<"/">> \in Text /\ <<>> \in Text /\ <<>> \in Seq(Text)
  BY DEF Text, Token
<1>2. <<>> \in S
  <2>1. Joined(Append(<<>>, <<>>)) = <<>> \o (<<"/">> \o <<>>)
    BY <1>1, JoinedAppend, JoinedEmpty, Zenon
  <2>2. Append(<<>>, <<>>) = << <<>> >> /\ <<>> \o (<<"/">> \o <<>>) = <<"/">> \o <<>>
    OBVIOUS
  <2>3. QED
    BY <1>1, <2>1, <2>2, SplitEmpty, Zenon
<1>3. ASSUME NEW t \in Text, NEW x \in Token, t \in S PROVE Append(t, x) \in S
  <2>1. PICK first \in Seq(Text), last \in Text : Split(t, Slash) = Append(first, last)
    BY SplitType, PartsLast
  <2>2. Joined(first) \in Text /\ Joined(first) \o (<<"/">> \o last) = <<"/">> \o t
    BY <1>3, <2>1, JoinedType, JoinedAppend, Zenon
  <2>3. Split(Append(t, x), Slash) = SplitStep(Append(first, last), x, Slash)
    BY <2>1, SplitAppend, Zenon
  <2>4. /\ Append(last, x) \in Text /\ Append(t, x) \in Text
        /\ <<"/">> \o last \in Text /\ <<"/">> \o t \in Text
    BY TextTokens, TextConcat, TextAppend, Zenon
  <2>5. CASE x \in Slash
    <3>1. Split(Append(t, x), Slash) = Append(Append(first, last), <<>>)
      BY <2>3, <2>5, SplitStepLast
    <3>2. Append(first, last) \in Seq(Text)
      OBVIOUS
    <3>3. Joined(Append(Append(first, last), <<>>)) = Joined(Append(first, last)) \o (<<"/">> \o <<>>)
      BY <1>1, <3>2, JoinedAppend, Zenon
    <3>4. Joined(Append(first, last)) = <<"/">> \o t
      BY <1>3, <2>1, Zenon
    <3>5. <<"/">> \o <<>> = <<"/">> /\ Append(t, "/") = t \o <<"/">>
      BY TextTokens, TextUnit, TextAppend, Zenon
    <3>6. (<<"/">> \o t) \o <<"/">> = <<"/">> \o (t \o <<"/">>)
      BY <1>1, TextAssoc, Zenon
    <3>7. x = "/"
      BY <2>5 DEF Slash
    <3>8. QED
      BY <2>4, <3>1, <3>3, <3>4, <3>5, <3>6, <3>7, Zenon
  <2>6. CASE x \notin Slash
    <3>1. Split(Append(t, x), Slash) = Append(first, Append(last, x))
      BY <2>3, <2>6, SplitStepLast
    <3>2. Joined(Append(first, Append(last, x))) = Joined(first) \o (<<"/">> \o Append(last, x))
      BY <2>4, JoinedAppend, Zenon
    <3>3. <<"/">> \o Append(last, x) = Append(<<"/">> \o last, x)
      BY <1>1, TextConcatAppend, Zenon
    <3>4. Joined(first) \o Append(<<"/">> \o last, x) = Append(Joined(first) \o (<<"/">> \o last), x)
      BY <2>2, <2>4, TextConcatAppend, Zenon
    <3>5. <<"/">> \o Append(t, x) = Append(<<"/">> \o t, x)
      BY <1>1, TextConcatAppend, Zenon
    <3>6. QED
      BY <2>2, <2>4, <3>1, <3>2, <3>3, <3>4, <3>5, Zenon
  <2>7. QED
    BY <2>5, <2>6
<1>4. Text \subseteq S
  <2> HIDE DEF S
  <2> QED BY <1>2, <1>3, InductionOverSeq DEF Text
<1>5. QED
  BY <1>4

\* Texts with the same parts are the same.
LEMMA SplitInjective ==
  ASSUME NEW s \in Text, NEW t \in Text, Split(s, Slash) = Split(t, Slash)
  PROVE  s = t
<1>1. <<"/">> \o s = <<"/">> \o t
  BY JoinedSplit, Zenon
<1>2. <<"/">> \in Text
  BY DEF Text, Token
<1>3. QED
  BY <1>1, <1>2, ConcatSimplifications DEF Text

-----------------------------------------------------------------------------
(* Accepted paths                                                          *)

\* The tokens a text that splits alike at slashes and backslashes is made of, and
\* those that do not decode to either.
Unescaped == Token \ {"\\"}
Unhidden == Token \ {"\\", "%2f", "%5c"}

DecodeToken(token) == IF token \in Escapes THEN Decoded[token] ELSE token
DecodeParts(parts) == [i \in DOMAIN parts |-> Decode(parts[i])]

\* A token decodes to one that is no escape.
LEMMA DecodeTokens ==
  /\ \A x \in Token : DecodeToken(x) \in Token \ Escapes
  /\ \A x \in Unhidden : DecodeToken(x) \in {"/", "\\"} <=> x \in Slash
<1>1. /\ Decoded["%61"] = "a" /\ Decoded["%2e"] = "."
      /\ Decoded["%2f"] = "/" /\ Decoded["%5c"] = "\\"
  BY DEF Escapes, Decoded
<1>2. QED
  BY <1>1 DEF DecodeToken, Token, Unhidden, Escapes, Slash

\* Decoding goes token by token.
LEMMA DecodeText ==
  ASSUME NEW text \in Text
  PROVE  /\ Decode(text) \in Text /\ Len(Decode(text)) = Len(text)
         /\ \A i \in 1 .. Len(text) : Decode(text)[i] = DecodeToken(text[i])
<1>1. DOMAIN text = 1 .. Len(text) /\ Len(text) \in Nat /\ \A i \in 1 .. Len(text) : text[i] \in Token
  BY DEF Text
<1>2. \A i \in 1 .. Len(text) : DecodeToken(text[i]) \in Token
  BY <1>1, DecodeTokens
<1>3. Decode(text) = [i \in 1 .. Len(text) |-> DecodeToken(text[i])]
  BY <1>1 DEF Decode, DecodeToken
<1>4. QED
  BY <1>1, <1>2, <1>3 DEF Text

\* One more token is decoded by itself.
LEMMA DecodeAppend ==
  ASSUME NEW text \in Text, NEW x \in Token
  PROVE  Decode(Append(text, x)) = Append(Decode(text), DecodeToken(x))
<1> DEFINE m == Len(text)
           t == Append(text, x)
           l == Decode(t)
           r == Append(Decode(text), DecodeToken(x))
<1>1. t \in Text /\ Len(t) = m + 1 /\ m \in Nat /\ t[m + 1] = x /\ \A i \in 1 .. m : t[i] = text[i]
  BY AppendProperties, LenProperties DEF Text
<1> HIDE DEF t
<1>2. l \in Text /\ Len(l) = m + 1 /\ \A i \in 1 .. m + 1 : l[i] = DecodeToken(t[i])
  BY <1>1, DecodeText
<1>3. DecodeToken(x) \in Token /\ Decode(text) \in Text /\ Len(Decode(text)) = m
      /\ \A i \in 1 .. m : Decode(text)[i] = DecodeToken(text[i])
  BY DecodeText, DecodeTokens
<1>4. r \in Text /\ Len(r) = m + 1 /\ r[m + 1] = DecodeToken(x)
      /\ \A i \in 1 .. m : r[i] = Decode(text)[i]
  BY <1>3, AppendProperties DEF Text
<1> HIDE DEF l, r
<1>5. ASSUME NEW i \in 1 .. m + 1 PROVE l[i] = r[i]
  <2>1. CASE i = m + 1
    BY <1>1, <1>2, <1>4, <2>1
  <2>2. CASE i \in 1 .. m
    BY <1>1, <1>2, <1>3, <1>4, <2>2
  <2>3. QED
    BY <1>1, <2>1, <2>2
<1>6. l = r
  BY <1>2, <1>4, <1>5, SeqEqual DEF Text
<1>7. QED
  BY <1>6 DEF l, r, t

\* What is decoded once is decoded.
LEMMA DecodeTwice ==
  ASSUME NEW text \in Text
  PROVE  Decode(Decode(text)) = Decode(text)
<1>1. /\ Decode(text) \in Text /\ Len(Decode(text)) = Len(text)
      /\ \A i \in 1 .. Len(text) : Decode(text)[i] = DecodeToken(text[i])
  BY DecodeText
<1>2. /\ Decode(Decode(text)) \in Text /\ Len(Decode(Decode(text))) = Len(text)
      /\ \A i \in 1 .. Len(text) : Decode(Decode(text))[i] = DecodeToken(Decode(text)[i])
  BY <1>1, DecodeText
<1>3. \A i \in 1 .. Len(text) : DecodeToken(DecodeToken(text[i])) = DecodeToken(text[i])
  BY DecodeTokens DEF Text, DecodeToken
<1>4. QED
  BY <1>1, <1>2, <1>3, SeqEqual DEF Text

\* Decoding parts leaves a part for a part.
LEMMA DecodedParts ==
  ASSUME NEW parts \in Seq(Text)
  PROVE  /\ DecodeParts(parts) \in Seq(Text) /\ Len(DecodeParts(parts)) = Len(parts)
         /\ \A i \in 1 .. Len(parts) : DecodeParts(parts)[i] = Decode(parts[i])
<1>1. DOMAIN parts = 1 .. Len(parts) /\ Len(parts) \in Nat /\ \A i \in 1 .. Len(parts) : parts[i] \in Text
  OBVIOUS
<1>2. \A i \in 1 .. Len(parts) : Decode(parts[i]) \in Text
  BY <1>1, DecodeText
<1>3. DecodeParts(parts) = [i \in 1 .. Len(parts) |-> Decode(parts[i])]
  BY <1>1 DEF DecodeParts
<1>4. QED
  BY <1>1, <1>2, <1>3

\* One more part is decoded by itself.
LEMMA DecodePartsAppend ==
  ASSUME NEW first \in Seq(Text), NEW last \in Text
  PROVE  DecodeParts(Append(first, last)) = Append(DecodeParts(first), Decode(last))
<1> DEFINE m == Len(first)
           all == Append(first, last)
           l == DecodeParts(all)
           r == Append(DecodeParts(first), Decode(last))
<1>1. all \in Seq(Text) /\ Len(all) = m + 1 /\ m \in Nat /\ all[m + 1] = last
      /\ \A i \in 1 .. m : all[i] = first[i]
  BY AppendProperties, LenProperties
<1> HIDE DEF all
<1>2. l \in Seq(Text) /\ Len(l) = m + 1 /\ \A i \in 1 .. m + 1 : l[i] = Decode(all[i])
  BY <1>1, DecodedParts
<1>3. Decode(last) \in Text /\ DecodeParts(first) \in Seq(Text) /\ Len(DecodeParts(first)) = m
      /\ \A i \in 1 .. m : DecodeParts(first)[i] = Decode(first[i])
  BY DecodeText, DecodedParts
<1>4. r \in Seq(Text) /\ Len(r) = m + 1 /\ r[m + 1] = Decode(last)
      /\ \A i \in 1 .. m : r[i] = DecodeParts(first)[i]
  BY <1>3, AppendProperties
<1> HIDE DEF l, r
<1>5. ASSUME NEW i \in 1 .. m + 1 PROVE l[i] = r[i]
  <2>1. CASE i = m + 1
    BY <1>1, <1>2, <1>4, <2>1
  <2>2. CASE i \in 1 .. m
    BY <1>1, <1>2, <1>3, <1>4, <2>2
  <2>3. QED
    BY <1>1, <2>1, <2>2
<1>6. l = r
  BY <1>2, <1>4, <1>5, SeqEqual
<1>7. QED
  BY <1>6 DEF l, r, all

\* A separator starts a part.
LEMMA SplitStepSeparator ==
  ASSUME NEW first \in Seq(Text), NEW last \in Text, NEW token \in Token, NEW separators,
         token \in separators
  PROVE  SplitStep(Append(first, last), token, separators) = Append(Append(first, last), <<>>)
  BY SplitStepLast

\* A token that is no separator goes to the last part.
LEMMA SplitStepToken ==
  ASSUME NEW first \in Seq(Text), NEW last \in Text, NEW token \in Token, NEW separators,
         token \notin separators
  PROVE  SplitStep(Append(first, last), token, separators) = Append(first, Append(last, token))
  BY SplitStepLast

\* What Url::set_path takes for a separator.
BothSlashes == {"/", "\\"}

\* Without a backslash, the separators of Url::set_path are the slashes.
LEMMA SplitWithoutBackslash ==
  ASSUME NEW text \in Seq(Unescaped)
  PROVE  Split(text, BothSlashes) = Split(text, Slash)
<1> DEFINE S == {t \in Seq(Unescaped) : Split(t, BothSlashes) = Split(t, Slash)}
<1>1. <<>> \in S
  BY SplitEmpty DEF Unescaped
<1>2. ASSUME NEW t \in Seq(Unescaped), NEW x \in Unescaped, t \in S PROVE Append(t, x) \in S
  <2>1. t \in Text /\ x \in Token /\ Append(t, x) \in Seq(Unescaped)
    BY DEF Text, Unescaped
  <2>2. x \in BothSlashes <=> x \in Slash
    BY DEF BothSlashes, Slash, Unescaped
  <2>3. \A parts : SplitStep(parts, x, BothSlashes) = SplitStep(parts, x, Slash)
    BY <2>2 DEF SplitStep
  <2>4. Split(t, BothSlashes) = Split(t, Slash)
    BY <1>2
  <2>5. Split(Append(t, x), BothSlashes) = Split(Append(t, x), Slash)
    BY <2>1, <2>3, <2>4, SplitAppend, Zenon
  <2>6. QED
    BY <2>1, <2>5, Zenon
<1>3. Seq(Unescaped) \subseteq S
  <2> HIDE DEF S
  <2> QED BY <1>1, <1>2, InductionOverSeq
<1>4. QED
  BY <1>3

\* Without an escaped separator, decoding before or after the split is the same.
LEMMA DecodedSplit ==
  ASSUME NEW text \in Seq(Unhidden)
  PROVE  Split(Decode(text), BothSlashes) = DecodeParts(Split(text, Slash))
<1> DEFINE S == {t \in Seq(Unhidden) : Split(Decode(t), BothSlashes) = DecodeParts(Split(t, Slash))}
<1>1. Decode(<<>>) = <<>> /\ <<>> \in Text
  BY DEF Decode, Text
<1>2. <<>> \in S
  <2>1. DecodeParts(<< <<>> >>) = << <<>> >>
    BY <1>1 DEF DecodeParts
  <2>2. <<>> \in Seq(Unhidden)
    OBVIOUS
  <2>3. QED
    BY <1>1, <2>1, <2>2, SplitEmpty, Zenon
<1>3. ASSUME NEW t \in Seq(Unhidden), NEW x \in Unhidden, t \in S PROVE Append(t, x) \in S
  <2>1. t \in Text /\ x \in Token /\ Append(t, x) \in Seq(Unhidden)
    BY DEF Text, Unhidden
  <2>2. Decode(t) \in Text /\ DecodeToken(x) \in Token
    BY <2>1, DecodeText, DecodeTokens, Zenon
  <2>3. PICK first \in Seq(Text), last \in Text : Split(t, Slash) = Append(first, last)
    BY <2>1, SplitType, PartsLast
  <2>4. /\ DecodeParts(first) \in Seq(Text) /\ Decode(last) \in Text
    BY DecodedParts, DecodeText, Zenon
  <2>5. Split(Decode(t), BothSlashes) = Append(DecodeParts(first), Decode(last))
    BY <1>3, <2>3, DecodePartsAppend, Zenon
  <2>6. Split(Decode(Append(t, x)), BothSlashes)
          = SplitStep(Append(DecodeParts(first), Decode(last)), DecodeToken(x), BothSlashes)
    <3>1. Decode(Append(t, x)) = Append(Decode(t), DecodeToken(x))
      BY <2>1, DecodeAppend, Zenon
    <3>2. Split(Append(Decode(t), DecodeToken(x)), BothSlashes)
            = SplitStep(Split(Decode(t), BothSlashes), DecodeToken(x), BothSlashes)
      BY <2>2, SplitAppend, Zenon
    <3>3. QED
      BY <2>5, <3>1, <3>2, Zenon
  <2>7. Split(Append(t, x), Slash) = SplitStep(Append(first, last), x, Slash)
    BY <2>1, <2>3, SplitAppend, Zenon
  <2>8. DecodeToken(x) \in BothSlashes <=> x \in Slash
    BY DecodeTokens DEF BothSlashes
  <2>9. CASE x \in Slash
    <3>1. Split(Append(t, x), Slash) = Append(Append(first, last), <<>>)
      BY <2>1, <2>7, <2>9, SplitStepSeparator, Zenon
    <3>2. Split(Decode(Append(t, x)), BothSlashes) = Append(Append(DecodeParts(first), Decode(last)), <<>>)
      <4>1. DecodeToken(x) \in BothSlashes
        BY <2>8, <2>9, Zenon
      <4>2. SplitStep(Append(DecodeParts(first), Decode(last)), DecodeToken(x), BothSlashes)
              = Append(Append(DecodeParts(first), Decode(last)), <<>>)
        BY <2>2, <2>4, <4>1, SplitStepSeparator, Zenon
      <4>3. QED
        BY <2>6, <4>2, Zenon
    <3>3. Append(first, last) \in Seq(Text)
      OBVIOUS
    <3>4. DecodeParts(Append(Append(first, last), <<>>))
            = Append(Append(DecodeParts(first), Decode(last)), <<>>)
      BY <1>1, <3>3, DecodePartsAppend, Zenon
    <3>5. QED
      BY <2>1, <3>1, <3>2, <3>4, Zenon
  <2>10. CASE x \notin Slash
    <3>1. Split(Append(t, x), Slash) = Append(first, Append(last, x))
      BY <2>1, <2>7, <2>10, SplitStepToken, Zenon
    <3>2. Split(Decode(Append(t, x)), BothSlashes)
            = Append(DecodeParts(first), Append(Decode(last), DecodeToken(x)))
      <4>1. DecodeToken(x) \notin BothSlashes
        BY <2>8, <2>10, Zenon
      <4>2. SplitStep(Append(DecodeParts(first), Decode(last)), DecodeToken(x), BothSlashes)
              = Append(DecodeParts(first), Append(Decode(last), DecodeToken(x)))
        BY <2>2, <2>4, <4>1, SplitStepToken, Zenon
      <4>3. QED
        BY <2>6, <4>2, Zenon
    <3>3. Append(last, x) \in Text
      BY <2>1, TextAppend, Zenon
    <3>4. DecodeParts(Append(first, Append(last, x)))
            = Append(DecodeParts(first), Append(Decode(last), DecodeToken(x)))
      BY <2>1, <3>3, DecodePartsAppend, DecodeAppend, Zenon
    <3>5. QED
      BY <2>1, <3>1, <3>2, <3>4, Zenon
  <2>11. QED
    BY <2>9, <2>10
<1>4. Seq(Unhidden) \subseteq S
  <2> HIDE DEF S
  <2> QED BY <1>2, <1>3, InductionOverSeq
<1>5. QED
  BY <1>4

\* A segment that is no dot segment is kept.
LEMMA KeepsSegment ==
  ASSUME NEW segments, NEW kept, NEW i, ~IsDotSegment(segments[i])
  PROVE  KeepSegment(kept, i, segments) = Append(kept, segments[i])
<1>1. IsDotSegment(segments[i]) = FALSE
  BY DEF IsDotSegment
<1> HIDE DEF IsDotSegment
<1>2. QED
  BY <1>1 DEF KeepSegment

KeepSteps(segments) ==
  [x \in Seq(Text) \X (1 .. Len(segments)) |-> Append(x[1], segments[x[2]])]

\* Without dot segments, RemoveDotSegments takes one segment at a time.
LEMMA RemoveDotSegmentsRuns ==
  ASSUME NEW segments \in Seq(Text), \A i \in 1 .. Len(segments) : ~IsDotSegment(segments[i])
  PROVE  FoldRuns(Seq(Text), <<>>, Len(segments), KeepSteps(segments), RemoveDotSegments(segments))
<1> DEFINE m == Len(segments)
           c == <<>>
           step == KeepSteps(segments)
           ids == [i \in DOMAIN segments |-> i]
           pick == [t \in SUBSET (1 .. m) |-> Max(t)]
           Body(h, t) == IF t = {} THEN c ELSE KeepSegment(h[t \ {Max(t)}], ids[Max(t)], segments)
           iter == CHOOSE h : h = [t \in SUBSET DOMAIN ids |-> Body(h, t)]
<1>1. /\ m \in Nat /\ DOMAIN segments = 1 .. m /\ DOMAIN ids = 1 .. m
      /\ c \in Seq(Text)
      /\ \A i \in 1 .. m : segments[i] \in Text /\ ids[i] = i
  OBVIOUS
<1>2. step \in [Seq(Text) \X (1 .. m) -> Seq(Text)]
  BY <1>1 DEF KeepSteps
<1>3. \A a \in Seq(Text), i \in 1 .. m : step[<<a, i>>] = Append(a, segments[i])
  BY <1>1 DEF KeepSteps
<1>4. RemoveDotSegments(segments) = iter[DOMAIN ids]
  BY DEF RemoveDotSegments, FoldLeftDomain, FoldLeft, MapThenFoldSet, c
<1> HIDE DEF m, c, step, ids
<1>5. ASSUME NEW a \in Seq(Text), NEW i \in 1 .. m
      PROVE  step[<<a, i>>] = KeepSegment(a, ids[i], segments)
  <2>1. i \in 1 .. Len(segments)
    BY DEF m
  <2>2. KeepSegment(a, i, segments) = Append(a, segments[i])
    BY <2>1, KeepsSegment, Zenon
  <2>3. ids[i] = i /\ step[<<a, i>>] = Append(a, segments[i])
    BY <1>1, <1>3, Zenon
  <2>4. QED
    BY <2>2, <2>3, Zenon
<1>6. FoldDefined(Seq(Text), c, 1 .. m, step, pick)
  BY <1>1, <1>2, FoldFromLeft
<1>7. PICK g \in [SUBSET (1 .. m) -> Seq(Text)] :
        \A t \in SUBSET (1 .. m) : g[t] = FoldStep(c, step, pick, g, t)
  BY <1>6 DEF FoldDefined
<1>8. \A t \in SUBSET (1 .. m) : t # {} => Max(t) \in t /\ t \ {Max(t)} \in SUBSET (1 .. m)
  BY <1>1, MaxIn
<1>9. \A t \in SUBSET (1 .. m) : g[t] = Body(g, t)
  BY <1>5, <1>7, <1>8 DEF FoldStep
<1>10. g = [t \in SUBSET DOMAIN ids |-> Body(g, t)]
  BY <1>1, <1>7, <1>9
<1>11. iter = [t \in SUBSET DOMAIN ids |-> Body(iter, t)]
  BY <1>10
<1> HIDE DEF iter
<1>12. iter[{}] = c
  BY <1>11
<1>13. ASSUME NEW t \in SUBSET (1 .. m), t # {}, iter[t \ {Max(t)}] \in Seq(Text)
       PROVE  iter[t] = step[<<iter[t \ {Max(t)}], Max(t)>>]
  <2>1. iter[t] = KeepSegment(iter[t \ {Max(t)}], ids[Max(t)], segments)
    BY <1>1, <1>11, <1>13
  <2>2. Max(t) \in 1 .. m
    BY <1>8, <1>13
  <2>3. QED
    BY <1>5, <1>13, <2>1, <2>2
<1>14. FoldRuns(Seq(Text), c, m, step, iter[1 .. m])
  BY <1>1, <1>2, <1>12, <1>13, FoldPositions
<1>15. QED
  BY <1>1, <1>4, <1>14 DEF m, c, step

\* A path without dot segments keeps all its segments.
LEMMA NoDotSegments ==
  ASSUME NEW segments \in Seq(Text), \A i \in 1 .. Len(segments) : ~IsDotSegment(segments[i])
  PROVE  RemoveDotSegments(segments) = segments
<1> DEFINE NoDots(s) == \A i \in 1 .. Len(s) : ~IsDotSegment(s[i])
           S == {s \in Seq(Text) : NoDots(s) => RemoveDotSegments(s) = s}
<1>1. <<>> \in S
  <2>1. <<>> \in Seq(Text) /\ Len(<<>>) = 0 /\ NoDots(<<>>)
    OBVIOUS
  <2>2. FoldRuns(Seq(Text), <<>>, 0, KeepSteps(<<>>), RemoveDotSegments(<<>>))
    BY <2>1, RemoveDotSegmentsRuns, Zenon
  <2>3. QED
    BY <2>1, <2>2, FoldOfNone, Zenon
<1>2. ASSUME NEW s \in Seq(Text), NEW x \in Text, s \in S PROVE Append(s, x) \in S
  <2> DEFINE t == Append(s, x)
             m == Len(s)
  <2>1. /\ t \in Seq(Text) /\ Len(t) = m + 1 /\ m \in Nat
        /\ \A i \in 1 .. m : t[i] = s[i]
        /\ t[m + 1] = x
    BY AppendProperties, LenProperties
  <2> HIDE DEF t
  <2> SUFFICES ASSUME NoDots(t) PROVE RemoveDotSegments(t) = t
    BY <2>1 DEF t
  <2>2. NoDots(s)
    BY <2>1
  <2>3. /\ FoldRuns(Seq(Text), <<>>, m, KeepSteps(s), RemoveDotSegments(s))
        /\ FoldRuns(Seq(Text), <<>>, m + 1, KeepSteps(t), RemoveDotSegments(t))
    BY <2>1, <2>2, RemoveDotSegmentsRuns
  <2>4. \A a \in Seq(Text), i \in 1 .. m : KeepSteps(t)[<<a, i>>] = KeepSteps(s)[<<a, i>>]
    BY <2>1 DEF KeepSteps
  <2>5. RemoveDotSegments(t) = KeepSteps(t)[<<RemoveDotSegments(s), m + 1>>]
    BY <2>1, <2>3, <2>4, FoldExtends
  <2>6. RemoveDotSegments(s) = s
    BY <1>2, <2>2
  <2>7. KeepSteps(t)[<<s, m + 1>>] = Append(s, x)
    BY <2>1 DEF KeepSteps
  <2>8. QED
    BY <2>5, <2>6, <2>7 DEF t
<1>3. Seq(Text) \subseteq S
  <2> HIDE DEF S
  <2> QED BY <1>1, <1>2, InductionOverSeq
<1>4. QED
  BY <1>3

\* The bytes of a text are a number.
LEMMA BytesType == ASSUME NEW text \in Text PROVE Bytes(text) \in Nat
  BY DEF Bytes, Text

\* What the parser accepts: a short path that starts with a slash, hides no
\* separator and has no dot segment.
LEMMA AcceptedPath ==
  ASSUME NEW path \in Text, PathFault(path) = None
  PROVE  /\ Bytes(path) <= MaxPathBytes
         /\ path \in Seq(Unhidden)
         /\ IsPrefix(<<"/">>, path)
         /\ ~HasDotSegment(path)
<1>1. /\ ~(Bytes(path) > MaxPathBytes)
      /\ IsPrefix(<<"/">>, path)
      /\ ~HasForbiddenSeparator(path)
      /\ ~HasDotSegment(path)
  BY DEF PathFault, None
<1>2. Bytes(path) \in Nat /\ MaxPathBytes \in Nat
  BY BytesType, AcceptanceAssumption
<1>3. Bytes(path) <= MaxPathBytes
  BY <1>1, <1>2
<1>4. path \in Seq(Unhidden)
  <2>1. path \in Seq(Token)
    BY DEF Text
  <2>2. \A i \in 1 .. Len(path) : path[i] \in Unhidden
    <3> SUFFICES ASSUME NEW i \in 1 .. Len(path) PROVE path[i] \in Unhidden
      OBVIOUS
    <3>1. path[i] \in Token /\ path[i] \in ToSet(path)
      BY <2>1 DEF ToSet
    <3>2. {"\\", "%2f", "%5c"} \cap ToSet(path) = {}
      BY <1>1 DEF HasForbiddenSeparator
    <3>3. QED
      BY <3>1, <3>2, Zenon DEF Unhidden
  <2>3. QED
    BY <2>1, <2>2
<1>5. QED
  BY <1>1, <1>3, <1>4

\* A text that starts with a slash is the slash and the rest.
LEMMA AfterSlash ==
  ASSUME NEW path \in Seq(Unhidden), IsPrefix(<<"/">>, path)
  PROVE  \E rest \in Seq(Unhidden) : path = <<"/">> \o rest
<1>1. Len(path) >= 1 /\ path[1] = "/"
  BY DEF IsPrefix
<1>2. Tail(path) \in Seq(Unhidden)
  BY <1>1
<1>3. path = <<"/">> \o Tail(path)
  BY <1>1
<1>4. QED
  BY <1>2, <1>3

\* The parts after the slash a path starts with.
LEMMA PartsAfterSlash ==
  ASSUME NEW rest \in Text, NEW separators, "/" \in separators
  PROVE  /\ Split(<<"/">> \o rest, separators) = << <<>> >> \o Split(rest, separators)
         /\ Tail(Split(<<"/">> \o rest, separators)) = Split(rest, separators)
<1>1. Split(Append(<<>>, "/") \o rest, separators) = Split(<<>>, separators) \o Split(rest, separators)
  <2>1. "/" \in Token \cap separators /\ <<>> \in Text
    BY TextTokens
  <2>2. QED
    BY <2>1, SplitAtSeparator, Zenon
<1>2. Append(<<>>, "/") = <<"/">>
  OBVIOUS
<1>3. Split(<<"/">> \o rest, separators) = << <<>> >> \o Split(rest, separators)
  BY <1>1, <1>2, SplitEmpty, Zenon
<1>4. PICK parts \in Parts : parts = Split(rest, separators)
  BY SplitType
<1>5. Tail(<< <<>> >> \o parts) = parts
  BY DEF Parts
<1>6. QED
  BY <1>3, <1>4, <1>5, Zenon

\* An accepted path has only the segments after its first slash, none of them dots.
LEMMA AcceptedParts ==
  ASSUME NEW path \in Text, PathFault(path) = None
  PROVE  \E rest \in Seq(Unhidden), parts \in Parts :
           /\ path = <<"/">> \o rest
           /\ parts = Split(rest, Slash)
           /\ Split(path, Slash) = << <<>> >> \o parts
           /\ Tail(Split(path, Slash)) = parts
           /\ \A i \in 1 .. Len(parts) : ~IsDotSegment(parts[i])
<1>1. PICK rest \in Seq(Unhidden) : path = <<"/">> \o rest
  BY AcceptedPath, AfterSlash
<1>2. rest \in Text /\ "/" \in Slash
  BY DEF Text, Unhidden, Slash
<1>3. PICK parts \in Parts : parts = Split(rest, Slash)
  BY <1>2, SplitType
<1>4. Split(path, Slash) = << <<>> >> \o parts /\ Tail(Split(path, Slash)) = parts
  BY <1>1, <1>2, <1>3, PartsAfterSlash, Zenon
<1>5. ASSUME NEW i \in 1 .. Len(parts) PROVE ~IsDotSegment(parts[i])
  <2>1. ~HasDotSegment(path)
    BY AcceptedPath
  <2>2. \A k \in 1 .. Len(<< <<>> >> \o parts) : ~IsDotSegment((<< <<>> >> \o parts)[k])
    BY <1>4, <2>1 DEF HasDotSegment, ToSet, Slash, Parts
  <2>3. /\ i + 1 \in 1 .. Len(<< <<>> >> \o parts)
        /\ (<< <<>> >> \o parts)[i + 1] = parts[i]
    BY DEF Parts
  <2>4. QED
    BY <2>2, <2>3
<1>6. QED
  BY <1>1, <1>3, <1>4, <1>5

\* Url::set_path leaves an accepted path as it is.
LEMMA SetPathKeeps ==
  ASSUME NEW path \in Text, PathFault(path) = None
  PROVE  SetPath(path) = path
<1>1. PICK rest \in Seq(Unhidden), parts \in Parts :
        /\ path = <<"/">> \o rest
        /\ parts = Split(rest, Slash)
        /\ Tail(Split(path, Slash)) = parts
        /\ \A i \in 1 .. Len(parts) : ~IsDotSegment(parts[i])
  BY AcceptedParts
<1>2. path \in Seq(Unescaped) /\ rest \in Text /\ parts \in Seq(Text)
  BY AcceptedPath DEF Unescaped, Unhidden, Text, Parts
<1>3. Tail(Split(path, BothSlashes)) = parts
  BY <1>1, <1>2, SplitWithoutBackslash, Zenon
<1>4. RemoveDotSegments(parts) = parts
  BY <1>1, <1>2, NoDotSegments
<1>5. SetPath(path) = Joined(parts)
  BY <1>3, <1>4, Zenon DEF SetPath, Joined, BothSlashes
<1>6. Joined(parts) = <<"/">> \o rest
  BY <1>1, <1>2, JoinedSplit, Zenon
<1>7. QED
  BY <1>1, <1>5, <1>6, Zenon

\* A provider that decodes an accepted path reads its segments, decoded.
LEMMA ProviderReads ==
  ASSUME NEW path \in Text, PathFault(path) = None
  PROVE  ReadByProvider(path) = DecodeParts(Tail(Split(path, Slash)))
<1>1. PICK rest \in Seq(Unhidden), parts \in Parts :
        /\ path = <<"/">> \o rest
        /\ parts = Split(rest, Slash)
        /\ Split(path, Slash) = << <<>> >> \o parts
        /\ Tail(Split(path, Slash)) = parts
        /\ \A i \in 1 .. Len(parts) : ~IsDotSegment(parts[i])
  BY AcceptedParts
<1>2. path \in Seq(Unhidden) /\ parts \in Seq(Text)
  BY AcceptedPath DEF Parts
<1>3. PICK decoded \in Seq(Text) :
        /\ decoded = DecodeParts(parts)
        /\ Len(decoded) = Len(parts)
        /\ \A i \in 1 .. Len(parts) : decoded[i] = Decode(parts[i])
  BY <1>2, DecodedParts
<1>4. Split(Decode(path), BothSlashes) = DecodeParts(<< <<>> >> \o parts)
  BY <1>1, <1>2, DecodedSplit, Zenon
<1>5. Tail(DecodeParts(<< <<>> >> \o parts)) = decoded
  <2>1. PICK all \in Seq(Text) : all = << <<>> >> \o parts
    <3>1. << <<>> >> \in Seq(Text)
      BY TextTokens
    <3>2. QED
      BY <1>2, <3>1, ConcatProperties
  <2>2. Len(all) = Len(parts) + 1 /\ \A i \in 1 .. Len(parts) : all[i + 1] = parts[i]
    BY <1>2, <2>1
  <2>3. PICK image \in Seq(Text) :
          /\ image = DecodeParts(all)
          /\ Len(image) = Len(all)
          /\ \A i \in 1 .. Len(all) : image[i] = Decode(all[i])
    BY DecodedParts
  <2>4. \A i \in 1 .. Len(parts) : image[i + 1] = decoded[i]
    BY <1>2, <1>3, <2>2, <2>3
  <2>5. Tail(image) = decoded
    BY <1>2, <1>3, <2>2, <2>3, <2>4
  <2>6. QED
    BY <2>1, <2>3, <2>5, Zenon
<1>6. ASSUME NEW i \in 1 .. Len(decoded) PROVE ~IsDotSegment(decoded[i])
  <2>1. parts[i] \in Text /\ decoded[i] = Decode(parts[i]) /\ ~IsDotSegment(parts[i])
    BY <1>1, <1>2, <1>3
  <2>2. Decode(decoded[i]) = Decode(parts[i])
    BY <2>1, DecodeTwice, Zenon
  <2>3. QED
    BY <2>1, <2>2 DEF IsDotSegment
<1>7. RemoveDotSegments(decoded) = decoded
  BY <1>6, NoDotSegments
<1>8. QED
  BY <1>1, <1>3, <1>4, <1>5, <1>7, Zenon DEF ReadByProvider, BothSlashes

-----------------------------------------------------------------------------
(* What an operation covers                                                *)

\* A prefix of a sequence leaves a rest.
LEMMA PrefixRest ==
  ASSUME NEW T, NEW s \in Seq(T), NEW t \in Seq(T)
  PROVE  IsPrefix(s, t) <=> \E rest \in Seq(T) : t = s \o rest
<1>1. ASSUME IsPrefix(s, t) PROVE \E rest \in Seq(T) : t = s \o rest
  <2> DEFINE n == Len(s)
             rest == SubSeq(t, n + 1, Len(t))
  <2>1. /\ n \in Nat /\ Len(t) \in Nat /\ n <= Len(t)
        /\ \A i \in 1 .. n : t[i] = s[i]
    <3>1. Len(s) <= Len(t) /\ SubSeq(s, 1, Len(s)) = SubSeq(t, 1, Len(s))
      BY <1>1 DEF IsPrefix
    <3>2. \A i \in 1 .. Len(s) : SubSeq(s, 1, Len(s))[i] = s[i] /\ SubSeq(t, 1, Len(s))[i] = t[i]
      BY <3>1
    <3>3. QED
      BY <3>1, <3>2
  <2>2. /\ rest \in Seq(T) /\ Len(rest) = Len(t) - n
        /\ \A i \in 1 .. Len(t) - n : rest[i] = t[n + i]
    BY <2>1
  <2> HIDE DEF rest
  <2>3. t = s \o rest
    <3>1. s \o rest \in Seq(T) /\ Len(s \o rest) = Len(t)
      BY <2>1, <2>2
    <3>2. ASSUME NEW i \in 1 .. Len(t) PROVE (s \o rest)[i] = t[i]
      <4>1. CASE i <= n
        BY <2>1, <2>2, <4>1
      <4>2. CASE ~(i <= n)
        <5>1. i - n \in 1 .. Len(t) - n /\ rest[i - n] = t[n + (i - n)] /\ n + (i - n) = i
          BY <2>1, <2>2, <4>2
        <5>2. (s \o rest)[i] = rest[i - n]
          BY <2>1, <2>2, <4>2
        <5>3. QED
          BY <5>1, <5>2
      <4>3. QED
        BY <4>1, <4>2
    <3>3. QED
      BY <3>1, <3>2, SeqEqual, Zenon
  <2>4. QED
    BY <2>2, <2>3
<1>2. ASSUME NEW rest \in Seq(T), t = s \o rest PROVE IsPrefix(s, t)
  <2>1. Len(s) <= Len(t) /\ \A i \in 1 .. Len(s) : t[i] = s[i]
    BY <1>2
  <2>2. SubSeq(s, 1, Len(s)) = SubSeq(t, 1, Len(s))
    BY <2>1
  <2>3. QED
    BY <2>1, <2>2 DEF IsPrefix
<1>3. QED
  BY <1>1, <1>2

\* What a prefix entry matches is what its segments are a prefix of.
LEMMA PrefixOverSegments ==
  ASSUME NEW listed \in Text, NEW path \in Text
  PROVE  path = listed \/ IsPrefix(Append(listed, "/"), path)
           <=> IsPrefix(Split(listed, Slash), Split(path, Slash))
<1>1. "/" \in Token \cap Slash /\ "/" \in Token
  BY TextTokens DEF Slash
<1>2. /\ Append(listed, "/") \in Text /\ Append(listed, "/") = listed \o <<"/">>
      /\ <<"/">> \in Text
  BY <1>1, TextAppend, Zenon
<1>3. Split(listed, Slash) \in Seq(Text) /\ Split(path, Slash) \in Seq(Text)
      /\ Split(listed, Slash) \in Parts
  BY SplitType DEF Parts
<1>4. ASSUME path = listed PROVE IsPrefix(Split(listed, Slash), Split(path, Slash))
  <2>1. \A parts \in Seq(Text) : IsPrefix(parts, parts)
    BY DEF IsPrefix
  <2>2. QED
    BY <1>3, <1>4, <2>1, Zenon
<1>5. ASSUME IsPrefix(Append(listed, "/"), path)
      PROVE  IsPrefix(Split(listed, Slash), Split(path, Slash))
  <2>1. PICK rest \in Text : path = Append(listed, "/") \o rest
    <3>1. PICK one \in Text : one = Append(listed, "/")
      BY <1>2
    <3>2. \E rest \in Text : path = one \o rest
      BY <1>5, <3>1, PrefixRest, Zenon DEF Text
    <3>3. QED
      BY <3>1, <3>2, Zenon
  <2>2. Split(path, Slash) = Split(listed, Slash) \o Split(rest, Slash)
    BY <1>1, <2>1, SplitAtSeparator, Zenon
  <2>3. Split(rest, Slash) \in Seq(Text)
    BY SplitType DEF Parts
  <2>4. QED
    BY <1>3, <2>2, <2>3, PrefixRest, Zenon
<1>6. ASSUME IsPrefix(Split(listed, Slash), Split(path, Slash))
      PROVE  path = listed \/ IsPrefix(Append(listed, "/"), path)
  <2>1. PICK more \in Seq(Text) : Split(path, Slash) = Split(listed, Slash) \o more
    BY <1>3, <1>6, PrefixRest, Zenon
  <2>2. CASE more = <<>>
    <3>1. Split(listed, Slash) \o <<>> = Split(listed, Slash)
      BY <1>3, ConcatEmptySeq, Zenon
    <3>2. QED
      BY <2>1, <2>2, <3>1, SplitInjective, Zenon
  <2>3. CASE more # <<>>
    <3>1. PICK rest \in Text : Joined(more) = <<"/">> \o rest
      BY <2>3, JoinedSlash, Zenon
    <3>2. <<"/">> \o path = (<<"/">> \o listed) \o (<<"/">> \o rest)
      BY <1>3, <2>1, <3>1, JoinedConcat, JoinedSplit, Zenon
    <3>3. <<"/">> \o rest \in Text /\ listed \o (<<"/">> \o rest) \in Text
      BY <1>2, TextConcat, Zenon
    <3>4. <<"/">> \o path = <<"/">> \o (listed \o (<<"/">> \o rest))
      BY <1>2, <3>2, <3>3, TextAssoc, Zenon
    <3>5. path = listed \o (<<"/">> \o rest)
      <4>1. PICK one \in Text, two \in Text : one = <<"/">> /\ two = listed \o (<<"/">> \o rest)
        BY <1>2, <3>3
      <4>2. one \o path = one \o two
        BY <3>4, <4>1, Zenon
      <4>3. path = two
        BY <4>2, ConcatSimplifications DEF Text
      <4>4. QED
        BY <4>1, <4>3
    <3>6. path = Append(listed, "/") \o rest
      <4>1. (listed \o <<"/">>) \o rest = listed \o (<<"/">> \o rest)
        BY <1>2, TextAssoc, Zenon
      <4>2. QED
        BY <1>2, <3>5, <4>1, Zenon
    <3>7. IsPrefix(Append(listed, "/"), path)
      BY <1>2, <3>6, PrefixRest, Zenon DEF Text
    <3>8. QED
      BY <3>7
  <2>4. QED
    BY <2>2, <2>3
<1>7. QED
  BY <1>4, <1>5, <1>6

\* An operation matches a request exactly when it covers it.
LEMMA MatchesWhatItCovers ==
  ASSUME NEW entry, entry.kind \in ToSet(Kinds), entry.path \in Text, NEW method, NEW path \in Text
  PROVE  Matches(entry, method, path) <=> Covers(entry, method, path)
<1>1. entry.kind = "exact" \/ entry.kind = "prefix"
  BY DEF ToSet, Kinds
<1>2. path = entry.path <=> Split(entry.path, Slash) = Split(path, Slash)
  BY SplitInjective, Zenon
<1>3. CASE entry.kind = "exact"
  BY <1>2, <1>3, Zenon DEF Matches, Covers, Slash
<1>4. CASE entry.kind = "prefix"
  BY <1>4, PrefixOverSegments, Zenon DEF Matches, Covers, Slash
<1>5. QED
  BY <1>1, <1>3, <1>4

-----------------------------------------------------------------------------
(* What one exchange keeps                                                 *)

\* The input is one of those tried.
InputInv == input \in Inputs

\* What is refused says why, and nothing else does.
StageInv ==
  /\ at \in {"start", "unconfigured", "listening", "accepted", "allowed", "sending",
             "denied", "bad_gateway", "answered"}
  /\ denial # None <=> at \in {"unconfigured", "denied", "bad_gateway"}

\* Once the gateway listens, its operations are the operator's, sorted.
ConfiguredInv ==
  IF at \in {"start", "unconfigured"} THEN operations = <<>>
  ELSE /\ \A i \in DOMAIN input.operations : EntryParses(input.operations[i])
       /\ Len(input.operations) <= MaxOperations
       /\ operations \in Sorted(input.operations)
       /\ ~HasNeighbouringDuplicates(operations)

\* What the parser let pass has no fault, and the allowlist decided the rest.
AcceptedInv ==
  /\ at \in {"accepted", "allowed", "sending", "bad_gateway", "answered"} =>
       PathFault(input.path) = None
  /\ at \in {"allowed", "sending", "bad_gateway", "answered"} => Allowed
  /\ denial \in {"path_denied", "method_denied"} => at = "denied" /\ ~Allowed

\* What was forwarded is what the join and the filters make of the input.
ForwardedInv ==
  /\ sent # Nothing =>
       /\ at \in {"sending", "bad_gateway", "answered"}
       /\ HeaderFault(input.headers) = None
       /\ sent = [path |-> SetPath(input.path), headers |-> ForwardedToProvider(input.headers)]
  /\ received # Nothing =>
       /\ HeaderFault(input.response) = None
       /\ received = [headers |-> ForwardedToHarness(input.response)]

AcceptanceInv == InputInv /\ StageInv /\ ConfiguredInv /\ AcceptedInv /\ ForwardedInv

\* A fault is named, and never as the allowlist names a denial.
LEMMA FaultNames ==
  /\ \A path : PathFault(path) \notin {"path_denied", "method_denied"}
  /\ \A headers : HeaderFault(headers) \notin {"path_denied", "method_denied"}
  BY DEF PathFault, HeaderFault, None

\* A step that refuses keeps the invariant, whatever it refuses for.
LEMMA RefusalKeeps ==
  ASSUME AcceptanceInv, NEW from, NEW to, NEW why, Refuse(from, to, why), why # None,
         from \in {"start", "listening", "accepted", "allowed", "sending"},
         to = IF from = "start" THEN "unconfigured"
              ELSE IF from = "sending" THEN "bad_gateway" ELSE "denied",
         why \in {"path_denied", "method_denied"} => to = "denied" /\ ~Allowed
  PROVE  AcceptanceInv'
<1>1. /\ at = from /\ at' = to /\ denial' = why
      /\ UNCHANGED <<input, operations, sent, received>>
  BY DEF Refuse
<1>2. /\ from = "start" => to = "unconfigured"
      /\ from = "sending" => to = "bad_gateway"
      /\ from \in {"listening", "accepted", "allowed"} => to = "denied"
  OBVIOUS
<1>3. Allowed' <=> Allowed
  BY <1>1 DEF Allowed
<1>4. StageInv'
  BY <1>1, <1>2 DEF StageInv
<1>5. ConfiguredInv'
  BY <1>1, <1>2 DEF AcceptanceInv, ConfiguredInv
<1>6. AcceptedInv'
  BY <1>1, <1>2, <1>3 DEF AcceptanceInv, AcceptedInv
<1>7. ForwardedInv'
  BY <1>1, <1>2 DEF AcceptanceInv, ForwardedInv
<1>8. QED
  BY <1>1, <1>4, <1>5, <1>6, <1>7 DEF AcceptanceInv, InputInv

\* Configure: the operations are parsed, sorted and free of duplicates.
LEMMA ConfigureKeeps == ASSUME AcceptanceInv, Configure PROVE AcceptanceInv'
<1> DEFINE entries == input.operations
           Parses == \A i \in DOMAIN entries : EntryParses(entries[i])
<1>1. ASSUME NEW why \in {"empty_operations", "too_many_operations", "invalid_operation",
                         "duplicate_operation"},
             Refuse("start", "unconfigured", why)
      PROVE  AcceptanceInv'
  BY <1>1, RefusalKeeps DEF None
<1>2. ASSUME ~(Len(entries) > MaxOperations), Parses, NEW s \in Sorted(entries),
             ~HasNeighbouringDuplicates(s), Continue("start", "listening"),
             operations' = s, UNCHANGED <<sent, received>>
      PROVE  AcceptanceInv'
  <2>1. /\ at = "start" /\ at' = "listening" /\ operations' = s
        /\ UNCHANGED <<input, denial, sent, received>>
    BY <1>2 DEF Continue
  <2>2. Len(entries) <= MaxOperations
    <3>1. Len(entries) \in Nat /\ MaxOperations \in Nat
      BY InputsAssumption, AcceptanceAssumption DEF AcceptanceInv, InputInv
    <3>2. QED
      BY <1>2, <3>1
  <2>3. StageInv'
    BY <2>1 DEF AcceptanceInv, StageInv
  <2>4. ConfiguredInv'
    BY <1>2, <2>1, <2>2, Zenon DEF ConfiguredInv
  <2>5. AcceptedInv'
    BY <2>1 DEF AcceptanceInv, AcceptedInv
  <2>6. ForwardedInv'
    BY <2>1 DEF AcceptanceInv, ForwardedInv
  <2>7. QED
    BY <2>1, <2>3, <2>4, <2>5, <2>6 DEF AcceptanceInv, InputInv
<1>3. QED
  BY <1>1, <1>2, Zenon DEF Configure

\* AcceptTarget: a path that goes on has no fault.
LEMMA AcceptTargetKeeps == ASSUME AcceptanceInv, AcceptTarget PROVE AcceptanceInv'
<1>1. CASE input.method = "CONNECT" /\ Refuse("listening", "denied", "connect_unsupported")
  BY <1>1, RefusalKeeps DEF None
<1>2. CASE PathFault(input.path) # None /\ Refuse("listening", "denied", PathFault(input.path))
  BY <1>2, RefusalKeeps, FaultNames
<1>3. CASE /\ PathFault(input.path) = None /\ Continue("listening", "accepted")
           /\ UNCHANGED <<operations, sent, received>>
  <2>1. /\ at = "listening" /\ at' = "accepted" /\ PathFault(input.path) = None
        /\ UNCHANGED <<input, denial, operations, sent, received>>
    BY <1>3 DEF Continue
  <2>2. StageInv'
    BY <2>1 DEF AcceptanceInv, StageInv
  <2>3. ConfiguredInv'
    BY <2>1 DEF AcceptanceInv, ConfiguredInv
  <2>4. AcceptedInv'
    BY <2>1 DEF AcceptanceInv, AcceptedInv
  <2>5. ForwardedInv'
    BY <2>1 DEF AcceptanceInv, ForwardedInv
  <2>6. QED
    BY <2>1, <2>2, <2>3, <2>4, <2>5 DEF AcceptanceInv, InputInv
<1>4. QED
  BY <1>1, <1>2, <1>3 DEF AcceptTarget

\* AllowTarget: what goes on is allowed, what is denied is not.
LEMMA AllowTargetKeeps == ASSUME AcceptanceInv, AllowTarget PROVE AcceptanceInv'
<1>1. ASSUME ~Allowed, NEW why \in {"path_denied", "method_denied"}, Refuse("accepted", "denied", why)
      PROVE  AcceptanceInv'
  BY <1>1, RefusalKeeps DEF None
<1>2. CASE Allowed /\ Continue("accepted", "allowed") /\ UNCHANGED <<operations, sent, received>>
  <2>1. /\ at = "accepted" /\ at' = "allowed"
        /\ UNCHANGED <<input, denial, operations, sent, received>>
    BY <1>2 DEF Continue
  <2>2. Allowed'
    BY <1>2, <2>1 DEF Allowed
  <2>3. StageInv'
    BY <2>1 DEF AcceptanceInv, StageInv
  <2>4. ConfiguredInv'
    BY <2>1 DEF AcceptanceInv, ConfiguredInv
  <2>5. AcceptedInv'
    BY <2>1, <2>2 DEF AcceptanceInv, AcceptedInv, StageInv
  <2>6. ForwardedInv'
    BY <2>1 DEF AcceptanceInv, ForwardedInv
  <2>7. QED
    BY <2>1, <2>3, <2>4, <2>5, <2>6 DEF AcceptanceInv, InputInv
<1>3. QED
  BY <1>1, <1>2 DEF AllowTarget

\* ForwardRequest: what is sent is the joined path and the filtered headers.
LEMMA ForwardRequestKeeps == ASSUME AcceptanceInv, ForwardRequest PROVE AcceptanceInv'
<1>1. CASE HeaderFault(input.headers) # None /\ Refuse("allowed", "denied", HeaderFault(input.headers))
  BY <1>1, RefusalKeeps, FaultNames
<1>2. CASE /\ HeaderFault(input.headers) = None /\ Continue("allowed", "sending")
           /\ sent' = [path |-> SetPath(input.path), headers |-> ForwardedToProvider(input.headers)]
           /\ UNCHANGED <<operations, received>>
  <2>1. /\ at = "allowed" /\ at' = "sending"
        /\ UNCHANGED <<input, denial, operations, received>>
    BY <1>2 DEF Continue
  <2>2. Allowed' <=> Allowed
    BY <2>1 DEF Allowed
  <2>3. StageInv'
    BY <2>1 DEF AcceptanceInv, StageInv
  <2>4. ConfiguredInv'
    BY <2>1 DEF AcceptanceInv, ConfiguredInv
  <2>5. AcceptedInv'
    BY <2>1, <2>2 DEF AcceptanceInv, AcceptedInv
  <2>6. ForwardedInv'
    BY <1>2, <2>1 DEF AcceptanceInv, ForwardedInv
  <2>7. QED
    BY <2>1, <2>3, <2>4, <2>5, <2>6 DEF AcceptanceInv, InputInv
<1>3. QED
  BY <1>1, <1>2 DEF ForwardRequest

\* ForwardResponse: what is received is the filtered headers.
LEMMA ForwardResponseKeeps == ASSUME AcceptanceInv, ForwardResponse PROVE AcceptanceInv'
<1>1. CASE HeaderFault(input.response) # None /\ Refuse("sending", "bad_gateway", HeaderFault(input.response))
  BY <1>1, RefusalKeeps, FaultNames
<1>2. CASE /\ HeaderFault(input.response) = None /\ Continue("sending", "answered")
           /\ received' = [headers |-> ForwardedToHarness(input.response)]
           /\ UNCHANGED <<operations, sent>>
  <2>1. /\ at = "sending" /\ at' = "answered"
        /\ UNCHANGED <<input, denial, operations, sent>>
    BY <1>2 DEF Continue
  <2>2. Allowed' <=> Allowed
    BY <2>1 DEF Allowed
  <2>3. StageInv'
    BY <2>1 DEF AcceptanceInv, StageInv
  <2>4. ConfiguredInv'
    BY <2>1 DEF AcceptanceInv, ConfiguredInv
  <2>5. AcceptedInv'
    BY <2>1, <2>2 DEF AcceptanceInv, AcceptedInv
  <2>6. ForwardedInv'
    BY <1>2, <2>1 DEF AcceptanceInv, ForwardedInv
  <2>7. QED
    BY <2>1, <2>3, <2>4, <2>5, <2>6 DEF AcceptanceInv, InputInv
<1>3. QED
  BY <1>1, <1>2 DEF ForwardResponse

\* A step that changes nothing keeps the invariant.
LEMMA StutterKeeps == ASSUME AcceptanceInv, UNCHANGED vars PROVE AcceptanceInv'
<1>1. Allowed' <=> Allowed
  BY DEF vars, Allowed
<1>2. InputInv' /\ StageInv' /\ ConfiguredInv'
  BY DEF vars, AcceptanceInv, InputInv, StageInv, ConfiguredInv
<1>3. AcceptedInv' /\ ForwardedInv'
  BY <1>1 DEF vars, AcceptanceInv, AcceptedInv, ForwardedInv
<1>4. QED
  BY <1>2, <1>3 DEF AcceptanceInv

\* AcceptanceInv holds in every reachable state.
LEMMA AcceptanceInvariant == Spec => []AcceptanceInv
<1>1. Init => AcceptanceInv
  BY DEF Init, AcceptanceInv, InputInv, StageInv, ConfiguredInv, AcceptedInv, ForwardedInv, None
<1>2. AcceptanceInv /\ [Next]_vars => AcceptanceInv'
  BY ConfigureKeeps, AcceptTargetKeeps, AllowTargetKeeps, ForwardRequestKeeps,
     ForwardResponseKeeps, StutterKeeps DEF Next, Rest
<1>3. QED
  BY <1>1, <1>2, PTL DEF Spec

\* What an operator lists as one operation.
Entry == [method : STRING, kind : STRING, path : Text]

\* The inputs are texts, operations and header maps, as assumed.
LEMMA InputTyped ==
  ASSUME AcceptanceInv
  PROVE  /\ input.path \in Text
         /\ input.operations \in Seq(Entry)
         /\ IsHeaderMap(input.headers) /\ IsHeaderMap(input.response)
  BY InputsAssumption DEF AcceptanceInv, InputInv, Text, Entry

\* The URL join keeps every path the parser accepted (UpstreamOrigin, target.rs).
THEOREM JoinKeepsEveryPath == Spec => []JoinKeepsPath
<1>1. AcceptanceInv => JoinKeepsPath
  <2> SUFFICES ASSUME AcceptanceInv, sent # Nothing PROVE sent.path = input.path
    BY DEF JoinKeepsPath
  <2>1. sent.path = SetPath(input.path)
    BY DEF AcceptanceInv, ForwardedInv
  <2>2. PathFault(input.path) = None
    BY DEF AcceptanceInv, ForwardedInv, AcceptedInv
  <2>3. QED
    BY <2>1, <2>2, InputTyped, SetPathKeeps
<1>2. QED
  BY <1>1, AcceptanceInvariant, PTL

\* A provider that decodes the whole path before it resolves its dots still reads
\* the segments the allowlist matched (OriginFormPath::parse).
THEOREM ProviderReadsTheSegments == Spec => []ProviderReadsMatchedSegments
<1>1. AcceptanceInv => ProviderReadsMatchedSegments
  <2> SUFFICES ASSUME AcceptanceInv, sent # Nothing
               PROVE  ReadByProvider(sent.path) = DecodeParts(Tail(Split(input.path, Slash)))
    BY Zenon DEF ProviderReadsMatchedSegments, DecodeParts, Slash
  <2>1. sent.path = SetPath(input.path)
    BY DEF AcceptanceInv, ForwardedInv
  <2>2. PathFault(input.path) = None
    BY DEF AcceptanceInv, ForwardedInv, AcceptedInv
  <2>3. sent.path = input.path
    BY <2>1, <2>2, InputTyped, SetPathKeeps
  <2>4. QED
    BY <2>2, <2>3, InputTyped, ProviderReads, Zenon
<1>2. QED
  BY <1>1, AcceptanceInvariant, PTL

\* A permutation p of positions that makes an arrangement s of some entries.
Arranges(p, entries, s) ==
  /\ p \in [DOMAIN entries -> DOMAIN entries]
  /\ \A j \in DOMAIN entries : \E i \in DOMAIN entries : p[i] = j
  /\ s = [i \in DOMAIN entries |-> entries[p[i]]]

\* A sorted arrangement takes every entry to some place.
LEMMA SortedArrangement ==
  ASSUME NEW entries, NEW s \in Sorted(entries)
  PROVE  \E p : Arranges(p, entries, s)
<1>1. PICK p \in [DOMAIN entries -> DOMAIN entries] :
        ToSet(p) = DOMAIN entries /\ s = [i \in DOMAIN entries |-> entries[p[i]]]
  BY DEF Sorted
<1>2. \A j \in DOMAIN entries : \E i \in DOMAIN entries : p[i] = j
  BY <1>1 DEF ToSet
<1>3. QED
  BY <1>1, <1>2 DEF Arranges

\* A request is allowed exactly when an operation the operator listed covers it.
LEMMA AllowedWhenCovered ==
  ASSUME AcceptanceInv, at \notin {"start", "unconfigured"}
  PROVE  Allowed <=> \E i \in DOMAIN input.operations :
                       Covers(input.operations[i], input.method, input.path)
<1> DEFINE entries == input.operations
<1>1. PICK p : Arranges(p, entries, operations)
  <2>1. operations \in Sorted(entries)
    BY DEF AcceptanceInv, ConfiguredInv
  <2> HIDE DEF entries
  <2>2. QED
    BY <2>1, SortedArrangement
<1>2. ASSUME NEW j \in DOMAIN entries
      PROVE  Matches(entries[j], input.method, input.path) <=> Covers(entries[j], input.method, input.path)
  <2>1. entries[j].kind \in ToSet(Kinds)
    BY DEF AcceptanceInv, ConfiguredInv, EntryParses
  <2>2. entries[j].path \in Text /\ input.path \in Text
    <3>1. PICK listed \in Seq(Entry) : listed = entries
      BY InputTyped
    <3>2. listed[j] \in Entry
      BY <3>1
    <3>3. QED
      BY <3>1, <3>2, InputTyped DEF Entry
  <2>3. QED
    BY <2>1, <2>2, MatchesWhatItCovers
<1>3. Allowed <=> \E j \in DOMAIN entries : Matches(entries[j], input.method, input.path)
  <2> HIDE DEF entries
  <2> QED BY <1>1 DEF Allowed, Arranges
<1>4. QED
  BY <1>2, <1>3

\* What passed the parser is forwarded only if a listed operation covers it, and
\* denied by the allowlist only if none does (allow_target, AllowedOperation::matches).
THEOREM DecidedAsListed == Spec => []AllowedAsListed
<1>1. AcceptanceInv => AllowedAsListed
  <2> SUFFICES ASSUME AcceptanceInv PROVE AllowedAsListed
    OBVIOUS
  <2>1. at \in {"allowed", "sending", "bad_gateway", "answered"} => Allowed
    BY DEF AcceptanceInv, AcceptedInv
  <2>2. denial \in {"path_denied", "method_denied"} => at = "denied" /\ ~Allowed
    BY DEF AcceptanceInv, AcceptedInv
  <2>3. QED
    BY <2>1, <2>2, AllowedWhenCovered DEF AllowedAsListed
<1>2. QED
  BY <1>1, AcceptanceInvariant, PTL

-----------------------------------------------------------------------------
(* The order of operations                                                 *)

\* The ranks of two tokens are numbers, and differ when the tokens do.
LEMMA RankInjective ==
  ASSUME NEW a \in Token, NEW b \in Token
  PROVE  Rank(a) \in Nat /\ Rank(b) \in Nat /\ (Rank(a) = Rank(b) => a = b)
<1> DEFINE tk == <<"%", "%2e", "%2f", "%5c", "%61", ".", "/", "?", "\\", "^", "a">>
<1>1. Token = {"%", "%2e", "%2f", "%5c", "%61", ".", "/", "?", "\\", "^", "a"}
  BY DEF Token, Escapes
<1>2. \A x \in Token : \E i \in 1 .. 11 : tk[i] = x
  <2>1. /\ tk[1] = "%" /\ tk[2] = "%2e" /\ tk[3] = "%2f" /\ tk[4] = "%5c" /\ tk[5] = "%61"
        /\ tk[6] = "." /\ tk[7] = "/" /\ tk[8] = "?" /\ tk[9] = "\\" /\ tk[10] = "^"
        /\ tk[11] = "a"
    OBVIOUS
  <2> HIDE DEF tk
  <2>2. QED
    BY <1>1, <2>1
<1>3. \A x \in Token : Rank(x) \in 1 .. 11 /\ tk[Rank(x)] = x
  BY <1>2 DEF Rank
<1> HIDE DEF tk
<1>4. QED
  BY <1>3

\* One text is before another where they first differ: it ends there, or has the
\* token of the lower rank there.
Agree(s, t, i) == \A k \in 1 .. i - 1 : s[k] = t[k]
BeforeAt(s, t, i) ==
  /\ i \in 1 .. Len(t) /\ i <= Len(s) + 1
  /\ Agree(s, t, i)
  /\ i <= Len(s) => Rank(s[i]) < Rank(t[i])

\* TextBefore says just that.
LEMMA TextBeforeAt ==
  ASSUME NEW s \in Text, NEW t \in Text
  PROVE  TextBefore(s, t) <=> \E i \in Nat : BeforeAt(s, t, i)
<1> DEFINE m == Len(s)
           n == Len(t)
<1>1. /\ s \in Seq(Token) /\ t \in Seq(Token) /\ m \in Nat /\ n \in Nat
      /\ DOMAIN s = 1 .. m /\ DOMAIN t = 1 .. n
  BY DEF Text
<1>2. ASSUME NEW i \in 1 .. m, i \in 1 .. n
      PROVE  SubSeq(s, 1, i - 1) = SubSeq(t, 1, i - 1) <=> Agree(s, t, i)
  <2>1. /\ SubSeq(s, 1, i - 1) = [k \in 1 .. i - 1 |-> s[k]]
        /\ SubSeq(t, 1, i - 1) = [k \in 1 .. i - 1 |-> t[k]]
    BY <1>1, <1>2
  <2>2. SubSeq(s, 1, i - 1) = SubSeq(t, 1, i - 1) => Agree(s, t, i)
    BY <2>1 DEF Agree
  <2>3. Agree(s, t, i) => SubSeq(s, 1, i - 1) = SubSeq(t, 1, i - 1)
    BY <2>1 DEF Agree
  <2>4. QED
    BY <2>2, <2>3
<1>3. IsStrictPrefix(s, t) <=> m < n /\ Agree(s, t, m + 1)
  <2>1. ASSUME m <= n
        PROVE  /\ SubSeq(s, 1, m) = [k \in 1 .. m |-> s[k]]
               /\ SubSeq(t, 1, m) = [k \in 1 .. m |-> t[k]]
    BY <1>1, <2>1
  <2>2. ASSUME IsStrictPrefix(s, t) PROVE m < n /\ Agree(s, t, m + 1)
    <3>1. m <= n /\ SubSeq(s, 1, m) = SubSeq(t, 1, m) /\ s # t
      BY <2>2 DEF IsStrictPrefix, IsPrefix
    <3>2. \A k \in 1 .. m : s[k] = t[k]
      BY <1>1, <2>1, <3>1
    <3>3. m # n
      BY <1>1, <3>1, <3>2, SeqEqual
    <3>4. m < n /\ (m + 1) - 1 = m
      <4>1. m <= n
        BY <3>1
      <4>2. m \in Nat /\ n \in Nat
        BY <1>1
      <4> HIDE DEF m, n
      <4>3. QED
        BY <3>3, <4>1, <4>2
    <3>5. QED
      BY <3>2, <3>4 DEF Agree
  <2>3. ASSUME m < n, Agree(s, t, m + 1) PROVE IsStrictPrefix(s, t)
    <3>1. m <= n /\ s # t
      BY <1>1, <2>3
    <3>2. SubSeq(s, 1, m) = SubSeq(t, 1, m)
      BY <1>1, <2>1, <2>3, <3>1 DEF Agree
    <3>3. QED
      BY <3>1, <3>2 DEF IsStrictPrefix, IsPrefix
  <2>4. QED
    BY <2>2, <2>3
<1>4. TextBefore(s, t) => \E i \in Nat : BeforeAt(s, t, i)
  <2>1. ASSUME IsStrictPrefix(s, t) PROVE BeforeAt(s, t, m + 1)
    BY <1>1, <1>3, <2>1 DEF BeforeAt
  <2>2. ASSUME NEW i \in 1 .. m, i \in 1 .. n, SubSeq(s, 1, i - 1) = SubSeq(t, 1, i - 1),
               Rank(s[i]) < Rank(t[i])
        PROVE  BeforeAt(s, t, i)
    BY <1>1, <1>2, <2>2 DEF BeforeAt
  <2>3. m + 1 \in Nat /\ \A i \in 1 .. m : i \in Nat
    BY <1>1
  <2> HIDE DEF m, n
  <2>4. QED
    BY <1>1, <2>1, <2>2, <2>3 DEF TextBefore
<1>5. ASSUME NEW i \in Nat, BeforeAt(s, t, i) PROVE TextBefore(s, t)
  <2>1. CASE i <= m
    <3>1. i \in 1 .. m /\ i \in 1 .. n /\ Agree(s, t, i) /\ Rank(s[i]) < Rank(t[i])
      BY <1>1, <1>5, <2>1 DEF BeforeAt
    <3>2. QED
      BY <1>1, <1>2, <3>1 DEF TextBefore
  <2>2. CASE ~(i <= m)
    <3>1. i = m + 1 /\ m < n /\ Agree(s, t, m + 1)
      BY <1>1, <1>5, <2>2 DEF BeforeAt
    <3>2. QED
      BY <1>3, <3>1 DEF TextBefore
  <2>3. QED
    BY <2>1, <2>2
<1>6. QED
  BY <1>4, <1>5

\* No text is before itself.
LEMMA TextBeforeIrreflexive == ASSUME NEW s \in Text PROVE ~TextBefore(s, s)
<1>1. ASSUME NEW i \in Nat, BeforeAt(s, s, i) PROVE FALSE
  <2>1. i \in 1 .. Len(s) /\ Rank(s[i]) < Rank(s[i])
    BY <1>1 DEF BeforeAt, Text
  <2>2. s[i] \in Token
    BY <2>1 DEF Text
  <2>3. QED
    BY <2>1, <2>2, RankInjective
<1>2. QED
  BY <1>1, TextBeforeAt

\* A text before one that is before a third is before the third.
LEMMA TextBeforeTransitive ==
  ASSUME NEW s \in Text, NEW t \in Text, NEW u \in Text, TextBefore(s, t), TextBefore(t, u)
  PROVE  TextBefore(s, u)
<1>1. PICK i \in Nat : BeforeAt(s, t, i)
  BY TextBeforeAt
<1>2. PICK j \in Nat : BeforeAt(t, u, j)
  BY TextBeforeAt
<1>3. /\ Len(s) \in Nat /\ Len(t) \in Nat /\ Len(u) \in Nat
      /\ \A k \in 1 .. Len(s) : Rank(s[k]) \in Nat
      /\ \A k \in 1 .. Len(t) : Rank(t[k]) \in Nat
      /\ \A k \in 1 .. Len(u) : Rank(u[k]) \in Nat
  <2>1. \A v \in Text : \A k \in 1 .. Len(v) : v[k] \in Token
    BY DEF Text
  <2>2. QED
    BY <2>1, RankInjective DEF Text
<1>4. CASE i < j
  <2>1. BeforeAt(s, u, i)
    BY <1>1, <1>2, <1>3, <1>4 DEF BeforeAt, Agree
  <2>2. QED
    BY <2>1, TextBeforeAt
<1>5. CASE i = j
  <2>1. BeforeAt(s, u, i)
    BY <1>1, <1>2, <1>3, <1>5 DEF BeforeAt, Agree
  <2>2. QED
    BY <2>1, TextBeforeAt
<1>6. CASE j < i
  <2>1. BeforeAt(s, u, j)
    BY <1>1, <1>2, <1>3, <1>6 DEF BeforeAt, Agree
  <2>2. QED
    BY <2>1, TextBeforeAt
<1>7. QED
  BY <1>4, <1>5, <1>6

\* Of two texts that differ, one is before the other.
LEMMA TextBeforeTotal ==
  ASSUME NEW s \in Text, NEW t \in Text, s # t
  PROVE  TextBefore(s, t) \/ TextBefore(t, s)
<1> DEFINE m == Len(s)
           n == Len(t)
           D == {i \in Nat : i >= 1 /\ (i > m \/ i > n \/ s[i] # t[i])}
<1>1. m \in Nat /\ n \in Nat
  BY DEF Text
<1>2. m + 1 \in D
  BY <1>1
<1>3. PICK i \in D : \A k \in D : i <= k
  <2>1. D \in SUBSET Nat /\ D # {}
    BY <1>2
  <2> HIDE DEF D
  <2>2. QED
    BY <2>1, LeastElement
<1>4. i \in Nat /\ i >= 1 /\ (i > m \/ i > n \/ s[i] # t[i])
  OBVIOUS
<1>5. ASSUME NEW k \in 1 .. i - 1 PROVE k <= m /\ k <= n /\ s[k] = t[k]
  <2>1. k \in Nat /\ k >= 1 /\ ~(i <= k)
    BY <1>4
  <2>2. k \notin D
    BY <1>3, <2>1
  <2>3. QED
    BY <1>1, <2>1, <2>2
<1>6. Agree(s, t, i) /\ Agree(t, s, i) /\ i <= m + 1 /\ i <= n + 1
  <2>1. i <= m + 1 /\ i <= n + 1
    <3>1. CASE i = 1
      BY <1>1, <3>1
    <3>2. CASE i # 1
      <4>1. i - 1 \in 1 .. i - 1
        BY <1>4, <3>2
      <4>2. i - 1 <= m /\ i - 1 <= n
        BY <1>5, <4>1
      <4>3. QED
        BY <1>1, <1>4, <4>2
    <3>3. QED
      BY <3>1, <3>2
  <2>2. QED
    BY <1>5, <2>1 DEF Agree
<1>7. CASE i > m /\ i > n
  <2>1. m = n /\ \A k \in 1 .. m : s[k] = t[k]
    BY <1>1, <1>4, <1>5, <1>6, <1>7
  <2>2. s = t
    BY <2>1, SeqEqual DEF Text
  <2>3. QED
    BY <2>2
<1>8. CASE i > m /\ ~(i > n)
  <2>1. BeforeAt(s, t, i)
    BY <1>1, <1>4, <1>6, <1>8 DEF BeforeAt
  <2>2. QED
    BY <1>4, <2>1, TextBeforeAt
<1>9. CASE ~(i > m) /\ i > n
  <2>1. BeforeAt(t, s, i)
    BY <1>1, <1>4, <1>6, <1>9 DEF BeforeAt
  <2>2. QED
    BY <1>4, <2>1, TextBeforeAt
<1>10. CASE ~(i > m) /\ ~(i > n)
  <2>1. s[i] \in Token /\ t[i] \in Token /\ s[i] # t[i]
    BY <1>1, <1>4, <1>10 DEF Text
  <2>2. Rank(s[i]) < Rank(t[i]) \/ Rank(t[i]) < Rank(s[i])
    BY <2>1, RankInjective
  <2>3. BeforeAt(s, t, i) \/ BeforeAt(t, s, i)
    BY <1>1, <1>4, <1>6, <1>10, <2>2 DEF BeforeAt
  <2>4. QED
    BY <1>4, <2>3, TextBeforeAt
<1>11. QED
  BY <1>7, <1>8, <1>9, <1>10

\* What an operation that parses is compared by.
Parsed == {e \in Entry : e.method \in {"GET", "POST"} /\ e.kind \in {"exact", "prefix"}}

\* An operation that parses has one of two methods and one of two kinds.
LEMMA ParsedEntry == ASSUME NEW e \in Entry, EntryParses(e) PROVE e \in Parsed
<1>1. ToSet(Kinds) = {"exact", "prefix"}
  <2>1. Kinds[1] = "exact" /\ Kinds[2] = "prefix" /\ DOMAIN Kinds = {1, 2}
    BY DEF Kinds
  <2> HIDE DEF Kinds
  <2>2. QED
    BY <2>1 DEF ToSet
<1>2. QED
  BY <1>1 DEF EntryParses, Methods, Parsed

\* It is told by its method, its kind and its path.
LEMMA ParsedParts ==
  ASSUME NEW a \in Parsed
  PROVE  /\ a.method \in {"GET", "POST"} /\ a.kind \in {"exact", "prefix"} /\ a.path \in Text
         /\ a = [method |-> a.method, kind |-> a.kind, path |-> a.path]
  BY DEF Parsed, Entry

\* No operation is before itself.
LEMMA BeforeIrreflexive == ASSUME NEW a \in Parsed PROVE ~Before(a, a)
<1>1. a.path \in Text /\ ~TextBefore(a.path, a.path)
  BY ParsedParts, TextBeforeIrreflexive
<1>2. QED
  BY <1>1 DEF Before, MethodBefore

\* An operation before one that is before a third is before the third.
LEMMA BeforeTransitive ==
  ASSUME NEW a \in Parsed, NEW b \in Parsed, NEW c \in Parsed, Before(a, b), Before(b, c)
  PROVE  Before(a, c)
<1>1. a.path \in Text /\ b.path \in Text /\ c.path \in Text
  BY ParsedParts
<1>2. TextBefore(a.path, b.path) /\ TextBefore(b.path, c.path) => TextBefore(a.path, c.path)
  BY <1>1, TextBeforeTransitive
<1>3. QED
  BY <1>2 DEF Before, MethodBefore

\* Of two operations that differ, one is before the other.
LEMMA BeforeTotal ==
  ASSUME NEW a \in Parsed, NEW b \in Parsed, a # b
  PROVE  Before(a, b) \/ Before(b, a)
<1>1. /\ a.method \in {"GET", "POST"} /\ a.kind \in {"exact", "prefix"} /\ a.path \in Text
      /\ b.method \in {"GET", "POST"} /\ b.kind \in {"exact", "prefix"} /\ b.path \in Text
      /\ a.method # b.method \/ a.kind # b.kind \/ a.path # b.path
  BY ParsedParts
<1>2. CASE a.method # b.method
  BY <1>1, <1>2 DEF Before, MethodBefore
<1>3. CASE a.method = b.method /\ a.kind # b.kind
  BY <1>1, <1>3 DEF Before
<1>4. CASE a.method = b.method /\ a.kind = b.kind /\ a.path # b.path
  <2>1. TextBefore(a.path, b.path) \/ TextBefore(b.path, a.path)
    BY <1>1, <1>4, TextBeforeTotal
  <2>2. QED
    BY <1>4, <2>1 DEF Before
<1>5. QED
  BY <1>1, <1>2, <1>3, <1>4

Increasing(s) == \A i, j \in DOMAIN s : i < j => Before(s[i], s[j])

\* Sorted operations without equal neighbours increase all the way.
LEMMA SortedIncreasing ==
  ASSUME NEW s \in Seq(Parsed), \A i \in 1 .. Len(s) - 1 : ~Before(s[i + 1], s[i]),
         ~HasNeighbouringDuplicates(s)
  PROVE  Increasing(s)
<1> DEFINE n == Len(s)
           S == {d \in Nat : \A i \in 1 .. n : i + d + 1 <= n => Before(s[i], s[i + d + 1])}
<1>1. n \in Nat /\ DOMAIN s = 1 .. n /\ \A i \in 1 .. n : s[i] \in Parsed
  OBVIOUS
<1>2. ASSUME NEW i \in 1 .. n - 1 PROVE Before(s[i], s[i + 1])
  <2>1. s[i] \in Parsed /\ s[i + 1] \in Parsed
    BY <1>1
  <2>2. ~Before(s[i + 1], s[i]) /\ s[i] # s[i + 1]
    BY DEF HasNeighbouringDuplicates
  <2>3. QED
    BY <2>1, <2>2, BeforeTotal
<1> HIDE DEF n
<1>3. 0 \in S
  BY <1>1, <1>2
<1>4. ASSUME NEW d \in Nat, d \in S PROVE d + 1 \in S
  <2> SUFFICES ASSUME NEW i \in 1 .. n, i + (d + 1) + 1 <= n PROVE Before(s[i], s[i + (d + 1) + 1])
    OBVIOUS
  <2>1. /\ i + d + 1 \in 1 .. n - 1 /\ i + d + 1 <= n
        /\ (i + d + 1) + 1 = i + (d + 1) + 1
    BY <1>1
  <2>2. Before(s[i], s[i + d + 1])
    BY <1>4, <2>1
  <2>3. Before(s[i + d + 1], s[i + (d + 1) + 1])
    BY <1>2, <2>1
  <2>4. s[i] \in Parsed /\ s[i + d + 1] \in Parsed /\ s[i + (d + 1) + 1] \in Parsed
    BY <1>1, <2>1
  <2>5. QED
    BY <2>2, <2>3, <2>4, BeforeTransitive
<1>5. Nat \subseteq S
  <2> HIDE DEF S
  <2> QED BY <1>3, <1>4, InductionOverNat
<1>6. ASSUME NEW i \in 1 .. n, NEW j \in 1 .. n, i < j PROVE Before(s[i], s[j])
  <2>1. j - i - 1 \in Nat /\ i + (j - i - 1) + 1 = j
    BY <1>1, <1>6
  <2>2. j - i - 1 \in S
    BY <1>5, <2>1
  <2>3. i + (j - i - 1) + 1 <= n
    BY <1>1, <2>1
  <2>4. Before(s[i], s[i + (j - i - 1) + 1])
    BY <2>2, <2>3
  <2>5. QED
    BY <2>1, <2>4
<1>7. QED
  BY <1>1, <1>6 DEF Increasing

\* Increasing operations are all different.
LEMMA IncreasingInjective ==
  ASSUME NEW s \in Seq(Parsed), Increasing(s)
  PROVE  \A i, j \in 1 .. Len(s) : s[i] = s[j] => i = j
<1> SUFFICES ASSUME NEW i \in 1 .. Len(s), NEW j \in 1 .. Len(s), s[i] = s[j], i # j PROVE FALSE
  OBVIOUS
<1>1. s[i] \in Parsed
  OBVIOUS
<1>2. i < j \/ j < i
  OBVIOUS
<1>3. Before(s[i], s[i])
  BY <1>2 DEF Increasing
<1>4. QED
  BY <1>1, <1>3, BeforeIrreflexive

\* There is one increasing arrangement of the same operations.
LEMMA IncreasingSame ==
  ASSUME NEW s \in Seq(Parsed), NEW t \in Seq(Parsed), Len(s) = Len(t),
         Increasing(s), Increasing(t),
         \A i \in 1 .. Len(s) : \E j \in 1 .. Len(s) : s[i] = t[j],
         \A i \in 1 .. Len(s) : \E j \in 1 .. Len(s) : t[i] = s[j]
  PROVE  s = t
<1> DEFINE n == Len(s)
           D == {i \in 1 .. n : s[i] # t[i]}
<1>1. /\ n \in Nat /\ DOMAIN s = 1 .. n /\ DOMAIN t = 1 .. n
      /\ \A i \in 1 .. n : s[i] \in Parsed /\ t[i] \in Parsed
  OBVIOUS
<1>2. ASSUME D # {} PROVE FALSE
  <2>1. PICK i \in D : \A k \in D : i <= k
    <3>1. D \in SUBSET Nat
      OBVIOUS
    <3> HIDE DEF D
    <3>2. QED
      BY <1>2, <3>1, LeastElement
  <2>2. i \in 1 .. n /\ s[i] # t[i]
    OBVIOUS
  <2>3. \A k \in 1 .. n : k < i => s[k] = t[k]
    BY <2>1
  <2>4. ASSUME NEW u \in {s, t}, NEW v \in {s, t}, Before(u[i], v[i]), Increasing(v),
               NEW j \in 1 .. n, u[i] = v[j], \A k \in 1 .. n : k < i => u[k] = v[k],
               \A k \in 1 .. n : u[k] = u[i] => k = i
        PROVE  FALSE
    <3>1. u[i] \in Parsed /\ v[i] \in Parsed
      BY <1>1, <2>2, <2>4
    <3>2. CASE j < i
      <4>1. u[j] = u[i]
        BY <2>4, <3>2
      <4>2. QED
        BY <2>2, <2>4, <3>2, <4>1
    <3>3. CASE j = i
      BY <2>4, <3>1, <3>3, BeforeIrreflexive
    <3>4. CASE j > i
      <4>1. DOMAIN v = 1 .. n
        BY <1>1, <2>4
      <4>2. Before(v[i], u[i])
        BY <2>2, <2>4, <3>4, <4>1 DEF Increasing
      <4>3. QED
        BY <2>4, <3>1, <4>2, BeforeTransitive, BeforeIrreflexive
    <3>5. QED
      BY <2>2, <3>2, <3>3, <3>4
  <2>5. /\ \A k \in 1 .. n : s[k] = s[i] => k = i
        /\ \A k \in 1 .. n : t[k] = t[i] => k = i
    <3>1. \A a, b \in 1 .. Len(s) : s[a] = s[b] => a = b
      BY IncreasingInjective
    <3>2. \A a, b \in 1 .. Len(t) : t[a] = t[b] => a = b
      BY IncreasingInjective
    <3>3. QED
      BY <2>2, <3>1, <3>2
  <2>6. PICK j \in 1 .. n : s[i] = t[j]
    BY <2>2
  <2>7. PICK k \in 1 .. n : t[i] = s[k]
    BY <2>2
  <2>8. Before(s[i], t[i]) \/ Before(t[i], s[i])
    BY <1>1, <2>2, BeforeTotal
  <2>9. CASE Before(s[i], t[i])
    BY <2>3, <2>4, <2>5, <2>6, <2>9
  <2>10. CASE Before(t[i], s[i])
    BY <2>3, <2>4, <2>5, <2>7, <2>10
  <2>11. QED
    BY <2>8, <2>9, <2>10
<1>3. \A i \in 1 .. n : s[i] = t[i]
  BY <1>2
<1>4. QED
  BY <1>1, <1>3, SeqEqual

\* A permutation of positions takes each once.
LEMMA PermutationInjective ==
  ASSUME NEW n \in Nat, NEW p \in [1 .. n -> 1 .. n],
         \A j \in 1 .. n : \E i \in 1 .. n : p[i] = j
  PROVE  \A i, j \in 1 .. n : p[i] = p[j] => i = j
<1>1. IsFiniteSet(1 .. n)
  BY FS_Interval
<1>2. p \in Surjection(1 .. n, 1 .. n)
  BY DEF Surjection
<1>3. p \in Injection(1 .. n, 1 .. n)
  BY <1>1, <1>2, FS_SurjSameCardinalityImpliesInj
<1>4. QED
  BY <1>3 DEF Injection, IsInjective

\* The number of operations that all differ is their length.
LEMMA CountDifferent ==
  ASSUME NEW T, NEW s \in Seq(T), \A i, j \in 1 .. Len(s) : s[i] = s[j] => i = j
  PROVE  Cardinality(ToSet(s)) = Len(s)
<1> DEFINE n == Len(s)
<1>1. n \in Nat /\ s \in [1 .. n -> ToSet(s)] /\ \A x \in ToSet(s) : \E i \in 1 .. n : s[i] = x
  BY DEF ToSet
<1>2. s \in Bijection(1 .. n, ToSet(s))
  BY <1>1 DEF Bijection, Injection, IsInjective, Surjection
<1>3. QED
  BY <1>1, <1>2, FS_CountingElements DEF ExistsBijection

\* Operations that sort without equal neighbours sort in one way only.
LEMMA OneArrangement ==
  ASSUME NEW entries \in Seq(Entry), \A i \in DOMAIN entries : EntryParses(entries[i]),
         NEW s \in Sorted(entries), ~HasNeighbouringDuplicates(s)
  PROVE  /\ Cardinality(ToSet(s)) = Len(s) /\ Sorted(entries) = {s}
         /\ \A a, b \in DOMAIN entries : entries[a] = entries[b] => a = b
<1> DEFINE n == Len(entries)
<1>1. n \in Nat /\ DOMAIN entries = 1 .. n /\ \A i \in 1 .. n : entries[i] \in Parsed
  BY ParsedEntry
<1>2. ASSUME NEW t \in Sorted(entries)
      PROVE  /\ t \in Seq(Parsed) /\ Len(t) = n
             /\ \A i \in 1 .. Len(t) - 1 : ~Before(t[i + 1], t[i])
             /\ \E p \in [1 .. n -> 1 .. n] :
                  /\ \A j \in 1 .. n : \E i \in 1 .. n : p[i] = j
                  /\ \A i \in 1 .. n : t[i] = entries[p[i]]
  <2>1. PICK p \in [1 .. n -> 1 .. n] :
          /\ \A j \in 1 .. n : \E i \in 1 .. n : p[i] = j
          /\ t = [i \in 1 .. n |-> entries[p[i]]]
    <3>1. PICK r : Arranges(r, entries, t)
      BY SortedArrangement, Zenon
    <3>2. DOMAIN entries = 1 .. n
      BY <1>1
    <3> HIDE DEF n
    <3>3. QED
      BY <3>1, <3>2 DEF Arranges
  <2>2. \A i \in 1 .. n : p[i] \in 1 .. n /\ entries[p[i]] \in Parsed
    BY <1>1, <2>1
  <2>3. \A i \in 1 .. Len(t) - 1 : ~Before(t[i + 1], t[i])
    BY DEF Sorted
  <2>4. t \in Seq(Parsed) /\ Len(t) = n
    <3> HIDE DEF n
    <3> QED BY <1>1, <2>1, <2>2
  <2>5. \A i \in 1 .. n : t[i] = entries[p[i]]
    BY <2>1
  <2>6. QED
    BY <2>1, <2>3, <2>4, <2>5
<1> HIDE DEF n
<1>3. s \in Seq(Parsed) /\ Len(s) = n /\ Increasing(s)
  BY <1>2, SortedIncreasing
<1>4. \A i, j \in 1 .. n : s[i] = s[j] => i = j
  BY <1>3, IncreasingInjective
<1>5. PICK p \in [1 .. n -> 1 .. n] :
        /\ \A j \in 1 .. n : \E i \in 1 .. n : p[i] = j
        /\ \A i \in 1 .. n : s[i] = entries[p[i]]
  BY <1>2
<1>6. ASSUME NEW a \in 1 .. n, NEW b \in 1 .. n, entries[a] = entries[b] PROVE a = b
  <2>1. PICK i \in 1 .. n, j \in 1 .. n : p[i] = a /\ p[j] = b
    BY <1>5
  <2>2. s[i] = entries[a] /\ s[j] = entries[b]
    BY <1>5, <2>1
  <2>3. i = j
    BY <1>4, <1>6, <2>2
  <2>4. QED
    BY <2>1, <2>3
<1>7. ASSUME NEW t \in Sorted(entries) PROVE t = s
  <2>1. /\ t \in Seq(Parsed) /\ Len(t) = n
        /\ \A i \in 1 .. n - 1 : ~Before(t[i + 1], t[i])
    BY <1>2
  <2>2. PICK q \in [1 .. n -> 1 .. n] :
          /\ \A j \in 1 .. n : \E i \in 1 .. n : q[i] = j
          /\ \A i \in 1 .. n : t[i] = entries[q[i]]
    BY <1>2
  <2>3. \A i, j \in 1 .. n : q[i] = q[j] => i = j
    BY <1>1, <2>2, PermutationInjective
  <2>4. ~HasNeighbouringDuplicates(t)
    <3> SUFFICES ASSUME NEW i \in 1 .. n - 1, t[i] = t[i + 1] PROVE FALSE
      BY <2>1 DEF HasNeighbouringDuplicates
    <3>1. i \in 1 .. n /\ i + 1 \in 1 .. n /\ i # i + 1
      BY <1>1
    <3>2. q[i] \in 1 .. n /\ q[i + 1] \in 1 .. n
      BY <3>1
    <3>3. entries[q[i]] = entries[q[i + 1]]
      BY <2>2, <3>1, Zenon
    <3>4. q[i] = q[i + 1]
      BY <1>6, <3>2, <3>3
    <3>5. QED
      BY <2>3, <3>1, <3>4
  <2>5. Increasing(t)
    BY <2>1, <2>4, SortedIncreasing
  <2>6. /\ \A i \in 1 .. n : \E j \in 1 .. n : s[i] = t[j]
        /\ \A i \in 1 .. n : \E j \in 1 .. n : t[i] = s[j]
    <3>1. ASSUME NEW i \in 1 .. n PROVE \E j \in 1 .. n : s[i] = t[j]
      <4>1. PICK j \in 1 .. n : q[j] = p[i]
        BY <1>5, <2>2
      <4>2. s[i] = entries[p[i]] /\ t[j] = entries[q[j]]
        BY <1>5, <2>2
      <4>3. QED
        BY <4>1, <4>2
    <3>2. ASSUME NEW i \in 1 .. n PROVE \E j \in 1 .. n : t[i] = s[j]
      <4>1. PICK j \in 1 .. n : p[j] = q[i]
        BY <1>5, <2>2
      <4>2. t[i] = entries[q[i]] /\ s[j] = entries[p[j]]
        BY <1>5, <2>2
      <4>3. QED
        BY <4>1, <4>2
    <3>3. QED
      BY <3>1, <3>2
  <2>7. QED
    BY <1>3, <2>1, <2>5, <2>6, IncreasingSame
<1>8. Cardinality(ToSet(s)) = Len(s)
  BY <1>3, <1>4, CountDifferent
<1>9. \A a, b \in DOMAIN entries : entries[a] = entries[b] => a = b
  BY <1>1, <1>6
<1>10. QED
  BY <1>7, <1>8, <1>9

\* Equal neighbours of a sorted list were two entries of the operator's list.
LEMMA DuplicatesWereListed ==
  ASSUME NEW entries \in Seq(Entry), NEW s \in Sorted(entries), HasNeighbouringDuplicates(s)
  PROVE  ~Configurable(entries)
<1> DEFINE n == Len(entries)
<1>1. n \in Nat /\ DOMAIN entries = 1 .. n
  OBVIOUS
<1> HIDE DEF n
<1>2. PICK p : Arranges(p, entries, s)
  BY SortedArrangement, Zenon
<1>3. /\ p \in [1 .. n -> 1 .. n]
      /\ \A j \in 1 .. n : \E i \in 1 .. n : p[i] = j
      /\ s = [i \in 1 .. n |-> entries[p[i]]]
  BY <1>1, <1>2 DEF Arranges
<1>4. Len(s) = n /\ n \in Nat
  BY <1>1, <1>3
<1>5. PICK i \in 1 .. n - 1 : s[i] = s[i + 1]
  BY <1>4 DEF HasNeighbouringDuplicates
<1>6. i \in 1 .. n /\ i + 1 \in 1 .. n /\ i # i + 1
  BY <1>4, <1>5
<1>7. p[i] # p[i + 1] /\ p[i] \in 1 .. n /\ p[i + 1] \in 1 .. n
  BY <1>3, <1>4, <1>6, PermutationInjective
<1>8. entries[p[i]] = entries[p[i + 1]]
  BY <1>3, <1>5, <1>6
<1>9. QED
  BY <1>1, <1>7, <1>8 DEF Configurable

\* What Configure refused was not to be accepted, and what it let pass was a list
\* of something.
ChoiceInv ==
  /\ at = "unconfigured" => ~Configurable(input.operations)
  /\ at \notin {"start", "unconfigured"} => input.operations # <<>>

\* Configure tells the lists an operator may give from the others.
LEMMA ConfigureChooses == ASSUME AcceptanceInv, Configure PROVE ChoiceInv'
<1> DEFINE entries == input.operations
           IsEmpty == \A i \in DOMAIN entries : entries[i] = EmptyEntry
           TooMany == Len(entries) > MaxOperations
           Parses == \A i \in DOMAIN entries : EntryParses(entries[i])
<1>1. entries \in Seq(Entry) /\ MaxOperations \in Nat
  BY InputTyped, AcceptanceAssumption DEF AcceptanceAssumption
<1>2. CASE at' = "unconfigured"
  <2>1. UNCHANGED input
    BY <1>2 DEF Configure, Refuse, Continue
  <2>2. IsEmpty \/ TooMany \/ ~Parses
          \/ \E s \in Sorted(entries) : HasNeighbouringDuplicates(s)
    BY <1>2 DEF Configure, Refuse, Continue
  <2>3. CASE IsEmpty
    <3>1. ~EntryParses(EmptyEntry)
      BY DEF EntryParses, EmptyEntry, Methods
    <3>2. Configurable(entries) => 1 \in DOMAIN entries
      BY <1>1 DEF Configurable
    <3>3. ~Configurable(entries)
      BY <2>3, <3>1, <3>2 DEF Configurable
    <3>4. QED
      BY <1>2, <2>1, <3>3 DEF ChoiceInv
  <2>4. CASE TooMany
    <3>1. ~Configurable(entries)
      BY <1>1, <2>4 DEF Configurable
    <3>2. QED
      BY <1>2, <2>1, <3>1 DEF ChoiceInv
  <2>5. CASE ~Parses
    <3>1. ~Configurable(entries)
      BY <2>5 DEF Configurable
    <3>2. QED
      BY <1>2, <2>1, <3>1 DEF ChoiceInv
  <2>6. CASE \E s \in Sorted(entries) : HasNeighbouringDuplicates(s)
    <3>1. ~Configurable(entries)
      BY <1>1, <2>6, DuplicatesWereListed
    <3>2. QED
      BY <1>2, <2>1, <3>1 DEF ChoiceInv
  <2>7. QED
    BY <2>2, <2>3, <2>4, <2>5, <2>6
<1>3. CASE at' # "unconfigured"
  <2>1. UNCHANGED input /\ ~IsEmpty
    BY <1>3 DEF Configure, Refuse, Continue
  <2>2. entries # <<>>
    BY <2>1
  <2>3. QED
    BY <1>3, <2>1, <2>2 DEF ChoiceInv
<1>4. QED
  BY <1>2, <1>3

\* ChoiceInv holds in every reachable state: only Configure makes that choice.
LEMMA ChoiceInvariant == Spec => []ChoiceInv
<1>1. Init => ChoiceInv
  BY DEF Init, ChoiceInv
<1>2. AcceptanceInv /\ ChoiceInv /\ [Next]_vars => ChoiceInv'
  <2> SUFFICES ASSUME AcceptanceInv, ChoiceInv, [Next]_vars PROVE ChoiceInv'
    OBVIOUS
  <2>1. CASE Configure
    BY <2>1, ConfigureChooses
  <2>2. ASSUME AcceptTarget \/ AllowTarget \/ ForwardRequest \/ ForwardResponse
        PROVE  ChoiceInv'
    <3>1. /\ at \notin {"start", "unconfigured"}
          /\ at' \notin {"start", "unconfigured"} /\ UNCHANGED input
      BY <2>2 DEF AcceptTarget, AllowTarget, ForwardRequest, ForwardResponse, Refuse, Continue
    <3>2. QED
      BY <3>1 DEF ChoiceInv
  <2>3. CASE UNCHANGED vars
    BY <2>3 DEF vars, ChoiceInv
  <2>4. QED
    BY <2>1, <2>2, <2>3 DEF Next, Rest
<1>3. QED
  BY <1>1, <1>2, AcceptanceInvariant, PTL DEF Spec

\* A list is accepted exactly if it names an operation and not too many, all parse
\* and no two are the same, and its configuration could not have come out
\* differently (AllowedOperations::parse, sort_unstable_by).
THEOREM ConfiguredOneWay == Spec => []ConfigurationCanonical
<1>1. AcceptanceInv /\ ChoiceInv => ConfigurationCanonical
  <2> SUFFICES ASSUME AcceptanceInv, ChoiceInv PROVE ConfigurationCanonical
    OBVIOUS
  <2>1. CASE at = "start"
    BY <2>1 DEF ConfigurationCanonical
  <2>2. CASE at = "unconfigured"
    BY <2>2 DEF ConfigurationCanonical, ChoiceInv
  <2>3. CASE at \notin {"start", "unconfigured"}
    <3> DEFINE entries == input.operations
    <3>1. /\ \A i \in DOMAIN entries : EntryParses(entries[i])
          /\ Len(entries) <= MaxOperations
          /\ operations \in Sorted(entries)
          /\ ~HasNeighbouringDuplicates(operations)
      BY <2>3 DEF AcceptanceInv, ConfiguredInv
    <3>2. entries \in Seq(Entry) /\ entries # <<>>
      BY <2>3, InputTyped DEF ChoiceInv
    <3>3. /\ Cardinality(ToSet(operations)) = Len(operations) /\ Sorted(entries) = {operations}
          /\ \A a, b \in DOMAIN entries : entries[a] = entries[b] => a = b
      BY <3>1, <3>2, OneArrangement, Zenon
    <3>4. Len(entries) \in 1 .. MaxOperations
      BY <3>1, <3>2, AcceptanceAssumption DEF AcceptanceAssumption
    <3>5. Configurable(entries)
      BY <3>1, <3>3, <3>4 DEF Configurable
    <3>6. QED
      BY <2>3, <3>3, <3>5 DEF ConfigurationCanonical
  <2>4. QED
    BY <2>1, <2>2, <2>3
<1>2. QED
  BY <1>1, AcceptanceInvariant, ChoiceInvariant, PTL

-----------------------------------------------------------------------------
(* Header sizes                                                            *)

\* The bytes of the lines of one name.
LineBytes(values) == FoldLeft(LAMBDA sum, value : sum + NameBytes + value.bytes, 0, values)

\* The bytes of a name's lines are a number.
LEMMA LineBytesType ==
  ASSUME NEW values \in Seq([bytes : Nat, tokens : Seq(STRING)])
  PROVE  LineBytes(values) \in Nat
<1> DEFINE m == Len(values)
           c == 0
           step == [x \in Nat \X (1 .. m) |-> x[1] + NameBytes + values[x[2]].bytes]
           pick == [t \in SUBSET (1 .. m) |-> Max(t)]
           Body(h, t) == IF t = {} THEN c ELSE h[t \ {Max(t)}] + NameBytes + values[Max(t)].bytes
           iter == CHOOSE h : h = [t \in SUBSET DOMAIN values |-> Body(h, t)]
<1>1. /\ m \in Nat /\ DOMAIN values = 1 .. m /\ c \in Nat
      /\ \A i \in 1 .. m : values[i].bytes \in Nat
  <2> DEFINE Line == [bytes : Nat, tokens : Seq(STRING)]
  <2>1. \A line \in Line : line.bytes \in Nat
    OBVIOUS
  <2>2. values \in Seq(Line)
    OBVIOUS
  <2> HIDE DEF Line
  <2>3. QED
    BY <2>1, <2>2
<1>2. step \in [Nat \X (1 .. m) -> Nat]
  BY <1>1 DEF NameBytes
<1>3. \A a \in Nat, i \in 1 .. m : step[<<a, i>>] = a + NameBytes + values[i].bytes
  BY <1>1
<1>4. LineBytes(values) = iter[DOMAIN values]
  BY DEF LineBytes, FoldLeft, MapThenFoldSet, c
<1> HIDE DEF m, c, step
<1>5. FoldDefined(Nat, c, 1 .. m, step, pick)
  BY <1>1, <1>2, FoldFromLeft
<1>6. PICK g \in [SUBSET (1 .. m) -> Nat] :
        \A t \in SUBSET (1 .. m) : g[t] = FoldStep(c, step, pick, g, t)
  BY <1>5 DEF FoldDefined
<1>7. \A t \in SUBSET (1 .. m) : t # {} => Max(t) \in t /\ t \ {Max(t)} \in SUBSET (1 .. m)
  BY <1>1, MaxIn
<1>8. \A t \in SUBSET (1 .. m) : g[t] = Body(g, t)
  BY <1>3, <1>6, <1>7 DEF FoldStep
<1>9. g = [t \in SUBSET DOMAIN values |-> Body(g, t)]
  BY <1>1, <1>6, <1>8
<1>10. iter = [t \in SUBSET DOMAIN values |-> Body(iter, t)]
  BY <1>9
<1> HIDE DEF iter
<1>11. iter[{}] = c
  BY <1>10
<1>12. ASSUME NEW t \in SUBSET (1 .. m), t # {}, iter[t \ {Max(t)}] \in Nat
       PROVE  iter[t] = step[<<iter[t \ {Max(t)}], Max(t)>>]
  BY <1>1, <1>3, <1>7, <1>10, <1>12
<1>13. FoldRuns(Nat, c, m, step, iter[1 .. m])
  BY <1>1, <1>2, <1>11, <1>12, FoldPositions
<1>14. QED
  BY <1>1, <1>4, <1>13, FoldType

\* The size of a header map is the sum of its names' lines.
LEMMA HeaderBytesSum ==
  ASSUME NEW headers, IsFiniteSet(DOMAIN headers),
         \A name \in DOMAIN headers : LineBytes(headers[name]) \in Nat
  PROVE  \E sum : /\ IsSum(sum, [name \in DOMAIN headers |-> LineBytes(headers[name])], DOMAIN headers)
                  /\ HeaderBytes(headers) = sum[DOMAIN headers]
<1> DEFINE D == DOMAIN headers
           weight == [name \in D |-> LineBytes(headers[name])]
           Body(h, s) == IF s = {} THEN 0
                         ELSE LineBytes(headers[CHOOSE x \in s : TRUE]) + h[s \ {CHOOSE x \in s : TRUE}]
           iter == CHOOSE h : h = [s \in SUBSET D |-> Body(h, s)]
<1>1. weight \in [D -> Nat]
  OBVIOUS
<1>2. HeaderBytes(headers) = iter[D]
  BY DEF HeaderBytes, MapThenSumSet, MapThenFoldSet, LineBytes
<1>3. \A s \in SUBSET D : s # {} =>
        Chosen(s) = (CHOOSE x \in s : TRUE) /\ weight[Chosen(s)] = LineBytes(headers[CHOOSE x \in s : TRUE])
  BY ChosenIn DEF Chosen
<1>4. PICK g : IsSum(g, weight, D)
  <2> HIDE DEF weight
  <2> QED BY <1>1, SumExists
<1> HIDE DEF weight, D
<1>5. \A s \in SUBSET D : g[s] = Body(g, s)
  BY <1>3, <1>4 DEF IsSum
<1>6. g = [s \in SUBSET D |-> Body(g, s)]
  BY <1>4, <1>5 DEF IsSum
<1>7. iter = [s \in SUBSET D |-> Body(iter, s)]
  BY <1>6
<1> HIDE DEF iter
<1> DEFINE S == {s \in SUBSET D : iter[s] = g[s]}
<1>8. ASSUME NEW s \in SUBSET D, \A x \in s : s \ {x} \in S PROVE s \in S
  <2>1. CASE s = {}
    BY <1>5, <1>7, <2>1
  <2>2. CASE s # {}
    <3>1. (CHOOSE x \in s : TRUE) \in s
      BY <2>2
    <3>2. iter[s \ {CHOOSE x \in s : TRUE}] = g[s \ {CHOOSE x \in s : TRUE}]
      BY <1>8, <3>1
    <3>3. iter[s] = Body(iter, s) /\ g[s] = Body(g, s)
      BY <1>5, <1>7
    <3>4. iter[s] = g[s]
      BY <2>2, <3>2, <3>3
    <3>5. QED
      BY <3>4
  <2>3. QED
    BY <2>1, <2>2
<1>9. SUBSET D \subseteq S
  <2>1. IsFiniteSet(D)
    BY DEF D
  <2> HIDE DEF S
  <2>2. QED
    BY <1>8, <2>1, InductionOverSubsets
<1>10. iter[D] = g[D]
  BY <1>9
<1>11. QED
  BY <1>2, <1>4, <1>10 DEF weight, D

\* Filtering a header map does not make it greater.
LEMMA FilteredSize ==
  ASSUME NEW headers, IsHeaderMap(headers), NEW removed
  PROVE  /\ HeaderBytes(headers) \in Nat /\ HeaderBytes(EndToEnd(headers, removed)) \in Nat
         /\ HeaderBytes(EndToEnd(headers, removed)) <= HeaderBytes(headers)
<1> DEFINE D == DOMAIN headers
           kept == EndToEnd(headers, removed)
           E == DOMAIN kept
           weight == [name \in D |-> LineBytes(headers[name])]
           other == [name \in E |-> LineBytes(kept[name])]
<1>1. /\ IsFiniteSet(D) /\ weight \in [D -> Nat]
      /\ \A name \in D : LineBytes(headers[name]) \in Nat
  BY LineBytesType DEF IsHeaderMap
<1>2. E \in SUBSET D /\ \A name \in E : kept[name] = headers[name]
  BY DEF EndToEnd, Restrict
<1>3. IsFiniteSet(E)
  BY <1>1, <1>2, FS_Subset
<1>4. \A name \in E : LineBytes(kept[name]) \in Nat /\ other[name] = weight[name]
  BY <1>1, <1>2
<1>5. PICK sum : IsSum(sum, weight, D) /\ HeaderBytes(headers) = sum[D]
  BY <1>1, HeaderBytesSum
<1> HIDE DEF kept
<1>6. PICK less : IsSum(less, other, E) /\ HeaderBytes(kept) = less[E]
  BY <1>3, <1>4, HeaderBytesSum
<1> HIDE DEF D, E, weight, other
<1>7. less[E] = sum[E]
  BY <1>2, <1>3, <1>4, <1>5, <1>6, SumAgrees
<1>8. sum[E] <= sum[D] /\ sum[E] \in Nat /\ sum[D] \in Nat
  <2>1. D \in SUBSET D /\ E \subseteq D
    BY <1>2
  <2>2. sum[E] <= sum[D]
    BY <1>1, <1>2, <1>5, <2>1, SumMonotone
  <2>3. sum[E] \in Nat /\ sum[D] \in Nat
    BY <1>2, <1>5, <2>1 DEF IsSum
  <2>4. QED
    BY <2>2, <2>3
<1>9. HeaderBytes(kept) <= HeaderBytes(headers) /\ HeaderBytes(kept) \in Nat /\ HeaderBytes(headers) \in Nat
  BY <1>5, <1>6, <1>7, <1>8
<1>10. QED
  BY <1>9 DEF kept

\* Headers without a fault are within the limit.
LEMMA HeadersWithinLimit ==
  ASSUME NEW headers, IsHeaderMap(headers), HeaderFault(headers) = None, NEW removed
  PROVE  HeaderBytes(EndToEnd(headers, removed)) <= MaxHeaderBytes
<1>1. ~(HeaderBytes(headers) > MaxHeaderBytes)
  BY DEF HeaderFault, None
<1>2. MaxHeaderBytes \in Nat
  BY AcceptanceAssumption
<1>3. QED
  BY <1>1, <1>2, FilteredSize

\* The limits on operations, path and headers hold for what is configured, sent
\* and received (AllowedOperations::parse, OriginFormPath::parse, the filters).
THEOREM WithinLimits == Spec => []TypeOK
<1>1. AcceptanceInv => TypeOK
  <2> SUFFICES ASSUME AcceptanceInv PROVE TypeOK
    OBVIOUS
  <2>1. /\ at \in {"start", "unconfigured", "listening", "accepted", "allowed", "sending",
                   "denied", "bad_gateway", "answered"}
        /\ denial # None <=> at \in {"unconfigured", "denied", "bad_gateway"}
    BY DEF AcceptanceInv, StageInv
  <2>2. (\A i \in DOMAIN operations : EntryParses(operations[i])) /\ Len(operations) <= MaxOperations
    <3>1. CASE at \in {"start", "unconfigured"}
      BY <3>1, AcceptanceAssumption DEF AcceptanceInv, ConfiguredInv
    <3>2. CASE at \notin {"start", "unconfigured"}
      <4>1. /\ \A i \in DOMAIN input.operations : EntryParses(input.operations[i])
            /\ Len(input.operations) <= MaxOperations
            /\ operations \in Sorted(input.operations)
        BY <3>2 DEF AcceptanceInv, ConfiguredInv
      <4>2. PICK p : Arranges(p, input.operations, operations)
        BY <4>1, SortedArrangement, Zenon
      <4>3. PICK entries \in Seq(Entry) : entries = input.operations
        BY InputTyped
      <4>4. \A i \in DOMAIN operations : EntryParses(operations[i])
        BY <4>1, <4>2 DEF Arranges
      <4>5. DOMAIN operations = 1 .. Len(entries) /\ operations = [i \in 1 .. Len(entries) |-> entries[p[i]]]
        BY <4>2, <4>3 DEF Arranges
      <4>6. Len(operations) = Len(entries)
        BY <4>3, <4>5
      <4>7. QED
        BY <4>1, <4>3, <4>4, <4>6
    <3>3. QED
      BY <3>1, <3>2
  <2>3. ASSUME sent # Nothing
        PROVE  HeaderBytes(sent.headers) <= MaxHeaderBytes /\ Bytes(sent.path) <= MaxPathBytes
    <3>1. /\ HeaderFault(input.headers) = None /\ PathFault(input.path) = None
          /\ sent = [path |-> SetPath(input.path), headers |-> ForwardedToProvider(input.headers)]
      BY <2>3 DEF AcceptanceInv, ForwardedInv, AcceptedInv
    <3>2. /\ sent.path = SetPath(input.path)
          /\ sent.headers = EndToEnd(input.headers, {"host", "content-length"})
      BY <3>1 DEF ForwardedToProvider
    <3>3. SetPath(input.path) = input.path /\ Bytes(input.path) <= MaxPathBytes
      BY <3>1, InputTyped, SetPathKeeps, AcceptedPath
    <3>4. HeaderBytes(sent.headers) <= MaxHeaderBytes
      BY <3>1, <3>2, InputTyped, HeadersWithinLimit, Zenon
    <3>5. QED
      BY <3>2, <3>3, <3>4, Zenon
  <2>4. ASSUME received # Nothing PROVE HeaderBytes(received.headers) <= MaxHeaderBytes
    <3>1. /\ HeaderFault(input.response) = None
          /\ received = [headers |-> ForwardedToHarness(input.response)]
      BY <2>4 DEF AcceptanceInv, ForwardedInv
    <3>2. received.headers = EndToEnd(input.response, {"content-length"})
      BY <3>1 DEF ForwardedToHarness
    <3>3. QED
      BY <3>1, <3>2, InputTyped, HeadersWithinLimit, Zenon
  <2>5. QED
    BY <2>1, <2>2, <2>3, <2>4, Zenon DEF TypeOK
<1>2. QED
  BY <1>1, AcceptanceInvariant, PTL

-----------------------------------------------------------------------------
(* Header filters                                                          *)

\* A name that any line names is among the Connection tokens, and no other is.
LEMMA NamedByALine ==
  ASSUME NEW headers, NEW name
  PROVE  (\E value \in ToSet(ConnectionValues(headers)) : name \in ToSet(value.tokens))
           <=> name \in ConnectionTokens(headers)
  BY DEF ConnectionTokens

\* What the filter keeps is what is to pass, with all its values.
LEMMA EndsOrPasses ==
  ASSUME NEW headers, NEW removed
  PROVE  FilteredTo(EndToEnd(headers, removed), headers, removed)
<1> DEFINE kept == EndToEnd(headers, removed)
<1>1. /\ DOMAIN kept = DOMAIN headers \ (Standard \cup ConnectionTokens(headers) \cup removed)
      /\ \A name \in DOMAIN kept : kept[name] = headers[name]
  BY DEF EndToEnd, Restrict
<1> HIDE DEF kept
<1>2. FilteredTo(kept, headers, removed)
  BY <1>1, NamedByALine DEF FilteredTo
<1>3. QED
  BY <1>2 DEF kept

\* Headers that are hop-by-hop or that any Connection line names, the length and,
\* toward the provider, the host end at the gateway; all other headers pass
\* (forward_request_headers, forward_response_headers).
THEOREM HeadersAreFiltered == Spec => []HeadersEndOrPass
<1>1. AcceptanceInv => HeadersEndOrPass
  <2> SUFFICES ASSUME AcceptanceInv PROVE HeadersEndOrPass
    OBVIOUS
  <2>1. sent # Nothing => sent.headers = EndToEnd(input.headers, {"host", "content-length"})
    BY DEF AcceptanceInv, ForwardedInv, ForwardedToProvider
  <2>2. received # Nothing => received.headers = EndToEnd(input.response, {"content-length"})
    BY DEF AcceptanceInv, ForwardedInv, ForwardedToHarness
  <2>3. QED
    BY <2>1, <2>2, EndsOrPasses DEF HeadersEndOrPass
<1>2. QED
  BY <1>1, AcceptanceInvariant, PTL
==============================================================================

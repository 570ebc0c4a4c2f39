---------------------------- MODULE DeliveryProofs ----------------------------
(***************************************************************************)
(* The way from a tool call to the pull request: what holds of the tools of  *)
(* the work phase, of the verification of what they leave and of its         *)
(* delivery, each for any values of its constants, and, with the history of  *)
(* the schema from MigrationsProofs, of the whole way.                       *)
(*                                                                         *)
(* Tools: a file_edit changes the one occurrence it was asked for.  That the *)
(* prefixes FlattenSeq goes through grow by one part at a time, and that the *)
(* occurrences in a text are counted part by part, is proved by induction    *)
(* from the order of the natural numbers.                                   *)
(*                                                                         *)
(* Verification: every status an aspect can end with is justified by the     *)
(* work or by the environment (AspectIsJustified), statuses stay justified   *)
(* while the call goes on (Justifies), and a settled verdict is the roll-up  *)
(* of the statuses its call ended with (SettledByVerdicts).  A probe          *)
(* foretells the verdict because what cleared an aspect in it cannot come     *)
(* back: the dependencies, once there, stay (Cleared).                       *)
(*                                                                         *)
(* Delivery: GitHub keeps one pull request of a branch open at a time; that   *)
(* no second one follows a closed one is the work of the look at the list,    *)
(* which counts in every state: what it has not seen cannot appear before     *)
(* the creation unless a second caller is under way.  And what is verified    *)
(* is on its branch as a whole.                                             *)
(***************************************************************************)
EXTENDS MCProofDelivery, MigrationsProofs, FiniteSetTheorems

----------------------------------------------------------------------------
(* Tools: texts, their occurrences and the contract that is declared.      *)

\* What FlattenSeq returns is the last of its prefixes, each of which is the one
\* before it and one sequence more.
IsPrefixes(f, seqs) ==
    /\ f[0] = <<>>
    /\ \A n \in 1 .. Len(seqs) : f[n] = f[n - 1] \o seqs[n]
    /\ FlattenSeq(seqs) = f[Len(seqs)]

LEMMA Flattened ==
    ASSUME NEW X, NEW seqs \in Seq(Seq(X))
    PROVE  \E f \in [0 .. Len(seqs) -> Seq(X)] : IsPrefixes(f, seqs)
<1> DEFINE T == Seq(X)
           N == Len(seqs)
           step == [p \in T \X (1 .. N) |-> p[1] \o seqs[p[2]]]
           Is(f) == f = [i \in 1 .. N |-> IF i = 1 THEN seqs[i] ELSE f[i - 1] \o seqs[i]]
           flatten == CHOOSE f : Is(f)
<1>1. N \in Nat /\ <<>> \in T /\ \A n \in 1 .. N : seqs[n] \in T
  OBVIOUS
<1>2. step \in [T \X (1 .. N) -> T]
  <2>1. \A p \in T \X (1 .. N) : p[1] \in Seq(X) /\ seqs[p[2]] \in Seq(X)
    BY <1>1
  <2>2. \A p \in T \X (1 .. N) : p[1] \o seqs[p[2]] \in T
    BY <2>1
  <2> QED  BY <2>2, Zenon
<1>3. PICK f \in [0 .. N -> T] : Computed(f, N, <<>>, step)
  <2> HIDE DEF T, N, step
  <2> QED  BY <1>1, <1>2, Recursion
<1>4. f[0] = <<>> /\ \A n \in 1 .. N : f[n] = f[n - 1] \o seqs[n]
  <2>1. f[0] = <<>> /\ \A n \in 1 .. N : f[n] = step[<<f[n - 1], n>>]
    BY <1>3 DEF Computed
  <2>2. ASSUME NEW n \in 1 .. N  PROVE step[<<f[n - 1], n>>] = f[n - 1] \o seqs[n]
    <3>1. n - 1 \in 0 .. N
      BY <1>1
    <3> HIDE DEF T, N
    <3>2. f[n - 1] \in T /\ <<f[n - 1], n>> \in T \X (1 .. N)
      BY <3>1
    <3>3. step[<<f[n - 1], n>>] = <<f[n - 1], n>>[1] \o seqs[<<f[n - 1], n>>[2]]
      BY <3>2, Zenon
    <3> HIDE DEF step
    <3> QED  BY <3>3
  <2> HIDE DEF step, T, N
  <2> QED  BY <2>1, <2>2
<1>5. CASE N = 0
  <2>1. FlattenSeq(seqs) = seqs
    BY <1>5 DEF FlattenSeq
  <2>2. seqs = <<>>
    BY <1>5
  <2> QED  BY <1>4, <1>5, <2>1, <2>2 DEF IsPrefixes
<1>6. CASE N # 0
  <2> HIDE DEF T, N
  <2>1. \A n \in 1 .. N : f[n] = IF n = 1 THEN seqs[n] ELSE f[n - 1] \o seqs[n]
    <3>0. 1 \in 1 .. N /\ 1 - 1 = 0
      BY <1>1, <1>6
    <3>1. 1 \in 1 .. N /\ f[1] = <<>> \o seqs[1]
      BY <3>0, <1>4
    <3>2. <<>> \o seqs[1] = seqs[1]
      BY <1>1, <3>1 DEF T
    <3> QED  BY <1>4, <3>1, <3>2
  <2> DEFINE g == [n \in 1 .. N |-> f[n]]
  <2>2. \A n \in 1 .. N : n # 1 => n - 1 \in 1 .. N
    BY <1>1
  <2>3. \A n \in 1 .. N : g[n] = IF n = 1 THEN seqs[n] ELSE g[n - 1] \o seqs[n]
    BY <2>1, <2>2
  <2>4. g = [n \in 1 .. N |-> g[n]]
    OBVIOUS
  <2> HIDE DEF g
  <2>5. Is(g)
    BY <2>3, <2>4
  <2>6. Is(flatten)
    <3> HIDE DEF Is
    <3> QED  BY <2>5, Zenon
  <2>7. \A n \in 1 .. N : flatten[n] = IF n = 1 THEN seqs[n] ELSE flatten[n - 1] \o seqs[n]
    <3> HIDE DEF flatten
    <3> QED  BY <2>6
  <2>8. FlattenSeq(seqs) = flatten[N]
    BY <1>6, Zenon DEF FlattenSeq, N
  <2> HIDE DEF flatten
  <2> DEFINE S == {n \in Nat : n = 0 \/ flatten[n] = f[n]}
  <2>9. 0 \in S /\ \A n \in 1 .. N : n - 1 \in S => n \in S
    BY <1>1, <2>1, <2>7
  <2>10. N \in S
    <3> HIDE DEF S
    <3> QED  BY <1>1, <2>9, Climb
  <2>11. FlattenSeq(seqs) = f[N]
    BY <1>6, <2>8, <2>10
  <2>12. IsPrefixes(f, seqs)
    BY <1>4, <2>11 DEF IsPrefixes, N
  <2> QED  BY <2>12 DEF N, T
<1> QED  BY <1>5, <1>6

LEMMA Listed == ASSUME NEW A, NEW n \in Nat, NEW s \in [1 .. n -> A]  PROVE s \in Seq(A) /\ Len(s) = n
OBVIOUS

LEMMA ContractIsUsable ==
    ASSUME NEW raw \in Seq(RawChecks)
    PROVE  ParseVerificationContract(raw) \in Seq({"command", "judge"})
<1> DEFINE Piece(i) == IF ParseCheck(raw[i]) THEN <<raw[i]>> ELSE <<>>
           seqs == [i \in DOMAIN raw |-> Piece(i)]
<1>1. seqs \in Seq(Seq({"command", "judge"}))
  <2>1. \A i \in 1 .. Len(raw) : Piece(i) \in Seq({"command", "judge"})
    <3>1. ASSUME NEW c \in {"command", "judge"}  PROVE <<c>> \in Seq({"command", "judge"})
      OBVIOUS
    <3>2. <<>> \in Seq({"command", "judge"})
      OBVIOUS
    <3> QED  BY <3>1, <3>2, Zenon DEF ParseCheck
  <2>2. Len(raw) \in Nat /\ DOMAIN raw = 1 .. Len(raw)
    OBVIOUS
  <2>3. seqs \in [1 .. Len(raw) -> Seq({"command", "judge"})]
    <3> HIDE DEF Piece
    <3> QED  BY <2>1, <2>2
  <2> QED  BY <2>2, <2>3, Listed
<1>2. Len(seqs) \in 0 .. Len(seqs)
  BY <1>1
<1> HIDE DEF seqs
<1>3. PICK f \in [0 .. Len(seqs) -> Seq({"command", "judge"})] : IsPrefixes(f, seqs)
  BY <1>1, Flattened, Zenon
<1>4. FlattenSeq(seqs) \in Seq({"command", "judge"})
  BY <1>2, <1>3 DEF IsPrefixes
<1> QED  BY <1>4 DEF ParseVerificationContract, seqs

----------------------------------------------------------------------------
(* Counting tokens.                                                        *)

LEMMA Positions ==
    ASSUME NEW n \in Nat, NEW s, NEW t
    PROVE  IsFiniteSet({i \in 1 .. n : s[i] = t}) /\ Cardinality({i \in 1 .. n : s[i] = t}) \in Nat
<1>1. {i \in 1 .. n : s[i] = t} \in SUBSET (1 .. n) /\ IsFiniteSet(1 .. n)
  BY FS_Interval
<1>2. IsFiniteSet({i \in 1 .. n : s[i] = t})
  BY <1>1, FS_Subset
<1> QED  BY <1>2, FS_CardinalityType

\* How often t is among the first n of s.
SeenUpto(s, t, n) == Cardinality({i \in 1 .. n : s[i] = t})

\* One position further.
LEMMA OneFurther ==
    ASSUME NEW n \in Nat \ {0}, NEW s, NEW t
    PROVE  SeenUpto(s, t, n) = SeenUpto(s, t, n - 1) + (IF s[n] = t THEN 1 ELSE 0)
<1> DEFINE Upto(m) == {i \in 1 .. m : s[i] = t}
<1>1. n - 1 \in Nat /\ IsFiniteSet(Upto(n - 1)) /\ Cardinality(Upto(n - 1)) \in Nat
  BY Positions
<1>2. CASE s[n] = t
  <2>1. Upto(n) = Upto(n - 1) \cup {n} /\ n \notin Upto(n - 1)
    BY <1>2
  <2> HIDE DEF Upto
  <2>2. Cardinality(Upto(n)) = Cardinality(Upto(n - 1)) + 1
    BY <1>1, <2>1, FS_AddElement
  <2> QED  BY <1>2, <2>2 DEF Upto, SeenUpto
<1>3. CASE s[n] # t
  <2>1. Upto(n) = Upto(n - 1)
    BY <1>3
  <2> HIDE DEF Upto
  <2>2. Cardinality(Upto(n)) = Cardinality(Upto(n - 1)) + 0
    BY <1>1, <2>1
  <2> QED  BY <1>3, <2>2 DEF Upto, SeenUpto
<1> QED  BY <1>2, <1>3

LEMMA OccurrencesUpto ==
    ASSUME NEW A, NEW s \in Seq(A), NEW t
    PROVE  Occurrences(s, t) = SeenUpto(s, t, Len(s)) /\ Occurrences(s, t) \in Nat
<1>1. DOMAIN s = 1 .. Len(s) /\ Len(s) \in Nat
  OBVIOUS
<1>2. Occurrences(s, t) = SeenUpto(s, t, Len(s))
  BY <1>1 DEF Occurrences, SeenUpto
<1>3. SeenUpto(s, t, Len(s)) \in Nat
  BY <1>1, Positions DEF SeenUpto
<1> QED  BY <1>2, <1>3

LEMMA AppendedToken ==
    ASSUME NEW A, NEW s \in Seq(A), NEW x \in A, NEW t
    PROVE  Occurrences(s \o <<x>>, t) = Occurrences(s, t) + (IF x = t THEN 1 ELSE 0)
<1> DEFINE u == s \o <<x>>
           n == Len(s) + 1
<1>1. u \in Seq(A) /\ Len(u) = n /\ n \in Nat \ {0} /\ n - 1 = Len(s) /\ u[n] = x
  OBVIOUS
<1>2. \A i \in 1 .. n - 1 : u[i] = s[i]
  OBVIOUS
<1> HIDE DEF u, n
<1>3. SeenUpto(u, t, n - 1) = SeenUpto(s, t, n - 1)
  <2>1. {i \in 1 .. n - 1 : u[i] = t} = {i \in 1 .. n - 1 : s[i] = t}
    BY <1>2
  <2> QED  BY <2>1 DEF SeenUpto
<1>4. SeenUpto(u, t, n) = SeenUpto(u, t, n - 1) + (IF u[n] = t THEN 1 ELSE 0)
  BY <1>1, OneFurther
<1>5. Occurrences(u, t) = SeenUpto(u, t, n)
  BY <1>1, OccurrencesUpto
<1>6. Occurrences(s, t) = SeenUpto(s, t, n - 1)
  BY <1>1, OccurrencesUpto
<1> QED  BY <1>1, <1>3, <1>4, <1>5, <1>6 DEF u

LEMMA AppendedText ==
    ASSUME NEW A, NEW s \in Seq(A), NEW u \in Seq(A), NEW t, t \notin Range(u)
    PROVE  Occurrences(s \o u, t) = Occurrences(s, t)
<1>1. \A i \in 1 .. Len(u) : u[i] # t
  BY DEF Range
<1>2. /\ DOMAIN (s \o u) = 1 .. Len(s) + Len(u) /\ DOMAIN s = 1 .. Len(s)
      /\ Len(s) \in Nat /\ Len(u) \in Nat
      /\ \A i \in 1 .. Len(s) + Len(u) : (s \o u)[i] = IF i <= Len(s) THEN s[i] ELSE u[i - Len(s)]
  OBVIOUS
<1>3. {i \in DOMAIN (s \o u) : (s \o u)[i] = t} = {i \in DOMAIN s : s[i] = t}
  BY <1>1, <1>2
<1> QED  BY <1>3 DEF Occurrences

\* What an edit puts in the place of each token.
LEMMA ReplacedCounts ==
    ASSUME NEW text \in Seq(Tokens), NEW old, NEW new \in Seq(Tokens)
    PROVE  /\ Replaced(text, old, new) \in Seq(Tokens)
           /\ \A t : t # old /\ t \notin Range(new) => Occurrences(Replaced(text, old, new), t) = Occurrences(text, t)
<1> DEFINE N == Len(text)
           Piece(i) == IF text[i] = old THEN new ELSE <<text[i]>>
           pieces == [i \in DOMAIN text |-> Piece(i)]
<1>1. N \in Nat /\ DOMAIN text = 1 .. N /\ \A i \in 1 .. N : text[i] \in Tokens
  OBVIOUS
<1>2. \A i \in 1 .. N : Piece(i) \in Seq(Tokens)
  <2>1. ASSUME NEW c \in Tokens  PROVE <<c>> \in Seq(Tokens)
    OBVIOUS
  <2> QED  BY <1>1, <2>1, Zenon
<1>3. pieces \in Seq(Seq(Tokens)) /\ Len(pieces) = N
  <2>1. pieces \in [1 .. N -> Seq(Tokens)]
    <3> HIDE DEF Piece, N
    <3> QED  BY <1>1, <1>2
  <2> HIDE DEF pieces, N
  <2> QED  BY <1>1, <2>1, Listed
<1>4. \A i \in 1 .. N : pieces[i] = Piece(i)
  BY <1>1
<1> HIDE DEF pieces
<1>5. PICK f \in [0 .. N -> Seq(Tokens)] : IsPrefixes(f, pieces)
  BY <1>3, Flattened, Zenon
<1>6. /\ f[0] = <<>> /\ \A n \in 1 .. N : f[n] = f[n - 1] \o pieces[n]
      /\ Replaced(text, old, new) = f[N]
  BY <1>3, <1>5 DEF IsPrefixes, Replaced, pieces
<1>7. ASSUME NEW t, t # old, t \notin Range(new)
      PROVE  Occurrences(f[N], t) = Occurrences(text, t)
  <2> DEFINE S == {n \in Nat : n <= N => Occurrences(f[n], t) = SeenUpto(text, t, n)}
  <2>1. 0 \in S
    <3>1. Occurrences(<<>>, t) = Cardinality({}) /\ SeenUpto(text, t, 0) = Cardinality({})
      BY DEF Occurrences, SeenUpto
    <3> QED  BY <1>6, <3>1
  <2>2. ASSUME NEW n \in 1 .. N, n - 1 \in S  PROVE n \in S
    <3>1. n \in Nat \ {0} /\ n - 1 \in 0 .. N /\ n - 1 <= N
      BY <1>1
    <3>2. f[n - 1] \in Seq(Tokens) /\ Occurrences(f[n - 1], t) = SeenUpto(text, t, n - 1)
      BY <2>2, <3>1
    <3>3. f[n] = f[n - 1] \o Piece(n)
      BY <1>4, <1>6
    <3>4. SeenUpto(text, t, n) = SeenUpto(text, t, n - 1) + (IF text[n] = t THEN 1 ELSE 0)
      BY <3>1, OneFurther
    <3>5. CASE text[n] = old
      <4>1. Occurrences(f[n], t) = Occurrences(f[n - 1], t)
        BY <1>7, <3>2, <3>3, <3>5, AppendedText
      <4>2. Occurrences(f[n - 1], t) \in Nat
        BY <3>2, OccurrencesUpto
      <4> QED  BY <1>7, <3>1, <3>2, <3>4, <3>5, <4>1, <4>2
    <3>6. CASE text[n] # old
      <4>1. f[n] = f[n - 1] \o <<text[n]>> /\ text[n] \in Tokens
        BY <1>1, <3>3, <3>6
      <4>2. Occurrences(f[n], t) = Occurrences(f[n - 1], t) + (IF text[n] = t THEN 1 ELSE 0)
        BY <3>2, <4>1, AppendedToken
      <4> QED  BY <3>1, <3>2, <3>4, <4>2
    <3> QED  BY <3>5, <3>6
  <2>3. N \in S
    <3> HIDE DEF S, N
    <3> QED  BY <1>1, <2>1, <2>2, Climb
  <2>4. Occurrences(f[N], t) = SeenUpto(text, t, N)
    BY <1>1, <2>3
  <2>5. Occurrences(text, t) = SeenUpto(text, t, N)
    BY OccurrencesUpto
  <2> QED  BY <2>4, <2>5
<1> QED  BY <1>1, <1>6, <1>7

LEMMA DecodedCounts ==
    ASSUME NEW text \in Seq(Tokens), NEW t \in {"x", "y"}
    PROVE  Decoded(text) \in Seq(Tokens) /\ Occurrences(Decoded(text), t) = Occurrences(text, t)
<1>1. DOMAIN text = 1 .. Len(text) /\ Len(text) \in Nat /\ \A i \in DOMAIN text : text[i] \in Tokens
  OBVIOUS
<1>2. DOMAIN Decoded(text) = DOMAIN text
      /\ \A i \in DOMAIN text : Decoded(text)[i] = IF text[i] = "bad" THEN "sub" ELSE text[i]
  BY DEF Decoded
<1>3. Decoded(text) \in [1 .. Len(text) -> Tokens]
  BY <1>1 DEF Decoded, Tokens
<1>4. {i \in DOMAIN Decoded(text) : Decoded(text)[i] = t} = {i \in DOMAIN text : text[i] = t}
  BY <1>2
<1> QED  BY <1>1, <1>3, <1>4, Listed DEF Occurrences

----------------------------------------------------------------------------

LEMMA AnswerIsReply ==
    ASSUME NEW result \in {"ok", "error", "raised"}, Answer(result)
    PROVE  reply' \in {"none", "ok", "error", "raised"}
BY DEF Answer

\* The noted paths stay without a repetition.
LEMMA NotedOnce ==
    ASSUME NEW p \in WorkFiles, writtenPaths \in Seq(WorkFiles), IsInjective(writtenPaths), Noted(p)
    PROVE  writtenPaths' \in Seq(WorkFiles) /\ IsInjective(writtenPaths')
<1>1. CASE p \in Range(writtenPaths)
  BY <1>1 DEF Noted
<1>2. CASE p \notin Range(writtenPaths)
  <2>1. writtenPaths' = Append(writtenPaths, p)
    BY <1>2 DEF Noted
  <2>2. \A i \in DOMAIN writtenPaths : writtenPaths[i] # p
    BY <1>2 DEF Range
  <2>3. \A i, j \in DOMAIN writtenPaths : writtenPaths[i] = writtenPaths[j] => i = j
    BY DEF IsInjective
  <2>4. writtenPaths' \in Seq(WorkFiles) /\ Len(writtenPaths') = Len(writtenPaths) + 1
        /\ Len(writtenPaths) \in Nat /\ writtenPaths'[Len(writtenPaths) + 1] = p
        /\ DOMAIN writtenPaths = 1 .. Len(writtenPaths) /\ DOMAIN writtenPaths' = 1 .. Len(writtenPaths) + 1
        /\ \A i \in 1 .. Len(writtenPaths) : writtenPaths'[i] = writtenPaths[i]
    BY <2>1
  <2>5. \A i, j \in DOMAIN writtenPaths' : writtenPaths'[i] = writtenPaths'[j] => i = j
    BY <2>2, <2>3, <2>4
  <2> QED  BY <2>4, <2>5 DEF IsInjective
<1> QED  BY <1>1, <1>2

\* What may be edited was read whole, so the edit replaces in the whole file.
LEMMA EditedWhole ==
    ASSUME ToolsTypeOK, NEW p \in WorkFiles, Editable(p)
    PROVE  contents[p] \in Seq(Tokens) /\ ReadForEdit(p) = contents[p]
<1>1. contents[p] \in Seq(Tokens)
  BY DEF ToolsTypeOK, Editable, IsFile
<1>2. ByteCap \in Nat /\ Len(contents[p]) \in Nat
  BY <1>1, ByteCapAssumption
<1>3. CASE Len(contents[p]) > ByteCap
  <2>1. ReadForEdit(p) = SubSeq(contents[p], 1, ByteCap + 1)
    BY <1>3 DEF ReadForEdit
  <2>2. Len(SubSeq(contents[p], 1, ByteCap + 1)) = ByteCap + 1
    BY <1>1, <1>2, <1>3
  <2> QED  BY <1>2, <2>1, <2>2 DEF Editable
<1>4. CASE ~(Len(contents[p]) > ByteCap)
  <2>1. ReadForEdit(p) = SubSeq(contents[p], 1, Len(contents[p]))
    BY <1>4 DEF ReadForEdit
  <2> QED  BY <1>1, <1>2, <2>1
<1> QED  BY <1>3, <1>4

\* An edit that answers "ok" changed the one file it names, and in it the tokens
\* it was asked to change.
LEMMA EditDone ==
    ASSUME ToolsTypeOK, NEW p \in WorkFiles, NEW old \in {"x", "y", "sub"}, NEW new \in Texts,
           NEW replaceAll \in BOOLEAN, FileEdit(p, old, new, replaceAll), reply' = "ok"
    PROVE  /\ Editable(p) /\ Noted(p) /\ UNCHANGED <<grounded, contract>>
           /\ contents' = [contents EXCEPT ![p] = Replaced(Decoded(contents[p]), old, new)]
           /\ Replaced(Decoded(contents[p]), old, new) \in Seq(Tokens)
<1> DEFINE text == Decoded(ReadForEdit(p))
           count == IF Editable(p) THEN Occurrences(text, old) ELSE 0
           updated == Replaced(text, old, new)
           done == /\ new # <<old>> /\ p \in grounded
                   /\ count = 1 \/ (count > 1 /\ replaceAll)
                   /\ Len(updated) <= ByteCap
<1>1. /\ \/ done /\ contents' = [contents EXCEPT ![p] = updated] /\ Noted(p)
         \/ ~done /\ Answer("error")
      /\ UNCHANGED <<grounded, contract>>
  BY Zenon DEF FileEdit
<1>2. done /\ contents' = [contents EXCEPT ![p] = updated] /\ Noted(p)
  BY <1>1 DEF Answer
<1>3. Editable(p)
  BY <1>2
<1>4. contents[p] \in Seq(Tokens) /\ ReadForEdit(p) = contents[p]
  BY <1>3, EditedWhole
<1>5. updated = Replaced(Decoded(contents[p]), old, new)
  BY <1>4
<1>6. Decoded(contents[p]) \in Seq(Tokens)
  BY <1>4, DecodedCounts
<1>7. new \in Seq(Tokens)
  BY ContentsAssumption
<1> QED  BY <1>1, <1>2, <1>3, <1>5, <1>6, <1>7, ReplacedCounts

LEMMA ToolsTypesInit == ToolsInit => ToolsTypeOK
<1> SUFFICES ASSUME ToolsInit  PROVE ToolsTypeOK
  OBVIOUS
<1>1. contents \in [WorkFiles -> Seq(Tokens) \cup {Missing, Directory}]
  BY ContentsAssumption DEF ToolsInit
<1>2. writtenPaths \in Seq(WorkFiles) /\ IsInjective(writtenPaths)
  BY DEF ToolsInit, IsInjective
<1>3. contract \in Seq({"command", "judge"})
  BY DEF ToolsInit
<1> QED  BY <1>1, <1>2, <1>3 DEF ToolsTypeOK, ToolsInit

LEMMA ToolsTypesStep == ToolsTypeOK /\ [ToolsNext]_toolVars => ToolsTypeOK'
<1> SUFFICES ASSUME ToolsTypeOK, [ToolsNext]_toolVars  PROVE ToolsTypeOK'
  OBVIOUS
<1> DEFINE Kinds == Seq(Tokens) \cup {Missing, Directory}
<1>0. /\ contents \in [WorkFiles -> Kinds] /\ grounded \subseteq WorkFiles
      /\ writtenPaths \in Seq(WorkFiles) /\ IsInjective(writtenPaths)
      /\ contract \in Seq({"command", "judge"}) /\ reply \in {"none", "ok", "error", "raised"}
  BY DEF ToolsTypeOK
<1>01. ToolsTypeOK' =
         /\ contents' \in [WorkFiles -> Kinds] /\ grounded' \subseteq WorkFiles
         /\ writtenPaths' \in Seq(WorkFiles) /\ IsInjective(writtenPaths')
         /\ contract' \in Seq({"command", "judge"}) /\ reply' \in {"none", "ok", "error", "raised"}
  BY DEF ToolsTypeOK
<1>02. ShellContents \subseteq Kinds /\ Texts \subseteq Kinds /\ Missing \in Kinds /\ Seq(Tokens) \subseteq Kinds
  BY ContentsAssumption
<1> HIDE DEF Kinds
<1>1. ASSUME NEW p \in WorkFiles, FileRead(p)  PROVE ToolsTypeOK'
  <2>1. grounded' \subseteq WorkFiles
    BY <1>0, <1>1 DEF FileRead
  <2>2. reply' \in {"none", "ok", "error", "raised"}
    BY <1>1, AnswerIsReply DEF FileRead
  <2> QED  BY <1>0, <1>01, <1>1, <2>1, <2>2 DEF FileRead
<1>2. ASSUME NEW p \in WorkFiles, NEW text \in Texts, FileWrite(p, text)  PROVE ToolsTypeOK'
  <2>1. CASE /\ contents' = [contents EXCEPT ![p] = text]
             /\ grounded' = grounded \cup {p} /\ Noted(p) /\ Answer("ok")
    <3>1. contents' \in [WorkFiles -> Kinds]
      BY <1>0, <1>02, <2>1
    <3>2. writtenPaths' \in Seq(WorkFiles) /\ IsInjective(writtenPaths')
      BY <1>0, <2>1, NotedOnce
    <3>3. reply' \in {"none", "ok", "error", "raised"}
      BY <2>1, AnswerIsReply
    <3> QED  BY <1>0, <1>01, <1>2, <2>1, <3>1, <3>2, <3>3 DEF FileWrite
  <2>2. CASE \E r \in {"error", "raised"} : Answer(r) /\ UNCHANGED <<contents, grounded, writtenPaths>>
    <3>1. reply' \in {"none", "ok", "error", "raised"}
      BY <2>2, AnswerIsReply
    <3> QED  BY <1>0, <1>01, <1>2, <2>2, <3>1 DEF FileWrite
  <2> QED  BY <1>2, <2>1, <2>2 DEF FileWrite
<1>3. ASSUME NEW p \in WorkFiles, NEW old \in {"x", "y", "sub"}, NEW new \in Texts,
             NEW replaceAll \in BOOLEAN, FileEdit(p, old, new, replaceAll)
      PROVE  ToolsTypeOK'
  <2>1. CASE reply' = "ok"
    <3>1. /\ Noted(p) /\ UNCHANGED <<grounded, contract>>
          /\ contents' = [contents EXCEPT ![p] = Replaced(Decoded(contents[p]), old, new)]
          /\ Replaced(Decoded(contents[p]), old, new) \in Seq(Tokens)
      BY <1>3, <2>1, EditDone
    <3>2. contents' \in [WorkFiles -> Kinds]
      BY <1>0, <1>02, <3>1
    <3>3. writtenPaths' \in Seq(WorkFiles) /\ IsInjective(writtenPaths')
      BY <1>0, <3>1, NotedOnce
    <3> QED  BY <1>0, <1>01, <2>1, <3>1, <3>2, <3>3
  <2>2. CASE reply' # "ok"
    <3>1. Answer("error") /\ UNCHANGED <<contents, writtenPaths, grounded, contract>>
      BY <1>3, <2>2 DEF FileEdit, Answer
    <3>2. reply' = "error"
      BY <3>1 DEF Answer
    <3> QED  BY <1>0, <1>01, <3>1, <3>2
  <2> QED  BY <2>1, <2>2
<1>4. ASSUME NEW p \in WorkFiles, NEW content \in ShellContents \cup {Missing}, ShellExec(p, content)
      PROVE  ToolsTypeOK'
  <2>1. contents' \in [WorkFiles -> Kinds]
    BY <1>0, <1>02, <1>4 DEF ShellExec
  <2>2. reply' \in {"none", "ok", "error", "raised"}
    BY <1>4, AnswerIsReply DEF ShellExec
  <2> QED  BY <1>0, <1>01, <1>4, <2>1, <2>2 DEF ShellExec
<1>5. ASSUME NEW raw \in RawContracts, DeclareVerification(raw)  PROVE ToolsTypeOK'
  <2>1. ParseVerificationContract(raw) \in Seq({"command", "judge"})
    BY RawContractsAssumption, ContractIsUsable
  <2>2. contract' = contract \/ contract' = ParseVerificationContract(raw)
    BY <1>5 DEF DeclareVerification
  <2>3. \E r \in {"ok", "error"} : Answer(r)
    BY <1>5 DEF DeclareVerification
  <2>4. reply' \in {"none", "ok", "error", "raised"}
    BY <2>3, AnswerIsReply
  <2>5. UNCHANGED <<contents, grounded, writtenPaths>>
    BY <1>5 DEF DeclareVerification
  <2> QED  BY <1>0, <1>01, <2>1, <2>2, <2>4, <2>5
<1>6. CASE UNCHANGED toolVars
  BY <1>0, <1>01, <1>6 DEF toolVars
<1> QED  BY <1>1, <1>2, <1>3, <1>4, <1>5, <1>6 DEF ToolsNext

\* The types of the tools' state: the files are texts, the noted paths are
\* different ones and a declared contract holds only usable checks.
THEOREM ToolsTypeCorrect == ToolsSpec => []ToolsTypeOK
BY ToolsTypesInit, ToolsTypesStep, PTL DEF ToolsSpec

\* One edit, on a state of the right type.
LEMMA EditStep ==
    ASSUME ToolsTypeOK, NEW p \in WorkFiles, NEW old \in {"x", "y", "sub"}, NEW new \in Texts,
           NEW replaceAll \in BOOLEAN, FileEdit(p, old, new, replaceAll), reply' = "ok"
    PROVE  /\ \A t \in {"x", "y"} \ ({old} \cup Range(new)) :
                 Occurrences(contents'[p], t) = Occurrences(contents[p], t)
           /\ \A q \in WorkFiles \ {p} : contents'[q] = contents[q]
<1>1. /\ Editable(p)
      /\ contents' = [contents EXCEPT ![p] = Replaced(Decoded(contents[p]), old, new)]
  BY EditDone
<1>2. contents[p] \in Seq(Tokens)
  BY <1>1, EditedWhole
<1>3. contents \in [WorkFiles -> Seq(Tokens) \cup {Missing, Directory}]
  BY DEF ToolsTypeOK
<1>4. contents'[p] = Replaced(Decoded(contents[p]), old, new)
      /\ \A q \in WorkFiles \ {p} : contents'[q] = contents[q]
  BY <1>1, <1>3
<1>5. ASSUME NEW t \in {"x", "y"} \ ({old} \cup Range(new))
      PROVE  Occurrences(contents'[p], t) = Occurrences(contents[p], t)
  <2>1. Decoded(contents[p]) \in Seq(Tokens)
        /\ Occurrences(Decoded(contents[p]), t) = Occurrences(contents[p], t)
    BY <1>2, DecodedCounts
  <2>2. new \in Seq(Tokens) /\ t # old /\ t \notin Range(new)
    BY ContentsAssumption
  <2>3. Occurrences(Replaced(Decoded(contents[p]), old, new), t) = Occurrences(Decoded(contents[p]), t)
    BY <2>1, <2>2, ReplacedCounts
  <2> QED  BY <1>4, <2>1, <2>3
<1> QED  BY <1>4, <1>5

\* file_edit (core/tools/__init__.py: _file_edit) leaves every other token of the
\* file as often there as before and every other file as it was, for any files,
\* texts and byte cap.
THEOREM EditIsLocal == ToolsSpec => EditTouchesOnlyItsTarget
<1>1. ToolsTypeOK /\ [ToolsNext]_toolVars
      => [\A p \in WorkFiles, old \in {"x", "y", "sub"}, new \in Texts, replaceAll \in BOOLEAN :
            (FileEdit(p, old, new, replaceAll) /\ reply' = "ok")
            => /\ \A t \in {"x", "y"} \ ({old} \cup Range(new)) :
                     Occurrences(contents'[p], t) = Occurrences(contents[p], t)
               /\ \A q \in WorkFiles \ {p} : contents'[q] = contents[q]]_toolVars
  BY EditStep, ZenonT(40)
<1> QED  BY <1>1, ToolsTypeCorrect, PTL DEF ToolsSpec, EditTouchesOnlyItsTarget

----------------------------------------------------------------------------
(* Verification: what a verdict rests on.                                  *)

\* What may have failed the i-th aspect.
Blame(i) ==
    \/ Unsound(i)
    \/ specs[i] = "llm_judge" /\ JudgeNoise # {}
    \/ "timeout" \in weather /\ specs[i] # "llm_judge"
    \/ mode = "host" /\ "missing" \in weather
    \/ Starved
    \/ mode = "sandbox" /\ specs[i] = "code_install_smoke"

Justified(i, s) ==
    /\ s \in AspectStatuses
    /\ s = "passed" => ~Unsound(i)
    /\ s = "failed" => Blame(i)

Justifies(sts) ==
    /\ DOMAIN sts = DOMAIN specs
    /\ \A i \in DOMAIN specs : Justified(i, sts[i])

CallShape ==
    /\ mode \in {"host", "sandbox"}
    /\ weather \subseteq {"timeout", "missing", "raised"}
    /\ call \in [kind : {"none", "probe", "run"}, at : {"idle", "deps", "venv", "aspects"},
                 next : Nat \ {0}]
    /\ call.at # "idle" => call.kind # "none"
    /\ call.at = "deps" => call.kind = "run"
    /\ statuses \in [DOMAIN statuses -> AspectStatuses]

\* The call in progress is about the aspects of the workspace.
CallIsJustified ==
    call.kind # "none" =>
        /\ specs = Specs(workspace)
        /\ Justifies(statuses)
        /\ call.at = "deps" => \A i \in DOMAIN specs : statuses[i] = "queued"

Settled == proof \in {"verified", "verification_failed"} /\ call.kind # "run"

SettledByVerdicts ==
    Settled =>
        /\ specs = Specs(workspace)
        /\ Justifies(verdicts)
        /\ proof = FinalProofState(verdicts)

VerdictInv == CallShape /\ CallIsJustified /\ SettledByVerdicts

----------------------------------------------------------------------------

LEMMA ReplyIsJustified ==
    ASSUME CallShape, NEW i, NEW s \in RunLlmJudge(i), specs[i] = "llm_judge"
    PROVE  Justified(i, s)
<1>1. CASE s \in {"skipped", "error"}
  BY <1>1 DEF Justified, AspectStatuses
<1>2. ASSUME NEW answer \in Replies(i), s = JudgeCriteria(answer, 2)
      PROVE  Justified(i, s)
  <2>1. s \in {"error", "failed", "passed"}
    BY <1>2 DEF JudgeCriteria
  <2>2. ASSUME s = "passed", Unsound(i)  PROVE FALSE
    <3>1. Len(answer) = 2 /\ \A k \in DOMAIN answer : answer[k] # "fail"
      BY <1>2, <2>2 DEF JudgeCriteria
    <3>2. i \in broken
      BY <2>2 DEF Unsound
    <3>3. CASE answer = <<"pass", "fail">>
      <4>1. 2 \in DOMAIN answer /\ answer[2] = "fail"
        BY <3>3
      <4> QED  BY <3>1, <4>1
    <3>4. CASE answer \in JudgeNoise
      BY <3>1, <3>4, JudgeAssumption
    <3> QED  BY <1>2, <3>2, <3>3, <3>4 DEF Replies
  <2>3. ASSUME s = "failed"  PROVE Blame(i)
    <3>1. \E k \in DOMAIN answer : answer[k] = "fail"
      BY <1>2, <2>3 DEF JudgeCriteria
    <3>2. answer # <<"pass", "pass">>
      BY <3>1
    <3>3. i \in broken \/ answer \in JudgeNoise
      BY <1>2, <3>2 DEF Replies
    <3> QED  BY <3>3 DEF Blame, Unsound
  <2> QED  BY <2>1, <2>2, <2>3 DEF Justified, AspectStatuses
<1> QED  BY <1>1, <1>2 DEF RunLlmJudge

\* How the commands of an aspect end, and why.
LEMMA ExitsExplained ==
    ASSUME CallShape, NEW i, NEW x \in Exits(i)
    PROVE  /\ x \in {"ok", "nonzero", "timeout", "missing", "raised"}
           /\ x = "ok" => ~Unsound(i)
           /\ x = "nonzero" => Unsound(i) \/ Starved
           /\ x \in {"timeout", "missing", "raised"} => x \in weather
BY DEF Exits, CallShape

LEMMA AspectIsJustified ==
    ASSUME CallShape, NEW i, NEW s \in RunOneAspect(i)
    PROVE  Justified(i, s)
<1> USE DEF AspectStatuses
<1>1. CASE specs[i] = "llm_judge"
  BY <1>1, ReplyIsJustified DEF RunOneAspect
<1>2. CASE specs[i] # "llm_judge" /\ mode = "sandbox"
  <2>1. PICK x \in SandboxExits(i) : s = RunAspectInSandbox(x)
    BY <1>2 DEF RunOneAspect
  <2>2. CASE specs[i] = "code_install_smoke"
    <3>1. x \in {"nonzero", "timeout", "missing", "raised"}
      BY <2>1, <2>2 DEF SandboxExits, CallShape
    <3>2. s \in {"skipped", "error", "failed"}
      BY <2>1, <3>1 DEF RunAspectInSandbox
    <3> QED  BY <1>2, <2>2, <3>2 DEF Justified, Blame
  <2>3. CASE specs[i] = "code_build"
    <3>1. s = "skipped"
      BY <2>1, <2>3 DEF SandboxExits, RunAspectInSandbox
    <3> QED  BY <3>1 DEF Justified
  <2>4. CASE specs[i] \notin {"code_install_smoke", "code_build"}
    <3>1. x \in Exits(i)
      BY <2>1, <2>4 DEF SandboxExits
    <3>2. /\ s = "passed" => x = "ok"
          /\ s = "failed" => x \in {"nonzero", "timeout"}
          /\ s \in {"passed", "skipped", "error", "failed"}
      BY <2>1, <3>1, ExitsExplained DEF RunAspectInSandbox
    <3> QED  BY <1>2, <3>1, <3>2, ExitsExplained DEF Justified, Blame
  <2> QED  BY <2>2, <2>3, <2>4
<1>3. CASE specs[i] # "llm_judge" /\ mode = "host"
  <2>1. s \in RunOnHost(i)
    BY <1>3 DEF RunOneAspect
  <2>2. CASE s \in {"error", "skipped"}
    BY <2>2 DEF Justified
  <2>3. CASE s \notin {"error", "skipped"}
    <3>1. PICK x \in Exits(i) : s \in {RunInstallSmoke(x), RunDockerBuild(x), RunDefaultAspect(x)}
      BY <2>1, <2>3 DEF RunOnHost
    <3>2. /\ s = "passed" => x = "ok"
          /\ s = "failed" => x \in {"nonzero", "timeout", "missing"}
          /\ s \in {"passed", "failed"}
      BY <2>3, <3>1, ExitsExplained DEF RunInstallSmoke, RunDockerBuild, RunDefaultAspect
    <3> QED  BY <1>3, <3>1, <3>2, ExitsExplained DEF Justified, Blame
  <2> QED  BY <2>2, <2>3
<1> QED  BY <1>1, <1>2, <1>3 DEF CallShape

----------------------------------------------------------------------------

LEMMA VerificationInitInv == VerificationInit => VerdictInv
BY EnvironmentAssumption
DEF VerificationInit, VerdictInv, CallShape, CallIsJustified, SettledByVerdicts, Settled, NoCall

\* A call that begins: every aspect of the workspace is queued.
LEMMA BeginInv ==
    ASSUME VerdictInv, BeginProbe \/ BeginVerification
    PROVE  VerdictInv'
<1>1. /\ specs' = Specs(workspace) /\ statuses' = [i \in DOMAIN Specs(workspace) |-> "queued"]
      /\ UNCHANGED <<workspace, broken, mode, weather, verdicts, deps>>
      /\ call.kind = "none"
  BY DEF BeginProbe, BeginVerification, Begin, inputs, NoCall
<1>2. \A i \in DOMAIN specs' : statuses'[i] = "queued"
  BY <1>1
<1>3. Justifies(statuses)'
  BY <1>1 DEF Justifies, Justified, AspectStatuses
<1>4. statuses' \in [DOMAIN statuses' -> AspectStatuses]
  BY <1>1 DEF AspectStatuses
<1>5. CASE BeginProbe
  <2>1. call' = [kind |-> "probe", at |-> "venv", next |-> 1] /\ proof' = proof
    BY <1>5 DEF BeginProbe
  <2>2. CallShape' /\ CallIsJustified'
    BY <1>1, <1>3, <1>4, <2>1 DEF VerdictInv, CallShape, CallIsJustified
  <2>3. SettledByVerdicts'
    <3> SUFFICES ASSUME Settled'  PROVE /\ specs' = Specs(workspace)'
                                        /\ Justifies(verdicts)' /\ proof' = FinalProofState(verdicts)'
      BY DEF SettledByVerdicts
    <3>1. Settled
      BY <1>1, <2>1 DEF Settled
    <3>2. specs = Specs(workspace) /\ Justifies(verdicts) /\ proof = FinalProofState(verdicts)
      BY <3>1 DEF VerdictInv, SettledByVerdicts
    <3>3. UNCHANGED <<specs, workspace, broken, mode, weather, deps, verdicts, proof>>
      BY <3>2, <1>1, <2>1
    <3> QED
      BY <3>2, <3>3
      DEF Justifies, Justified, Blame, Unsound, Starved, FinalProofState, JudgeCap
  <2> QED  BY <2>2, <2>3 DEF VerdictInv
<1>6. CASE BeginVerification
  <2>1. \/ proof' = "human_review_required" /\ call' = NoCall
        \/ /\ call' \in [kind : {"run"}, at : {"deps", "venv"}, next : {1}]
    BY <1>6 DEF BeginVerification
  <2>2. CallShape' /\ CallIsJustified'
    BY <1>1, <1>2, <1>3, <1>4, <2>1 DEF VerdictInv, CallShape, CallIsJustified, NoCall
  <2>3. SettledByVerdicts'
    BY <2>1 DEF SettledByVerdicts, Settled
  <2> QED  BY <2>2, <2>3 DEF VerdictInv
<1> QED  BY <1>5, <1>6

\* A step within a call that leaves the dependencies and the verdict alone.
LEMMA WithinCall ==
    ASSUME VerdictInv, call.kind # "none", call'.kind = call.kind, CallShape', call'.at # "deps",
           UNCHANGED <<workspace, broken, mode, weather, specs, deps, verdicts, proof>>,
           Justifies(statuses)'
    PROVE  VerdictInv'
<1>1. CallIsJustified'
  BY DEF VerdictInv, CallIsJustified
<1>2. SettledByVerdicts'
  BY DEF VerdictInv, SettledByVerdicts, Settled, Justifies, Justified, Blame, Unsound, Starved,
         FinalProofState, JudgeCap
<1> QED  BY <1>1, <1>2 DEF VerdictInv

LEMMA InCallInv ==
    ASSUME VerdictInv, InCall
    PROVE  VerdictInv'
<1>1. CASE EnsureRepoDependencies
  <2>1. /\ call.at = "deps" /\ call.kind = "run" /\ call' = [call EXCEPT !.at = "venv"]
        /\ specs = Specs(workspace) /\ Justifies(statuses)
        /\ \A i \in DOMAIN specs : statuses[i] = "queued"
        /\ UNCHANGED <<workspace, broken, mode, weather, specs, statuses>>
    BY <1>1 DEF EnsureRepoDependencies, inputs, VerdictInv, CallShape, CallIsJustified
  <2>2. CallShape'
    BY <2>1 DEF VerdictInv, CallShape
  <2>3. CallIsJustified'
    BY <2>1 DEF VerdictInv, CallShape, CallIsJustified, Justifies, Justified, AspectStatuses
  <2>4. SettledByVerdicts'
    BY <2>1 DEF VerdictInv, CallShape, SettledByVerdicts, Settled
  <2> QED  BY <2>2, <2>3, <2>4 DEF VerdictInv
<1>2. CASE BuildAspectVenv
  <2>1. /\ call.kind # "none" /\ call' = [call EXCEPT !.at = "aspects"]
        /\ UNCHANGED <<workspace, broken, mode, weather, specs, statuses, deps, verdicts, proof>>
        /\ Justifies(statuses)
    BY <1>2 DEF BuildAspectVenv, inputs, VerdictInv, CallShape, CallIsJustified
  <2>2. CallShape' /\ call'.kind = call.kind /\ call'.at # "deps"
    BY <2>1 DEF VerdictInv, CallShape
  <2>3. Justifies(statuses)'
    BY <2>1 DEF Justifies, Justified, Blame, Unsound, Starved
  <2> QED  BY <2>1, <2>2, <2>3, WithinCall
<1>3. CASE StartAspect \/ EndAspect
  <2>1. /\ call.kind # "none" /\ call.at = "aspects" /\ call.next \in DOMAIN specs
        /\ call' \in {call, [call EXCEPT !.next = call.next + 1]}
        /\ UNCHANGED <<workspace, broken, mode, weather, specs, deps, verdicts, proof>>
        /\ Justifies(statuses)
    BY <1>3 DEF StartAspect, EndAspect, inputs, VerdictInv, CallShape, CallIsJustified
  <2>2. PICK s : statuses' = [statuses EXCEPT ![call.next] = s] /\ Justified(call.next, s)
    <3>1. CASE StartAspect
      <4>1. Justified(call.next, "running")
        BY DEF Justified, AspectStatuses
      <4> QED  BY <3>1, <4>1 DEF StartAspect
    <3>2. CASE EndAspect
      BY <3>2, AspectIsJustified DEF EndAspect, VerdictInv
    <3> QED  BY <1>3, <3>1, <3>2
  <2>3. CallShape' /\ call'.kind = call.kind /\ call'.at # "deps"
    <3>1. statuses' \in [DOMAIN statuses' -> AspectStatuses]
      BY <2>2 DEF VerdictInv, CallShape, Justified
    <3>2. /\ call' \in [kind : {"none", "probe", "run"}, at : {"idle", "deps", "venv", "aspects"},
                       next : Nat \ {0}]
          /\ call'.kind = call.kind /\ call'.at = "aspects"
      BY <2>1 DEF VerdictInv, CallShape
    <3> QED  BY <3>1, <3>2, <2>1 DEF VerdictInv, CallShape
  <2>4. /\ DOMAIN statuses' = DOMAIN specs
        /\ \A i \in DOMAIN specs : Justified(i, statuses'[i])
    <3>1. statuses \in [DOMAIN specs -> AspectStatuses]
      BY <2>1 DEF VerdictInv, CallShape, Justifies
    <3> QED  BY <2>1, <2>2, <3>1 DEF Justifies
  <2>5. Justifies(statuses)'
    BY <2>1, <2>4 DEF Justifies, Justified, Blame, Unsound, Starved
  <2> QED  BY <2>1, <2>3, <2>5, WithinCall
<1>4. CASE EndProbe
  <2>1. /\ call.kind = "probe" /\ call' = NoCall
        /\ UNCHANGED <<workspace, broken, mode, weather, specs, statuses, deps, verdicts, proof>>
    BY <1>4 DEF EndProbe, inputs
  <2>2. CallShape' /\ CallIsJustified'
    BY <2>1 DEF VerdictInv, CallShape, CallIsJustified, NoCall
  <2>3. SettledByVerdicts'
    BY <2>1 DEF VerdictInv, SettledByVerdicts, Settled, NoCall, Justifies, Justified, Blame, Unsound,
                Starved, FinalProofState, JudgeCap
  <2> QED  BY <2>2, <2>3 DEF VerdictInv
<1>5. CASE EndVerification
  <2>1. /\ call.kind = "run" /\ call' = NoCall
        /\ proof' = FinalProofState(statuses) /\ verdicts' = statuses
        /\ UNCHANGED <<workspace, broken, mode, weather, specs, statuses, deps>>
        /\ specs = Specs(workspace) /\ Justifies(statuses)
    BY <1>5 DEF EndVerification, inputs, VerdictInv, CallIsJustified
  <2>2. CallShape' /\ CallIsJustified'
    BY <2>1 DEF VerdictInv, CallShape, CallIsJustified, NoCall
  <2>3. Justifies(verdicts)'
    BY <2>1 DEF Justifies, Justified, Blame, Unsound, Starved
  <2>4. proof' = FinalProofState(verdicts)'
    BY <2>1 DEF FinalProofState, JudgeCap
  <2> QED  BY <2>1, <2>2, <2>3, <2>4 DEF VerdictInv, SettledByVerdicts
<1> QED  BY <1>1, <1>2, <1>3, <1>4, <1>5 DEF InCall

LEMMA VerificationStepInv ==
    VerdictInv /\ [VerificationNext]_verificationVars => VerdictInv'
<1> SUFFICES ASSUME VerdictInv, [VerificationNext]_verificationVars  PROVE VerdictInv'
  OBVIOUS
<1>1. CASE VerificationNext
  BY <1>1, BeginInv, InCallInv DEF VerificationNext
<1>2. CASE UNCHANGED verificationVars
  BY <1>2 DEF verificationVars, VerdictInv, CallShape, CallIsJustified, SettledByVerdicts, Settled,
              Justifies, Justified, Blame, Unsound, Starved, FinalProofState, JudgeCap
<1> QED  BY <1>1, <1>2

LEMMA VerificationInvariant == VerificationSpec => []VerdictInv
BY VerificationInitInv, VerificationStepInv, PTL DEF VerificationSpec

----------------------------------------------------------------------------

\* What the roll-up says of the statuses.
LEMMA RollupRead ==
    ASSUME NEW sts
    PROVE  /\ FinalProofState(sts) = "verified" =>
                /\ \A i \in DOMAIN sts : sts[i] \notin {"error", "failed", "queued", "running"}
                /\ \E i \in DOMAIN sts : sts[i] = "passed"
                /\ ~JudgeCap(sts)
           /\ FinalProofState(sts) = "verification_failed" =>
                \E i \in DOMAIN sts : sts[i] = "failed"
BY DEF FinalProofState, RollupProofState

\* run_verification never stamps `verified` on work that fails a check it ran
\* (core/verification.py: rollup_proof_state and the judge's cap).
THEOREM VerifiedIsTrue == VerificationSpec => []VerifiedIsProven
<1>1. VerdictInv => VerifiedIsProven
  <2> SUFFICES ASSUME VerdictInv, Verified
               PROVE  /\ \A i \in DOMAIN specs :
                            Unsound(i) => verdicts[i] = "skipped" /\ specs[i] # "llm_judge"
                      /\ \E i \in DOMAIN specs : verdicts[i] = "passed"
    BY DEF VerifiedIsProven
  <2>1. Justifies(verdicts) /\ FinalProofState(verdicts) = "verified"
    BY DEF VerdictInv, SettledByVerdicts, Settled, Verified
  <2>2. /\ \A i \in DOMAIN specs : verdicts[i] \in {"passed", "skipped"}
        /\ \E i \in DOMAIN specs : verdicts[i] = "passed"
        /\ ~JudgeCap(verdicts)
    BY <2>1, RollupRead DEF Justifies, Justified, AspectStatuses
  <2> QED  BY <2>1, <2>2 DEF Justifies, Justified, JudgeCap
<1> QED  BY <1>1, VerificationInvariant, PTL

\* run_verification fails no work without a failed aspect that the work, a
\* time-out, a missing tool or missing dependencies explain.
THEOREM FailureIsExplained == VerificationSpec => []FailureIsTheWorks
<1>1. VerdictInv => FailureIsTheWorks
  <2> SUFFICES ASSUME VerdictInv, Failed
               PROVE  \E i \in DOMAIN specs : verdicts[i] = "failed" /\ Blame(i)
    BY DEF FailureIsTheWorks, Blame
  <2>1. Justifies(verdicts) /\ FinalProofState(verdicts) = "verification_failed"
    BY DEF VerdictInv, SettledByVerdicts, Settled, Failed
  <2> QED  BY <2>1, RollupRead DEF Justifies, Justified
<1> QED  BY <1>1, VerificationInvariant, PTL

----------------------------------------------------------------------------
(* The probe.                                                              *)

\* Undisturbed, a command that passes leaves nothing to blame later.
Cleared(sts) ==
    /\ DOMAIN sts = DOMAIN specs
    /\ \A i \in DOMAIN specs :
          weather = {} /\ sts[i] = "passed" /\ specs[i] # "llm_judge" => ~Blame(i)

ForetellInv ==
    /\ call.kind = "run" => proof = "verifying"
    /\ call.kind = "probe" => Cleared(statuses)
    /\ probed # <<>> => specs = Specs(workspace) /\ Cleared(probed)

LEMMA PassIsClean ==
    ASSUME CallShape, weather = {}, NEW i, specs[i] # "llm_judge", "passed" \in RunOneAspect(i)
    PROVE  ~Blame(i)
<1>1. CASE mode = "sandbox"
  <2>1. PICK x \in SandboxExits(i) : "passed" = RunAspectInSandbox(x)
    BY <1>1 DEF RunOneAspect
  <2>2. x \in {"nonzero", "missing"} => RunAspectInSandbox(x) # "passed"
    BY DEF RunAspectInSandbox
  <2>3. specs[i] \notin {"code_install_smoke", "code_build"} /\ x \in Exits(i)
    BY <2>1, <2>2 DEF SandboxExits
  <2>4. ~(Unsound(i) \/ Starved)
    BY <2>1, <2>2, <2>3 DEF Exits
  <2> QED  BY <1>1, <2>3, <2>4 DEF Blame
<1>2. CASE mode = "host"
  <2>1. ~Starved
    BY <1>2 DEF Starved
  <2>2. "passed" \in RunOnHost(i)
    BY <1>2 DEF RunOneAspect
  <2>3. PICK x \in Exits(i) : "passed" \in {RunInstallSmoke(x), RunDockerBuild(x), RunDefaultAspect(x)}
    BY <2>2 DEF RunOnHost
  <2>4. x # "nonzero"
    BY <2>3 DEF RunInstallSmoke, RunDockerBuild, RunDefaultAspect
  <2>5. ~Unsound(i)
    BY <2>3, <2>4 DEF Exits
  <2> QED  BY <1>2, <2>1, <2>5 DEF Blame
<1> QED  BY <1>1, <1>2 DEF CallShape

\* Dependencies that are there stay, so nothing new is to blame.
LEMMA ClearedStays ==
    ASSUME UNCHANGED <<workspace, broken, mode, weather, specs>>, deps => deps',
           NEW sts, Cleared(sts)
    PROVE  Cleared(sts)'
BY DEF Cleared, Blame, Unsound, Starved

LEMMA ForetellInitInv == VerificationInit => ForetellInv
BY DEF VerificationInit, ForetellInv, NoCall

LEMMA ForetellStepInv ==
    VerdictInv /\ ForetellInv /\ [VerificationNext]_verificationVars => ForetellInv'
<1> SUFFICES ASSUME VerdictInv, ForetellInv, [VerificationNext]_verificationVars  PROVE ForetellInv'
  OBVIOUS
<1>1. ASSUME UNCHANGED <<workspace, broken, mode, weather, specs, probed>>, deps => deps'
      PROVE  probed' # <<>> => specs' = Specs(workspace)' /\ Cleared(probed)'
  <2> SUFFICES ASSUME probed # <<>>  PROVE specs = Specs(workspace) /\ Cleared(probed)'
    BY <1>1
  <2> PICK sts : sts = probed
    OBVIOUS
  <2>1. specs = Specs(workspace) /\ Cleared(sts)
    BY DEF ForetellInv
  <2>2. Cleared(sts)'
    BY <1>1, <2>1, ClearedStays
  <2> QED  BY <1>1, <2>1, <2>2
<1>2. ASSUME UNCHANGED <<workspace, broken, mode, weather, specs, statuses>>, deps => deps',
             call.kind = "probe"
      PROVE  Cleared(statuses)'
  <2> PICK sts : sts = statuses
    OBVIOUS
  <2>1. Cleared(sts)
    BY <1>2 DEF ForetellInv
  <2>2. Cleared(sts)'
    BY <1>2, <2>1, ClearedStays
  <2> QED  BY <1>2, <2>2
<1>3. CASE BeginProbe \/ BeginVerification
  <2>1. /\ specs' = Specs(workspace) /\ statuses' = [i \in DOMAIN Specs(workspace) |-> "queued"]
        /\ UNCHANGED <<workspace, broken, mode, weather, deps, probed>>
    BY <1>3 DEF BeginProbe, BeginVerification, Begin, inputs
  <2>2. Cleared(statuses)'
    BY <2>1 DEF Cleared
  <2>3. probed' # <<>> => specs' = Specs(workspace)' /\ Cleared(probed)'
    BY <1>1, <2>1 DEF ForetellInv
  <2>4. call'.kind = "run" => proof' = "verifying"
    BY <1>3 DEF BeginProbe, BeginVerification, NoCall
  <2> QED  BY <2>2, <2>3, <2>4 DEF ForetellInv
<1>4. CASE EnsureRepoDependencies
  <2>1. /\ call.at = "deps" /\ call.kind = "run" /\ call' = [call EXCEPT !.at = "venv"]
        /\ UNCHANGED <<workspace, broken, mode, weather, specs, probed, proof>> /\ (deps => deps')
    BY <1>4 DEF EnsureRepoDependencies, inputs, VerdictInv, CallShape
  <2>2. call'.kind = "run"
    BY <2>1 DEF VerdictInv, CallShape
  <2> QED  BY <1>1, <2>1, <2>2 DEF ForetellInv
<1>5. CASE BuildAspectVenv \/ StartAspect \/ EndAspect
  <2>1. /\ call'.kind = call.kind
        /\ UNCHANGED <<workspace, broken, mode, weather, specs, probed, proof, deps>>
    BY <1>5 DEF BuildAspectVenv, StartAspect, EndAspect, inputs, VerdictInv, CallShape
  <2>2. ASSUME call.kind = "probe"  PROVE Cleared(statuses)'
    <3>1. CASE UNCHANGED statuses
      BY <1>2, <2>1, <2>2, <3>1
    <3>2. ASSUME NEW s, statuses' = [statuses EXCEPT ![call.next] = s],
                 s = "passed" => s \in RunOneAspect(call.next)
          PROVE  Cleared(statuses)'
      <4> PICK k : k = call.next
        OBVIOUS
      <4>1. DOMAIN statuses = DOMAIN specs /\ Cleared(statuses)
        BY <2>2 DEF ForetellInv, Cleared
      <4>2. statuses \in [DOMAIN statuses -> AspectStatuses]
        BY DEF VerdictInv, CallShape
      <4>3. /\ DOMAIN statuses' = DOMAIN specs
            /\ \A i \in DOMAIN specs : statuses'[i] = IF i = k THEN s ELSE statuses[i]
        BY <3>2, <4>1, <4>2
      <4>4. \A i \in DOMAIN specs :
               weather = {} /\ statuses'[i] = "passed" /\ specs[i] # "llm_judge" => ~Blame(i)
        BY <3>2, <4>1, <4>3, PassIsClean DEF Cleared, VerdictInv
      <4> QED  BY <2>1, <4>3, <4>4 DEF Cleared, Blame, Unsound, Starved
    <3>3. CASE StartAspect
      <4>1. statuses' = [statuses EXCEPT ![call.next] = "running"]
        BY <3>3 DEF StartAspect
      <4> QED  BY <3>2, <4>1
    <3>4. CASE EndAspect
      BY <3>2, <3>4 DEF EndAspect
    <3> QED  BY <1>5, <3>1, <3>3, <3>4 DEF BuildAspectVenv
  <2> QED  BY <1>1, <2>1, <2>2 DEF ForetellInv
<1>6. CASE EndProbe
  <2>1. /\ call.kind = "probe" /\ call' = NoCall /\ probed' = statuses
        /\ UNCHANGED <<workspace, broken, mode, weather, specs, statuses, deps>>
        /\ specs = Specs(workspace)
    BY <1>6 DEF EndProbe, inputs, VerdictInv, CallIsJustified
  <2>2. Cleared(statuses)'
    BY <1>2, <2>1
  <2>3. Cleared(probed)'
    BY <2>1, <2>2 DEF Cleared, Blame, Unsound, Starved
  <2> QED  BY <2>1, <2>3 DEF ForetellInv, NoCall
<1>7. CASE EndVerification
  <2>1. call' = NoCall /\ UNCHANGED <<workspace, broken, mode, weather, specs, probed, deps>>
    BY <1>7 DEF EndVerification, inputs
  <2> QED  BY <1>1, <2>1 DEF ForetellInv, NoCall
<1>8. CASE UNCHANGED verificationVars
  <2>1. /\ UNCHANGED <<workspace, broken, mode, weather, specs, statuses, probed, proof, deps, call>>
    BY <1>8 DEF verificationVars, inputs
  <2> QED  BY <1>1, <1>2, <2>1 DEF ForetellInv
<1> QED  BY <1>3, <1>4, <1>5, <1>6, <1>7, <1>8 DEF VerificationNext, InCall

\* probe_aspects, with which a dispatch tests its own work, and run_verification
\* agree while nothing disturbs their commands: a probe of commands that all
\* passed is not followed, or contradicted, by a failed verification.
THEOREM ProbeIsHonest == VerificationSpec => []ProbeForetells
<1>1. VerdictInv /\ ForetellInv => ProbeForetells
  <2> SUFFICES ASSUME VerdictInv, ForetellInv, proof = "verification_failed",
                      weather = {}, probed # <<>>,
                      \A i \in DOMAIN probed : probed[i] = "passed" /\ specs[i] # "llm_judge"
               PROVE  FALSE
    BY DEF ProbeForetells
  <2>1. Justifies(verdicts) /\ FinalProofState(verdicts) = "verification_failed"
    BY DEF VerdictInv, SettledByVerdicts, Settled, ForetellInv
  <2>2. PICK i \in DOMAIN specs : Blame(i)
    BY <2>1, RollupRead DEF Justifies, Justified
  <2>3. Cleared(probed)
    BY DEF ForetellInv
  <2> QED  BY <2>2, <2>3 DEF Cleared
<1> QED
  BY <1>1, VerificationInvariant, ForetellInitInv, VerificationStepInv, ForetellStepInv, VerificationInitInv, PTL
  DEF VerificationSpec

----------------------------------------------------------------------------
(* The types of the engine's state.                                        *)

\* Whatever the contract or the repository asks for, it is a list of aspects.
LEMMA SpecsAreAspects ==
    ASSUME NEW w \in Workspaces
    PROVE  Specs(w) \in Seq(AspectTypes)
<1>1. ASSUME NEW a \in AspectTypes  PROVE <<a>> \in Seq(AspectTypes)
  OBVIOUS
<1>2. <<>> \in Seq(AspectTypes)
  OBVIOUS
<1>3. /\ CodeTestAspect(w) \in Seq(AspectTypes) /\ CodeLintAspect(w) \in Seq(AspectTypes)
      /\ CodeInstallSmokeAspect(w) \in Seq(AspectTypes) /\ CodeBuildAspect(w) \in Seq(AspectTypes)
  <2>1. {"code_test", "code_lint", "code_install_smoke", "code_build"} \subseteq AspectTypes
    BY DEF AspectTypes
  <2> QED
    BY <1>1, <1>2, <2>1, Zenon DEF CodeTestAspect, CodeLintAspect, CodeInstallSmokeAspect, CodeBuildAspect
<1>4. SelectVerificationAspects(w) \in Seq(AspectTypes)
  <2>1. ASSUME NEW a \in Seq(AspectTypes), NEW b \in Seq(AspectTypes)  PROVE a \o b \in Seq(AspectTypes)
    OBVIOUS
  <2> QED  BY <1>2, <1>3, <2>1, Zenon DEF SelectVerificationAspects
<1>5. ASSUME NEW checks \in Seq({"command", "judge"})
      PROVE  ContractToAspectSpecs(checks) \in Seq(AspectTypes)
  <2>1. Len(checks) \in Nat /\ DOMAIN checks = 1 .. Len(checks)
    OBVIOUS
  <2>2. \A i \in 1 .. Len(checks) :
           (IF checks[i] = "command" THEN "declared_command" ELSE "llm_judge") \in AspectTypes
    BY DEF AspectTypes
  <2>3. ContractToAspectSpecs(checks) \in [1 .. Len(checks) -> AspectTypes]
    BY <2>1, <2>2 DEF ContractToAspectSpecs
  <2> QED  BY <2>1, <2>3
<1>6. ParseVerificationContract(w.contract) \in Seq({"command", "judge"})
  BY WorkspacesAssumption, ContractIsUsable
<1>7. /\ ContractToAspectSpecs(ParseVerificationContract(w.contract)) \in Seq(AspectTypes)
      /\ Specs(w) \in {ContractToAspectSpecs(ParseVerificationContract(w.contract)), SelectVerificationAspects(w)}
  BY <1>5, <1>6 DEF Specs
<1> QED  BY <1>4, <1>7

LEMMA VerdictIsState ==
    ASSUME NEW sts
    PROVE  FinalProofState(sts) \in ProofStates
<1>1. RollupProofState(sts) \in {"human_review_required", "verification_failed", "verifying", "verified"}
  BY DEF RollupProofState
<1> QED  BY <1>1 DEF FinalProofState, ProofStates

LEMMA VerificationTypesInit == VerificationInit => VerificationTypeOK
<1> SUFFICES ASSUME VerificationInit  PROVE VerificationTypeOK
  OBVIOUS
<1>1. /\ specs = <<>> /\ statuses = <<>> /\ verdicts = <<>> /\ probed = <<>>
      /\ call = NoCall /\ calls = 0 /\ deps = FALSE
  BY DEF VerificationInit
<1>2. /\ specs \in Seq(AspectTypes) /\ statuses \in Seq(AspectStatuses) /\ DOMAIN statuses = DOMAIN specs
      /\ verdicts \in Seq(AspectStatuses) /\ probed \in Seq(AspectStatuses)
  <2>1. <<>> \in Seq(AspectTypes) /\ <<>> \in Seq(AspectStatuses)
    OBVIOUS
  <2>2. DOMAIN statuses = DOMAIN specs
    BY <1>1
  <2> QED  BY <1>1, <2>1, <2>2, Zenon
<1>3. call \in [kind : {"none", "probe", "run"}, at : {"idle", "deps", "venv", "aspects"}, next : Nat \ {0}]
  BY <1>1 DEF NoCall
<1>4. calls \in 0 .. MaxCalls
  BY <1>1, MaxCallsAssumption
<1>9. deps \in BOOLEAN
  BY <1>1, Zenon
<1>5. /\ workspace \in Workspaces /\ mode \in Modes /\ judge \in Judges /\ dockerCli \in BOOLEAN
      /\ weather \subseteq Disturbances
  BY DEF VerificationInit
<1>6. /\ venv \in {"none", "ready", "broken"} /\ proof \in ProofStates
      /\ status \in {"draft", "verifying", "review_ready"}
  BY DEF VerificationInit, ProofStates
<1> QED  BY <1>2, <1>3, <1>4, <1>9, <1>5, <1>6, Zenon DEF VerificationTypeOK

LEMMA BeginTypes ==
    ASSUME VerificationTypeOK, BeginProbe \/ BeginVerification
    PROVE  VerificationTypeOK'
<1>1. /\ specs' = Specs(workspace) /\ statuses' = [i \in DOMAIN Specs(workspace) |-> "queued"]
      /\ venv' = "none" /\ calls < MaxCalls /\ calls' = calls + 1
      /\ UNCHANGED <<inputs, verdicts, deps, probed>>
  BY DEF BeginProbe, BeginVerification, Begin
<1>2. specs' \in Seq(AspectTypes)
  BY <1>1, SpecsAreAspects DEF VerificationTypeOK
<1>3. statuses' \in Seq(AspectStatuses) /\ DOMAIN statuses' = DOMAIN specs'
  BY <1>1, <1>2 DEF AspectStatuses
<1>4. calls' \in 0 .. MaxCalls
  BY <1>1, MaxCallsAssumption DEF VerificationTypeOK
<1>5. /\ call' \in [kind : {"none", "probe", "run"}, at : {"idle", "deps", "venv", "aspects"}, next : Nat \ {0}]
      /\ proof' \in ProofStates /\ status' \in {"draft", "verifying", "review_ready"}
  BY DEF BeginProbe, BeginVerification, NoCall, ProofStates, VerificationTypeOK
<1> QED  BY <1>1, <1>2, <1>3, <1>4, <1>5 DEF VerificationTypeOK, inputs

LEMMA InCallTypes ==
    ASSUME VerificationTypeOK, VerdictInv, InCall
    PROVE  VerificationTypeOK'
<1>1. CASE EnsureRepoDependencies \/ BuildAspectVenv
  BY <1>1 DEF EnsureRepoDependencies, BuildAspectVenv, VerificationTypeOK, inputs
<1>2. CASE StartAspect \/ EndAspect
  <2>1. PICK s \in AspectStatuses : statuses' = [statuses EXCEPT ![call.next] = s]
    <3>1. CASE StartAspect
      BY <3>1 DEF StartAspect, AspectStatuses
    <3>2. CASE EndAspect
      <4>1. PICK s \in RunOneAspect(call.next) : statuses' = [statuses EXCEPT ![call.next] = s]
        BY <3>2 DEF EndAspect
      <4>2. Justified(call.next, s)
        BY AspectIsJustified DEF VerdictInv
      <4> QED  BY <4>1, <4>2 DEF Justified
    <3> QED  BY <1>2, <3>1, <3>2
  <2>2. statuses' \in Seq(AspectStatuses) /\ DOMAIN statuses' = DOMAIN statuses
    <3>1. statuses \in Seq(AspectStatuses)
      BY DEF VerificationTypeOK
    <3>2. Len(statuses) \in Nat /\ statuses \in [1 .. Len(statuses) -> AspectStatuses]
          /\ DOMAIN statuses = 1 .. Len(statuses)
      BY <3>1
    <3>3. statuses' \in [1 .. Len(statuses) -> AspectStatuses]
      BY <2>1, <3>2
    <3> QED  BY <3>2, <3>3
  <2>3. call' \in [kind : {"none", "probe", "run"}, at : {"idle", "deps", "venv", "aspects"}, next : Nat \ {0}]
    BY <1>2 DEF StartAspect, EndAspect, VerificationTypeOK
  <2>4. UNCHANGED <<inputs, verdicts, specs, venv, deps, proof, status, probed, calls>>
    BY <1>2 DEF StartAspect, EndAspect
  <2> QED  BY <2>2, <2>3, <2>4 DEF VerificationTypeOK, inputs
<1>3. CASE EndProbe
  BY <1>3 DEF EndProbe, VerificationTypeOK, inputs, NoCall
<1>4. CASE EndVerification
  <2>1. proof' \in ProofStates
    BY <1>4, VerdictIsState DEF EndVerification
  <2> QED  BY <1>4, <2>1 DEF EndVerification, VerificationTypeOK, inputs, NoCall
<1> QED  BY <1>1, <1>2, <1>3, <1>4 DEF InCall

LEMMA VerificationTypesStep ==
    VerificationTypeOK /\ VerdictInv /\ [VerificationNext]_verificationVars => VerificationTypeOK'
<1> SUFFICES ASSUME VerificationTypeOK, VerdictInv, [VerificationNext]_verificationVars
             PROVE  VerificationTypeOK'
  OBVIOUS
<1>1. CASE UNCHANGED verificationVars
  BY <1>1 DEF verificationVars, VerificationTypeOK
<1> QED  BY <1>1, BeginTypes, InCallTypes DEF VerificationNext

\* The types of the engine's state, whatever the contract declares: a call is
\* about a list of aspects with one status each, and the proof is in a state.
THEOREM VerificationTypeCorrect == VerificationSpec => []VerificationTypeOK
BY VerificationInvariant, VerificationTypesInit, VerificationTypesStep, PTL DEF VerificationSpec

----------------------------------------------------------------------------
(* Delivery: one pull request, and the whole work on its branch.           *)

Branches == Repos \X Requests
OpenerPlaces == {"idle", "branch", "list", "create", "update", "record"}
OpenerRecords == [at : OpenerPlaces, request : Requests \cup {None}, repo : Repos \cup {None}]
PullCounts == [open : 0 .. 1, closed : Nat]

IsVerifier(v) ==
    v = [at |-> v.at, request |-> v.request, repo |-> v.repo, todo |-> v.todo, put |-> v.put]

Shape ==
    /\ binding \in Repos \cup {None}
    /\ IsVerifier(verifier)
    /\ verifier.repo \in Repos \cup {None}
    /\ verifier.at = "verify" => verifier.request \in Requests
    /\ DOMAIN proven \subseteq Requests
    /\ opener \in [Openers -> OpenerRecords]
    /\ pulls \in [Branches -> PullCounts]

Pulls(b) == pulls[b].open + pulls[b].closed

\* A caller of open_request_pr is about one request of one repository.
OpenerIsAbout ==
    \A o \in Openers : opener[o].at # "idle" => <<opener[o].repo, opener[o].request>> \in Branches

NoneClosed == "close" \notin incidents => \A b \in Branches : pulls[b].closed = 0

\* With the hook as the only caller, what it has not seen is not there.
HookHasLooked ==
    "api" \notin incidents =>
        /\ opener["api"].at = "idle"
        /\ opener["hook"].at = "create" => Pulls(<<opener["hook"].repo, opener["hook"].request>>) = 0
        /\ \A b \in Branches : Pulls(b) <= 1

DeliveryInv == Shape /\ OpenerIsAbout /\ NoneClosed /\ HookHasLooked

----------------------------------------------------------------------------

LEMMA DeliveryInitInv == DeliveryInit => DeliveryInv
<1> SUFFICES ASSUME DeliveryInit  PROVE DeliveryInv
  OBVIOUS
<1>1. \A b \in Branches : pulls[b] = [open |-> 0, closed |-> 0]
  BY DEF DeliveryInit, Branches
<1>2. pulls \in [Branches -> PullCounts]
  BY DEF DeliveryInit, Branches, PullCounts
<1>3. opener \in [Openers -> OpenerRecords] /\ \A o \in Openers : opener[o].at = "idle"
  BY DEF DeliveryInit, OpenerIdle, OpenerRecords, OpenerPlaces
<1>4. binding \in Repos \cup {None} /\ verifier = VerifierIdle /\ DOMAIN proven = {}
  BY DEF DeliveryInit
<1> QED
  BY <1>1, <1>2, <1>3, <1>4
  DEF DeliveryInv, Shape, OpenerIsAbout, NoneClosed, HookHasLooked, Pulls, VerifierIdle, IsVerifier, Openers

----------------------------------------------------------------------------

\* Steps that leave the callers of open_request_pr and the pull requests alone.
LEMMA Elsewhere ==
    ASSUME DeliveryInv, UNCHANGED <<opener, pulls>>, incidents \subseteq incidents',
           binding' \in Repos \cup {None}, IsVerifier(verifier'), verifier'.repo \in Repos \cup {None},
           verifier'.at = "verify" => verifier'.request \in Requests,
           DOMAIN proven' \subseteq Requests
    PROVE  DeliveryInv'
BY DEF DeliveryInv, Shape, OpenerIsAbout, NoneClosed, HookHasLooked, Pulls

\* Steps of one caller that open no pull request.
LEMMA OpenerMoves ==
    ASSUME DeliveryInv, NEW o \in Openers, NEW r \in OpenerRecords,
           opener' = [opener EXCEPT ![o] = r],
           r.at # "idle" => <<r.repo, r.request>> \in Branches,
           r.at = "create" => Pulls(<<r.repo, r.request>>) = 0,
           o = "api" /\ r.at # "idle" => "api" \in incidents',
           incidents \subseteq incidents', pulls' = pulls,
           binding' \in Repos \cup {None}, IsVerifier(verifier'), verifier'.repo \in Repos \cup {None},
           verifier'.at = "verify" => verifier'.request \in Requests,
           DOMAIN proven' \subseteq Requests
    PROVE  DeliveryInv'
<1>1. opener \in [Openers -> OpenerRecords]
  BY DEF DeliveryInv, Shape
<1>2. /\ opener' \in [Openers -> OpenerRecords] /\ opener'[o] = r
      /\ \A x \in Openers : x # o => opener'[x] = opener[x]
  BY <1>1
<1>3. Shape'
  BY <1>2 DEF DeliveryInv, Shape
<1>4. OpenerIsAbout'
  BY <1>2 DEF DeliveryInv, OpenerIsAbout
<1>5. NoneClosed'
  BY DEF DeliveryInv, NoneClosed
<1>6. HookHasLooked'
  BY <1>2 DEF DeliveryInv, HookHasLooked, Pulls, Openers
<1> QED  BY <1>3, <1>4, <1>5, <1>6 DEF DeliveryInv

\* A death: everybody is idle again.
LEMMA EverybodyIdle ==
    ASSUME DeliveryInv, opener' = [o \in Openers |-> OpenerIdle], verifier' = VerifierIdle,
           pulls' = pulls, incidents \subseteq incidents', UNCHANGED <<binding, proven>>
    PROVE  DeliveryInv'
<1>1. opener' \in [Openers -> OpenerRecords] /\ \A o \in Openers : opener'[o].at = "idle"
  BY DEF OpenerIdle, OpenerRecords, OpenerPlaces
<1> QED
  BY <1>1 DEF DeliveryInv, Shape, OpenerIsAbout, NoneClosed, HookHasLooked, Pulls, VerifierIdle, IsVerifier, Openers

----------------------------------------------------------------------------

\* The creation, with its effect or without.
LEMMA PrCreateInv ==
    ASSUME DeliveryInv, NEW o \in Openers, PrCreate(o)
    PROVE  DeliveryInv'
<1> DEFINE b == <<opener[o].repo, opener[o].request>>
<1>1. /\ opener[o].at = "create" /\ b \in Branches
      /\ opener \in [Openers -> OpenerRecords] /\ pulls \in [Branches -> PullCounts]
  BY DEF PrCreate, DeliveryInv, Shape, OpenerIsAbout
<1>2. /\ UNCHANGED <<binding, proven, verifier>>
      /\ incidents \subseteq incidents'
      /\ \/ opener' = [opener EXCEPT ![o].at = "record"]
         \/ opener' = [opener EXCEPT ![o] = OpenerIdle]
      /\ \/ pulls' = pulls
         \/ pulls[b].open = 0 /\ pulls' = [pulls EXCEPT ![b].open = 1]
  <2>1. pulls[b].open \in 0 .. 1
    BY <1>1 DEF PullCounts
  <2>2. UNCHANGED <<binding, proven, verifier>>
    BY DEF PrCreate, prFrame
  <2>3. incidents \subseteq incidents'
    BY DEF PrCreate, Smooth, GithubFails, Incident
  <2>4. \/ opener' = [opener EXCEPT ![o].at = "record"]
        \/ opener' = [opener EXCEPT ![o] = OpenerIdle]
    BY DEF PrCreate
  <2>5. \/ pulls' = pulls
        \/ ~(pulls[b].open > 0) /\ pulls' = [pulls EXCEPT ![b].open = 1]
    BY DEF PrCreate
  <2> QED  BY <2>1, <2>2, <2>3, <2>4, <2>5
<1>3. /\ opener' \in [Openers -> OpenerRecords]
      /\ opener'[o].at \in {"idle", "record"}
      /\ opener'[o].at = "record" => opener'[o].repo = opener[o].repo /\ opener'[o].request = opener[o].request
      /\ \A x \in Openers : x # o => opener'[x] = opener[x]
  BY <1>1, <1>2 DEF OpenerRecords, OpenerPlaces, OpenerIdle
<1>4. /\ pulls' \in [Branches -> PullCounts]
      /\ \A c \in Branches : pulls'[c].closed = pulls[c].closed /\ (c # b => pulls'[c] = pulls[c])
  BY <1>1, <1>2 DEF PullCounts
<1>5. Shape' /\ OpenerIsAbout' /\ NoneClosed'
  BY <1>1, <1>2, <1>3, <1>4 DEF DeliveryInv, Shape, OpenerIsAbout, NoneClosed
<1>6. HookHasLooked'
  <2> SUFFICES ASSUME "api" \notin incidents
               PROVE  /\ opener'["api"].at = "idle"
                      /\ opener'["hook"].at # "create"
                      /\ \A c \in Branches : pulls'[c].open + pulls'[c].closed <= 1
    BY <1>2 DEF HookHasLooked, Pulls
  <2>1. o = "hook"
    BY <1>1 DEF DeliveryInv, HookHasLooked, Openers
  <2>2. pulls[b].open + pulls[b].closed = 0
    BY <2>1, <1>1 DEF DeliveryInv, HookHasLooked, Pulls
  <2>3. pulls[b].open \in 0 .. 1 /\ pulls'[b].open \in 0 .. 1 /\ pulls[b].closed \in Nat
    BY <1>1, <1>4 DEF PullCounts
  <2>4. pulls'[b].open + pulls'[b].closed <= 1
    BY <2>2, <2>3, <1>4, <1>1
  <2>5. \A c \in Branches : c # b => pulls'[c].open + pulls'[c].closed <= 1
    BY <1>4 DEF DeliveryInv, HookHasLooked, Pulls
  <2> HIDE DEF b
  <2> QED  BY <2>1, <2>4, <2>5, <1>3 DEF DeliveryInv, HookHasLooked, Openers
<1> QED  BY <1>5, <1>6 DEF DeliveryInv

\* The founder closes a pull request.
LEMMA ClosePullInv ==
    ASSUME DeliveryInv, NEW repo \in Repos, NEW q \in Requests, ClosePull(repo, q)
    PROVE  DeliveryInv'
<1> DEFINE b == <<repo, q>>
<1>1. b \in Branches /\ pulls \in [Branches -> PullCounts]
  BY DEF DeliveryInv, Shape, Branches
<1>2. /\ pulls[b].open > 0 /\ pulls' = [pulls EXCEPT ![b] = [open |-> 0, closed |-> pulls[b].closed + 1]]
      /\ UNCHANGED <<binding, proven, verifier, opener>>
      /\ "close" \in incidents' /\ incidents \subseteq incidents'
  BY DEF ClosePull, prFrame, Incident
<1>3. pulls[b].open = 1 /\ pulls[b].closed \in Nat
  BY <1>1, <1>2 DEF PullCounts
<1>4. pulls' \in [Branches -> PullCounts] /\ \A c \in Branches : Pulls(c)' = Pulls(c)
  BY <1>1, <1>2, <1>3 DEF PullCounts, Pulls
<1> HIDE DEF b
<1>5. Shape' /\ OpenerIsAbout' /\ NoneClosed'
  BY <1>2, <1>4 DEF DeliveryInv, Shape, OpenerIsAbout, NoneClosed
<1>6. HookHasLooked'
  BY <1>2, <1>4 DEF DeliveryInv, HookHasLooked, OpenerIsAbout, Openers
<1> QED  BY <1>5, <1>6 DEF DeliveryInv

----------------------------------------------------------------------------

LEMMA OpeningInv ==
    ASSUME DeliveryInv, NEW o \in Openers, OpeningPr(o)
    PROVE  DeliveryInv'
<1> DEFINE r == opener[o]
           b == <<r.repo, r.request>>
<1>1. /\ r \in OpenerRecords /\ (r.at # "idle" => b \in Branches)
      /\ OpenerIdle \in OpenerRecords
  BY DEF DeliveryInv, Shape, OpenerIsAbout, OpenerIdle, OpenerRecords, OpenerPlaces
<1>2. o = "api" /\ r.at # "idle" => "api" \in incidents
  BY DEF DeliveryInv, HookHasLooked
<1>3. /\ binding \in Repos \cup {None} /\ IsVerifier(verifier) /\ verifier.repo \in Repos \cup {None}
      /\ verifier.at = "verify" => verifier.request \in Requests
      /\ DOMAIN proven \subseteq Requests
  BY DEF DeliveryInv, Shape
<1>4. ASSUME NEW place \in OpenerPlaces
      PROVE  /\ [r EXCEPT !.at = place] \in OpenerRecords
             /\ [r EXCEPT !.at = place].at = place
             /\ [r EXCEPT !.at = place].repo = r.repo /\ [r EXCEPT !.at = place].request = r.request
  BY <1>1 DEF OpenerRecords
<1>5. ASSUME NEW place \in OpenerPlaces, opener' = [opener EXCEPT ![o] = [r EXCEPT !.at = place]],
             place = "create" => Pulls(b) = 0, r.at # "idle",
             incidents \subseteq incidents', UNCHANGED <<pulls, binding, verifier, proven>>
      PROVE  DeliveryInv'
  BY <1>1, <1>2, <1>3, <1>4, <1>5, OpenerMoves
<1>6. ASSUME opener' = [opener EXCEPT ![o] = OpenerIdle],
             incidents \subseteq incidents', UNCHANGED <<pulls, binding, verifier, proven>>
      PROVE  DeliveryInv'
  <2>1. OpenerIdle.at = "idle"
    BY DEF OpenerIdle
  <2> QED  BY <2>1, <1>1, <1>3, <1>6, OpenerMoves
<1> USE DEF OpenerPlaces
<1>7. CASE PrBranch(o)
  <2>1. /\ r.at # "idle" /\ incidents \subseteq incidents'
        /\ UNCHANGED <<pulls, binding, verifier, proven>>
    BY <1>7 DEF PrBranch, prFrame, Smooth, GithubFails, Incident
  <2>2. \/ opener' = [opener EXCEPT ![o] = [r EXCEPT !.at = "list"]]
        \/ opener' = [opener EXCEPT ![o] = OpenerIdle]
    BY <1>7 DEF PrBranch
  <2> HIDE DEF r
  <2> QED  BY <2>1, <2>2, <1>5, <1>6
<1>8. CASE PrList(o)
  <2>1. /\ r.at # "idle" /\ incidents \subseteq incidents'
        /\ UNCHANGED <<pulls, binding, verifier, proven>>
    BY <1>8 DEF PrList, prFrame, remoteVars, Smooth, GithubFails, Incident
  <2>2. \/ ListedPulls(r.repo, r.request) > 0 /\ opener' = [opener EXCEPT ![o] = [r EXCEPT !.at = "update"]]
        \/ ~(ListedPulls(r.repo, r.request) > 0) /\ opener' = [opener EXCEPT ![o] = [r EXCEPT !.at = "create"]]
        \/ opener' = [opener EXCEPT ![o] = OpenerIdle]
    BY <1>8 DEF PrList
  <2>3. ~(ListedPulls(r.repo, r.request) > 0) => Pulls(b) = 0
    <3>1. pulls[b] \in PullCounts
      BY <2>1, <1>1 DEF DeliveryInv, Shape
    <3>2. pulls[b].open \in Nat /\ pulls[b].closed \in Nat
      BY <3>1 DEF PullCounts
    <3>3. ListedPulls(r.repo, r.request) = pulls[b].open + pulls[b].closed
      BY DEF ListedPulls
    <3> QED  BY <3>2, <3>3 DEF Pulls
  <2> HIDE DEF r
  <2> QED  BY <2>1, <2>2, <2>3, <1>5, <1>6
<1>9. CASE PrUpdate(o)
  <2>1. /\ r.at # "idle" /\ incidents \subseteq incidents'
        /\ UNCHANGED <<pulls, binding, verifier, proven>>
    BY <1>9 DEF PrUpdate, prFrame, remoteVars, Smooth, GithubFails, Incident
  <2>2. \/ opener' = [opener EXCEPT ![o] = [r EXCEPT !.at = "record"]]
        \/ opener' = [opener EXCEPT ![o] = OpenerIdle]
    BY <1>9 DEF PrUpdate
  <2> HIDE DEF r
  <2> QED  BY <2>1, <2>2, <1>5, <1>6
<1>10. CASE PrCreate(o)
  BY <1>10, PrCreateInv
<1>11. CASE PrRecord(o)
  BY <1>11, <1>6 DEF PrRecord, prFrame, remoteVars, Smooth
<1> QED  BY <1>7, <1>8, <1>9, <1>10, <1>11 DEF OpeningPr

LEMMA VerifyingInv ==
    ASSUME DeliveryInv, Verifying
    PROVE  DeliveryInv'
<1> USE DEF Smooth, GithubFails, Incident, VerifierIdle, workspaceVars, remoteVars, IsVerifier
<1>1. /\ binding \in Repos \cup {None} /\ IsVerifier(verifier) /\ verifier.repo \in Repos \cup {None}
      /\ verifier.at = "verify" => verifier.request \in Requests
      /\ DOMAIN proven \subseteq Requests
  BY DEF DeliveryInv, Shape
<1>2. CASE RunVerification
  <2>1. DOMAIN proven' \in {DOMAIN proven \cup {verifier.request}, DOMAIN proven \ {verifier.request}}
    BY <1>2 DEF RunVerification
  <2>2. /\ IsVerifier(verifier') /\ verifier'.repo = verifier.repo
        /\ verifier'.at \in {"advance", "branch"}
    BY <1>1, <1>2 DEF RunVerification
  <2>3. verifier.request \in Requests /\ UNCHANGED <<binding, opener, pulls, incidents>>
    BY <1>1, <1>2 DEF RunVerification
  <2> QED  BY <1>1, <2>1, <2>2, <2>3, Elsewhere
<1>3. CASE CommitBranch
  BY <1>1, <1>3, Elsewhere DEF CommitBranch
<1>4. CASE CommitDone
  BY <1>1, <1>4, Elsewhere DEF CommitDone
<1>5. CASE AdvanceRequestAfterProof
  <2>1. UNCHANGED <<binding, proven, pulls, incidents>>
    BY <1>5 DEF AdvanceRequestAfterProof
  <2>2. CASE verifier.request \in DOMAIN proven /\ verifier.repo # None
    <3> DEFINE r == [at |-> "branch", request |-> verifier.request, repo |-> verifier.repo]
    <3>1. r \in OpenerRecords /\ <<r.repo, r.request>> \in Branches /\ r.at = "branch"
      BY <1>1, <2>2 DEF OpenerRecords, OpenerPlaces, Branches
    <3>2. opener' = [opener EXCEPT !["hook"] = r] /\ verifier' = [verifier EXCEPT !.at = "pr"]
      BY <1>5, <2>2 DEF AdvanceRequestAfterProof
    <3>3. verifier'.repo \in Repos \cup {None} /\ verifier'.at # "verify"
      BY <3>2, <1>1
    <3> HIDE DEF r
    <3> QED  BY <3>1, <3>2, <3>3, <2>1, <1>1, OpenerMoves DEF Openers
  <2>3. CASE ~(verifier.request \in DOMAIN proven /\ verifier.repo # None)
    BY <2>1, <2>3, <1>1, <1>5, Elsewhere DEF AdvanceRequestAfterProof
  <2> QED  BY <2>2, <2>3
<1>6. CASE HookReturned
  BY <1>1, <1>6, Elsewhere DEF HookReturned
<1>7. ASSUME NEW p \in Paths, PutFile(p)  PROVE DeliveryInv'
  BY <1>1, <1>7, Elsewhere DEF PutFile
<1> QED  BY <1>2, <1>3, <1>4, <1>5, <1>6, <1>7 DEF Verifying

LEMMA InterventionsInv ==
    ASSUME DeliveryInv, Interventions
    PROVE  DeliveryInv'
<1> USE DEF Smooth, GithubFails, Incident, workspaceVars, remoteVars, prFrame
<1>1. /\ binding \in Repos \cup {None} /\ IsVerifier(verifier) /\ verifier.repo \in Repos \cup {None}
      /\ verifier.at = "verify" => verifier.request \in Requests
      /\ DOMAIN proven \subseteq Requests
  BY DEF DeliveryInv, Shape
<1>2. CASE DeleteRepoConfig
  BY <1>1, <1>2, Elsewhere DEF DeleteRepoConfig
<1>3. CASE CrashOutsideMerge
  BY <1>3, EverybodyIdle DEF CrashOutsideMerge
<1>4. CASE CrashInMerge
  BY <1>4, EverybodyIdle DEF CrashInMerge
<1>5. ASSUME NEW r \in Repos, UpsertRepoConfig(r)  PROVE DeliveryInv'
  BY <1>1, <1>5, Elsewhere DEF UpsertRepoConfig
<1>6. ASSUME NEW q \in Requests, OpenPrForRequest(q)  PROVE DeliveryInv'
  <2> DEFINE r == [at |-> "branch", request |-> q, repo |-> binding]
  <2>1. r \in OpenerRecords /\ <<r.repo, r.request>> \in Branches /\ r.at = "branch"
    BY <1>1, <1>6 DEF OpenPrForRequest, OpenerRecords, OpenerPlaces, Branches
  <2>2. /\ opener' = [opener EXCEPT !["api"] = r] /\ "api" \in incidents'
        /\ incidents \subseteq incidents' /\ UNCHANGED <<pulls, binding, verifier, proven>>
    BY <1>6 DEF OpenPrForRequest
  <2> HIDE DEF r
  <2> QED  BY <2>1, <2>2, <1>1, OpenerMoves DEF Openers
<1>7. ASSUME NEW q \in Requests, VerifyDeliverable(q)  PROVE DeliveryInv'
  BY <1>1, <1>7, Elsewhere DEF VerifyDeliverable
<1>8. ASSUME NEW q \in Requests, EnsureBranchForRequest(q)  PROVE DeliveryInv'
  BY <1>1, <1>8, Elsewhere DEF EnsureBranchForRequest
<1> QED  BY <1>2, <1>3, <1>4, <1>5, <1>6, <1>7, <1>8, ClosePullInv DEF Interventions

LEMMA DeliveryStepInv == DeliveryInv /\ [DeliveryNext]_deliveryVars => DeliveryInv'
<1> SUFFICES ASSUME DeliveryInv, [DeliveryNext]_deliveryVars  PROVE DeliveryInv'
  OBVIOUS
<1> USE DEF Smooth, GithubFails, Incident, workspaceVars, remoteVars, IsVerifier
<1>1. /\ binding \in Repos \cup {None} /\ IsVerifier(verifier) /\ verifier.repo \in Repos \cup {None}
      /\ verifier.at = "verify" => verifier.request \in Requests
      /\ DOMAIN proven \subseteq Requests
  BY DEF DeliveryInv, Shape
<1>2. ASSUME NEW q \in Requests, StartWork(q)  PROVE DeliveryInv'
  BY <1>1, <1>2, Elsewhere DEF StartWork
<1>3. ASSUME NEW q \in Requests, TakeProof(q)  PROVE DeliveryInv'
  BY <1>1, <1>3, Elsewhere DEF TakeProof
<1>4. CASE EnsureRepoCloned
  BY <1>1, <1>4, Elsewhere DEF EnsureRepoCloned
<1>5. ASSUME NEW paths, NEW removed, Write(paths, removed)  PROVE DeliveryInv'
  BY <1>1, <1>5, Elsewhere DEF Write
<1>6. CASE UNCHANGED deliveryVars
  BY <1>1, <1>6, Elsewhere DEF deliveryVars
<1> QED
  BY <1>2, <1>3, <1>4, <1>5, <1>6, VerifyingInv, InterventionsInv, OpeningInv
  DEF DeliveryNext, Working

\* open_request_pr (core/git_ops/pull_request.py) opens at most one pull request for a
\* request's branch, whichever of its calls fail or lose their answer; only a
\* second caller and a founder who closes in between get past the look.
THEOREM OnePullRequestPerBranch == DeliverySpec => []OnePullRequest
<1>1. DeliveryInv => OnePullRequest
  <2> SUFFICES ASSUME DeliveryInv, NEW b \in Branches, ~({"api", "close"} \subseteq incidents)
               PROVE  pulls[b].open + pulls[b].closed <= 1
    BY DEF OnePullRequest, Branches
  <2>1. pulls[b].open \in 0 .. 1
    BY DEF DeliveryInv, Shape, PullCounts
  <2>2. CASE "close" \notin incidents
    BY <2>1, <2>2 DEF DeliveryInv, NoneClosed
  <2>3. CASE "api" \notin incidents
    BY <2>3 DEF DeliveryInv, HookHasLooked, Pulls
  <2> QED  BY <2>2, <2>3
<1> QED  BY <1>1, DeliveryInitInv, DeliveryStepInv, PTL DEF DeliverySpec

----------------------------------------------------------------------------
(* What a verified Deliverable has on its branch.  Without an intervention a  *)
(* file that a request has written stays the work of some request, because    *)
(* the clone comes before the first of them; so every put lands, and what has *)
(* landed is never taken back.                                                *)

BranchRecords == [files : [Paths -> Contents], ahead : BOOLEAN]
VerifierPlaces == {"idle", "verify", "branch", "put", "advance", "pr"}
VerifierRecords ==
    [at : VerifierPlaces, request : Requests \cup {None}, repo : Repos \cup {None},
     todo : SUBSET Paths, put : SUBSET Paths]

WorkTypes ==
    /\ files \in [Paths -> Contents]
    /\ written \in [Requests -> SUBSET Paths]
    /\ branches \in [Branches -> BranchRecords \cup {NoBranch}]
    /\ queued \subseteq Requests /\ commitSha \subseteq Requests
    /\ work \in [at : {"idle", "clone", "write"}, request : Requests \cup {None}]
    /\ work.at # "idle" => work.request \in Requests
    /\ verifier \in VerifierRecords
    /\ verifier.at # "idle" => verifier.request \in Requests
    /\ verifier.at \in {"branch", "put"} => verifier.repo # None

\* A request writes once, and only what was written is verified.
WrittenOnce ==
    /\ work.at # "idle" => written[work.request] = {}
    /\ \A q \in queued \cup DOMAIN proven : written[q] # {}
    /\ verifier.at # "idle" => written[verifier.request] # {}

Calm == incidents \subseteq {"api", "branch", "reverify"} /\ binding # None

\* The repository is in the workspace before the first file of a request is.
ClonedFirst ==
    Calm =>
        /\ gitDir = None => \A q \in Requests : written[q] = {}
        /\ work.at = "clone" => gitDir = None
        /\ work.at = "write" => gitDir # None
        /\ \A q \in Requests : \A p \in written[q] : files[p] \in Requests

OnBranch(repo, q, paths) ==
    /\ branches[<<repo, q>>] # NoBranch
    /\ \A p \in paths : branches[<<repo, q>>].files[p] \in Requests

\* The verifier delivers to the bound repository; what it has put is there, and
\* so is all of a Deliverable that it is not at work on.
Delivering ==
    Calm =>
        /\ verifier.at # "idle" => verifier.repo = binding
        /\ verifier.at \in {"verify", "branch"} =>
              verifier.put = {} /\ verifier.todo = written[verifier.request]
        /\ verifier.at = "put" =>
              /\ verifier.put \cup verifier.todo = written[verifier.request]
              /\ OnBranch(binding, verifier.request, verifier.put)
        /\ \A q \in DOMAIN proven :
              (verifier.at \in {"verify", "branch", "put"} => q # verifier.request) =>
                  q \in commitSha /\ OnBranch(binding, q, written[q])

CommitInv == WorkTypes /\ WrittenOnce /\ ClonedFirst /\ Delivering

LEMMA BranchIsOne == ASSUME NEW r \in BranchRecords PROVE r # NoBranch
<1>1. DOMAIN r = {"files", "ahead"} /\ DOMAIN NoBranch = {"ahead"}
  BY DEF BranchRecords, NoBranch
<1> QED  BY <1>1

\* A branch that exists stays as it is.
BranchesGrow ==
    /\ branches' \in [Branches -> BranchRecords \cup {NoBranch}]
    /\ \A b \in Branches : branches[b] # NoBranch => branches'[b] = branches[b]

LEMMA EnsuredBranch ==
    ASSUME WorkTypes, NEW repo \in Repos, NEW q \in Requests, EnsureRequestBranch(repo, q)
    PROVE  BranchesGrow /\ branches'[<<repo, q>>] # NoBranch
<1> DEFINE b == <<repo, q>>
           new == [files |-> [p \in Paths |-> IF p \in BasePaths THEN repo ELSE Absent], ahead |-> FALSE]
<1>1. b \in Branches /\ branches \in [Branches -> BranchRecords \cup {NoBranch}]
  BY DEF WorkTypes, Branches
<1>2. new \in BranchRecords
  BY DEF BranchRecords, Contents
<1>3. \/ branches[b] # NoBranch /\ branches' = branches
      \/ branches[b] = NoBranch /\ branches' = [branches EXCEPT ![b] = new]
  BY DEF EnsureRequestBranch
<1> HIDE DEF b, new
<1>4. new # NoBranch
  BY <1>2, BranchIsOne
<1>5. CASE branches[b] # NoBranch /\ branches' = branches
  BY <1>1, <1>5 DEF BranchesGrow, b
<1>6. CASE branches[b] = NoBranch /\ branches' = [branches EXCEPT ![b] = new]
  BY <1>1, <1>2, <1>4, <1>6 DEF BranchesGrow, b
<1> QED  BY <1>3, <1>5, <1>6

LEMMA PutLands ==
    ASSUME WorkTypes, NEW repo \in Repos, NEW q \in Requests, NEW p \in Paths,
           branches[<<repo, q>>] # NoBranch, Put(repo, q, p)
    PROVE  /\ branches' \in [Branches -> BranchRecords \cup {NoBranch}]
           /\ branches'[<<repo, q>>] # NoBranch
           /\ branches'[<<repo, q>>].files[p] = files[p]
           /\ \A f \in Paths \ {p} : branches'[<<repo, q>>].files[f] = branches[<<repo, q>>].files[f]
           /\ \A b \in Branches \ {<<repo, q>>} : branches'[b] = branches[b]
<1> PICK b : b = <<repo, q>>
  OBVIOUS
<1> PICK old : old = branches[b]
  OBVIOUS
<1> PICK new : new = [old EXCEPT !.files = [old.files EXCEPT ![p] = files[p]], !.ahead = TRUE]
  OBVIOUS
<1>1. /\ b \in Branches /\ branches \in [Branches -> BranchRecords \cup {NoBranch}]
      /\ old \in BranchRecords /\ files[p] \in Contents
  BY DEF WorkTypes, Branches
<1>2. old.files \in [Paths -> Contents]
  BY <1>1 DEF BranchRecords
<1>3. /\ new \in BranchRecords /\ new.files[p] = files[p]
      /\ \A f \in Paths \ {p} : new.files[f] = old.files[f]
  BY <1>1, <1>2 DEF BranchRecords
<1>4. branches' = [branches EXCEPT ![b] = new]
  BY <1>1 DEF Put
<1>5. new # NoBranch
  BY <1>3, BranchIsOne
<1> QED  BY <1>1, <1>3, <1>4, <1>5

LEMMA CommitInitInv == DeliveryInit => CommitInv
<1> SUFFICES ASSUME DeliveryInit  PROVE CommitInv
  OBVIOUS
<1>1. VerifierIdle \in VerifierRecords /\ VerifierIdle.at = "idle"
  BY DEF VerifierIdle, VerifierRecords, VerifierPlaces
<1>2. DOMAIN proven = {}
  BY DEF DeliveryInit
<1>3. /\ files \in [Paths -> Contents] /\ written \in [Requests -> SUBSET Paths]
      /\ \A q \in Requests : written[q] = {}
  BY DEF DeliveryInit, Contents
<1>4. branches \in [Branches -> BranchRecords \cup {NoBranch}]
  BY DEF DeliveryInit, Branches
<1>5. /\ queued = {} /\ commitSha = {} /\ work = [at |-> "idle", request |-> None]
      /\ verifier = VerifierIdle /\ gitDir = None
  BY DEF DeliveryInit
<1> QED
  BY <1>1, <1>2, <1>3, <1>4, <1>5 DEF CommitInv, WorkTypes, WrittenOnce, ClonedFirst, Delivering

----------------------------------------------------------------------------

LEMMA CalmStays == ASSUME Calm', incidents \subseteq incidents', binding' = binding  PROVE Calm
BY DEF Calm

LEMMA NotCalm ==
    ASSUME NEW kind \in {"github", "crash", "bind", "unbind", "remove", "close"}, Incident(kind)
    PROVE  ~Calm'
BY DEF Incident, Calm

\* Steps of the callers of open_request_pr, of the founder and of GitHub.
LEMMA RemoteInv ==
    ASSUME CommitInv, DOMAIN proven \subseteq Requests, binding \in Repos \cup {None},
           branches' \in [Branches -> BranchRecords \cup {NoBranch}],
           UNCHANGED <<gitDir, files, written, proven, commitSha, work, verifier>>,
           \A q \in queued' : q \in Requests /\ written[q] # {},
           Calm' => Calm /\ binding' = binding /\ BranchesGrow
    PROVE  CommitInv'
<1>1. WorkTypes'
  BY DEF CommitInv, WorkTypes
<1>2. WrittenOnce'
  BY DEF CommitInv, WrittenOnce
<1>3. ClonedFirst'
  BY DEF CommitInv, ClonedFirst
<1>4. ASSUME Calm, BranchesGrow, NEW q \in Requests, NEW paths, OnBranch(binding, q, paths)
      PROVE  branches'[<<binding, q>>] = branches[<<binding, q>>]
  BY <1>4 DEF Calm, BranchesGrow, OnBranch, Branches
<1>5. ASSUME Calm', NEW q \in Requests, NEW paths, OnBranch(binding, q, paths)
      PROVE  OnBranch(binding, q, paths)'
  <2> SUFFICES ASSUME binding' = binding  PROVE OnBranch(binding, q, paths)'
    BY <1>5
  <2>1. branches'[<<binding, q>>] = branches[<<binding, q>>]
    BY <1>4, <1>5
  <2> QED  BY <1>5, <2>1 DEF OnBranch
<1>6. Delivering'
  <2> SUFFICES ASSUME Calm'  PROVE Delivering'
    BY DEF Delivering
  <2>1. Calm /\ UNCHANGED binding /\ Delivering /\ WorkTypes
    BY DEF CommitInv
  <2>2. verifier.at = "put" => OnBranch(binding, verifier.request, verifier.put)'
    BY <1>5, <2>1 DEF Delivering, WorkTypes
  <2>3. \A q \in DOMAIN proven :
           (verifier.at \in {"verify", "branch", "put"} => q # verifier.request) =>
                  q \in commitSha /\ OnBranch(binding, q, written[q])'
    BY <1>5, <2>1 DEF Delivering
  <2> HIDE DEF OnBranch
  <2> QED  BY <2>1, <2>2, <2>3 DEF Delivering
<1> QED  BY <1>1, <1>2, <1>3, <1>6 DEF CommitInv

\* Steps of the verifier that leave GitHub and the workspace alone.
LEMMA VerifierOnly ==
    ASSUME CommitInv, UNCHANGED <<binding, gitDir, files, written, branches, work>>,
           incidents \subseteq incidents',
           commitSha \subseteq commitSha', commitSha' \subseteq Requests, queued' \subseteq queued,
           DOMAIN proven' \subseteq Requests, \A q \in DOMAIN proven' : written[q] # {},
           verifier' \in VerifierRecords,
           verifier'.at # "idle" => verifier'.request \in Requests /\ written[verifier'.request] # {},
           verifier'.at \in {"branch", "put"} => verifier'.repo # None,
           Calm =>
               /\ verifier'.at # "idle" => verifier'.repo = binding
               /\ verifier'.at # "put"
               /\ verifier'.at \in {"verify", "branch"} =>
                     verifier'.put = {} /\ verifier'.todo = written[verifier'.request]
               /\ \A q \in DOMAIN proven' :
                     (verifier'.at \in {"verify", "branch"} => q # verifier'.request) =>
                         q \in commitSha' /\ OnBranch(binding, q, written[q])
    PROVE  CommitInv'
<1>1. WorkTypes'
  BY DEF CommitInv, WorkTypes
<1>2. WrittenOnce'
  BY DEF CommitInv, WrittenOnce
<1>3. Calm' => Calm
  BY CalmStays
<1>4. ClonedFirst'
  BY <1>3 DEF CommitInv, ClonedFirst
<1>5. Delivering'
  BY <1>3 DEF Delivering, OnBranch
<1> QED  BY <1>1, <1>2, <1>4, <1>5 DEF CommitInv

LEMMA VerifyingCommits ==
    ASSUME DeliveryInv, CommitInv, Verifying
    PROVE  CommitInv'
<1> PICK v : v = verifier
  OBVIOUS
<1> PICK q : q = verifier.request
  OBVIOUS
<1>1. /\ v \in VerifierRecords /\ WorkTypes /\ verifier = v /\ v.request = q
      /\ v.at # "idle" => q \in Requests /\ written[q] # {}
      /\ DOMAIN proven \subseteq Requests /\ binding \in Repos \cup {None}
      /\ \A x \in DOMAIN proven : written[x] # {}
      /\ v.repo \in Repos \cup {None} /\ (v.at \in {"branch", "put"} => v.repo \in Repos)
  BY DEF CommitInv, WorkTypes, WrittenOnce, DeliveryInv, Shape
<1>2. /\ Calm /\ v.at # "idle" => v.repo = binding
      /\ Calm /\ v.at \in {"verify", "branch"} => v.put = {} /\ v.todo = written[q]
      /\ Calm /\ v.at = "put" =>
            v.put \cup v.todo = written[q] /\ OnBranch(binding, q, v.put)
      /\ Calm => \A x \in DOMAIN proven :
            (v.at \in {"verify", "branch", "put"} => x # q) => x \in commitSha /\ OnBranch(binding, x, written[x])
      /\ Calm => binding # None
  BY <1>1 DEF CommitInv, Delivering, Calm
<1>3. CASE RunVerification
  <2>1. PICK place \in {"advance", "branch"} :
           /\ verifier' = [v EXCEPT !.at = place]
           /\ place = "branch" => v.repo # None
           /\ place = "branch" => DOMAIN proven' = DOMAIN proven \cup {q}
           /\ place = "advance" =>
                 \/ DOMAIN proven' = DOMAIN proven \ {q}
                 \/ DOMAIN proven' = DOMAIN proven \cup {q} /\ v.repo = None
    BY <1>1, <1>3 DEF RunVerification
  <2>2. /\ v.at = "verify" /\ incidents' = incidents
        /\ UNCHANGED <<binding, gitDir, files, written, branches, work, queued, commitSha>>
    BY <1>1, <1>3 DEF RunVerification, Smooth, workspaceVars, remoteVars
  <2>3. /\ verifier' \in VerifierRecords /\ verifier'.at = place /\ verifier'.request = q
        /\ verifier'.repo = v.repo /\ verifier'.todo = v.todo /\ verifier'.put = v.put
    BY <1>1, <2>1 DEF VerifierRecords, VerifierPlaces
  <2>4. DOMAIN proven' \subseteq Requests /\ \A x \in DOMAIN proven' : written[x] # {}
    BY <1>1, <2>1, <2>2
  <2>5. Calm => \A x \in DOMAIN proven' :
           (place = "branch" => x # q) => x \in commitSha /\ OnBranch(binding, x, written[x])
    BY <1>2, <2>1, <2>2
  <2>6. commitSha' \subseteq Requests
    BY <1>1, <2>2 DEF WorkTypes
  <2> HIDE DEF OnBranch
  <2> QED  BY <1>1, <1>2, <2>1, <2>2, <2>3, <2>4, <2>5, <2>6, VerifierOnly
<1>4. ASSUME UNCHANGED <<binding, gitDir, files, written, queued, proven, commitSha, work>>,
             v.at \in {"branch", "put"}, verifier' \in VerifierRecords,
             verifier'.request = q, verifier'.repo = v.repo, verifier'.at \in {"put", "advance"},
             branches' \in [Branches -> BranchRecords \cup {NoBranch}],
             incidents \subseteq incidents',
             Calm' =>
                 /\ verifier'.at = "put" /\ verifier'.put \cup verifier'.todo = written[q]
                 /\ OnBranch(v.repo, q, verifier.put)'
                 /\ \A b \in Branches \ {<<v.repo, q>>} : branches[b] # NoBranch => branches'[b] = branches[b]
      PROVE  CommitInv'
  <2>1. WorkTypes'
    BY <1>1, <1>4 DEF WorkTypes
  <2>2. WrittenOnce'
    BY <1>1, <1>4 DEF CommitInv, WrittenOnce
  <2>3. Calm' => Calm
    BY <1>4, CalmStays
  <2>4. ClonedFirst'
    BY <1>4, <2>3 DEF CommitInv, ClonedFirst
  <2>5. Delivering'
    <3> SUFFICES ASSUME Calm'  PROVE Delivering'
      BY DEF Delivering
    <3>1. /\ Calm /\ binding \in Repos /\ v.repo = binding
          /\ \A x \in DOMAIN proven : x # q => x \in commitSha /\ OnBranch(binding, x, written[x])
      BY <1>1, <1>2, <1>4, <2>3
    <3>2. ASSUME NEW x \in DOMAIN proven, x # q  PROVE OnBranch(binding, x, written[x])'
      <4>1. OnBranch(binding, x, written[x])
        BY <3>1, <3>2
      <4>2. <<binding, x>> \in Branches \ {<<v.repo, q>>} /\ branches[<<binding, x>>] # NoBranch
        BY <1>1, <3>1, <3>2, <4>1 DEF Branches, OnBranch
      <4>3. branches'[<<binding, x>>] = branches[<<binding, x>>]
        BY <1>4, <4>2
      <4> QED  BY <1>4, <4>1, <4>3 DEF OnBranch
    <3>3. OnBranch(binding, q, verifier.put)'
      BY <1>4, <3>1 DEF OnBranch
    <3> HIDE DEF OnBranch
    <3> QED  BY <1>1, <1>4, <3>1, <3>2, <3>3 DEF Delivering
  <2> QED  BY <2>1, <2>2, <2>4, <2>5 DEF CommitInv
<1>5. CASE CommitBranch
  <2>1. /\ v.at = "branch" /\ UNCHANGED <<binding, gitDir, files, written, queued, proven, commitSha, work>>
        /\ incidents \subseteq incidents'
    BY <1>1, <1>5 DEF CommitBranch, Smooth, GithubFails, Incident, workspaceVars
  <2>2. CASE /\ EnsureRequestBranch(v.repo, q) /\ verifier' = [v EXCEPT !.at = "put"]
    <3>1. /\ verifier' \in VerifierRecords /\ verifier'.at = "put" /\ verifier'.request = q
          /\ verifier'.repo = v.repo /\ verifier'.todo = v.todo /\ verifier'.put = v.put
      BY <1>1, <2>2 DEF VerifierRecords, VerifierPlaces
    <3>2. BranchesGrow /\ branches'[<<v.repo, q>>] # NoBranch
      BY <1>1, <2>1, <2>2, EnsuredBranch
    <3>3. Calm' => verifier'.put = {} /\ verifier'.todo = written[q]
      BY <1>2, <2>1, <3>1, CalmStays
    <3>4. Calm' => OnBranch(v.repo, q, verifier.put)'
      BY <2>1, <3>1, <3>2, <3>3 DEF OnBranch
    <3> QED  BY <1>4, <2>1, <3>1, <3>2, <3>3, <3>4 DEF BranchesGrow
  <2>3. CASE GithubFails /\ verifier' = [v EXCEPT !.at = "advance"] /\ UNCHANGED branches
    <3>1. /\ verifier' \in VerifierRecords /\ verifier'.at = "advance" /\ verifier'.request = q
          /\ verifier'.repo = v.repo
      BY <1>1, <2>3 DEF VerifierRecords, VerifierPlaces
    <3>2. ~Calm' /\ branches' \in [Branches -> BranchRecords \cup {NoBranch}]
      BY <1>1, <2>3, NotCalm DEF GithubFails, WorkTypes
    <3> QED  BY <1>4, <2>1, <3>1, <3>2
  <2> QED  BY <1>1, <1>5, <2>2, <2>3 DEF CommitBranch
<1>6. ASSUME NEW p \in Paths, PutFile(p)  PROVE CommitInv'
  <2>1. /\ v.at = "put" /\ p \in v.todo /\ incidents \subseteq incidents'
        /\ UNCHANGED <<binding, gitDir, files, written, queued, proven, commitSha, work>>
    BY <1>1, <1>6 DEF PutFile, Smooth, GithubFails, Incident, workspaceVars
  <2>2. Calm' => /\ Calm /\ v.repo = binding /\ v.put \cup v.todo = written[q]
                 /\ OnBranch(v.repo, q, v.put) /\ files[p] \in Requests
    BY <1>1, <1>2, <2>1, CalmStays DEF CommitInv, ClonedFirst
  <2>3. CASE /\ branches[<<v.repo, q>>] # NoBranch /\ Put(v.repo, q, p)
             /\ verifier' = [v EXCEPT !.todo = @ \ {p}, !.put = @ \cup {p}]
    <3>1. /\ verifier' \in VerifierRecords /\ verifier'.at = "put" /\ verifier'.request = q
          /\ verifier'.repo = v.repo /\ verifier'.todo = v.todo \ {p} /\ verifier'.put = v.put \cup {p}
      BY <1>1, <2>1, <2>3 DEF VerifierRecords, VerifierPlaces
    <3>2. /\ branches' \in [Branches -> BranchRecords \cup {NoBranch}]
          /\ branches'[<<v.repo, q>>] # NoBranch
          /\ branches'[<<v.repo, q>>].files[p] = files[p]
          /\ \A f \in Paths \ {p} : branches'[<<v.repo, q>>].files[f] = branches[<<v.repo, q>>].files[f]
          /\ \A b \in Branches \ {<<v.repo, q>>} : branches'[b] = branches[b]
      BY <1>1, <2>1, <2>3, PutLands
    <3>3. Calm' => verifier'.put \cup verifier'.todo = written[q]
      BY <2>1, <2>2, <3>1
    <3>4. v.put \subseteq Paths
      BY <1>1 DEF VerifierRecords
    <3>5. Calm' => OnBranch(v.repo, q, verifier.put)'
      BY <2>1, <2>2, <3>1, <3>2, <3>4 DEF OnBranch
    <3> QED  BY <1>4, <2>1, <3>1, <3>2, <3>3, <3>5
  <2>4. CASE /\ UNCHANGED branches
             /\ files[p] = Absent \/ ~Existed(v.repo, q) \/ GithubFails
             /\ \/ verifier' = [v EXCEPT !.todo = @ \ {p}]
                \/ verifier' = [v EXCEPT !.at = "advance"]
    <3>1. ~Calm'
      <4>1. Calm' => files[p] # Absent /\ Existed(v.repo, q)
        BY <2>2, RequestsAssumption DEF OnBranch, Existed
      <4>2. GithubFails => ~Calm'
        BY NotCalm DEF GithubFails
      <4> QED  BY <2>4, <4>1, <4>2
    <3>2. /\ verifier' \in VerifierRecords /\ verifier'.at \in {"put", "advance"} /\ verifier'.request = q
          /\ verifier'.repo = v.repo
      BY <1>1, <2>1, <2>4 DEF VerifierRecords, VerifierPlaces
    <3>3. branches' \in [Branches -> BranchRecords \cup {NoBranch}]
      BY <1>1, <2>4 DEF WorkTypes
    <3> QED  BY <1>4, <2>1, <3>1, <3>2, <3>3
  <2>5. Existed(v.repo, q) => branches[<<v.repo, q>>] # NoBranch
    BY DEF Existed
  <2> QED
    BY <1>1, <1>6, <2>3, <2>4, <2>5 DEF PutFile
<1>7. CASE CommitDone
  <2>1. /\ v.at = "put" /\ v.todo = {} /\ incidents' = incidents
        /\ commitSha' = IF v.put # {} THEN commitSha \cup {q} ELSE commitSha
        /\ verifier' = [v EXCEPT !.at = "advance"]
        /\ UNCHANGED <<binding, gitDir, files, written, branches, work, queued, proven>>
    BY <1>1, <1>7 DEF CommitDone, Smooth, workspaceVars, remoteVars
  <2>2. /\ verifier' \in VerifierRecords /\ verifier'.at = "advance" /\ verifier'.request = q
        /\ verifier'.repo = v.repo
    BY <1>1, <2>1 DEF VerifierRecords, VerifierPlaces
  <2>3. commitSha \subseteq commitSha' /\ commitSha' \subseteq Requests
    BY <1>1, <2>1 DEF WorkTypes
  <2>4. Calm => v.put = written[q] /\ OnBranch(binding, q, written[q]) /\ q \in commitSha'
    BY <1>1, <1>2, <2>1
  <2>5. Calm => \A x \in DOMAIN proven' : x \in commitSha' /\ OnBranch(binding, x, written[x])
    BY <1>2, <2>1, <2>3, <2>4
  <2> HIDE DEF OnBranch
  <2> QED  BY <1>1, <1>2, <2>1, <2>2, <2>3, <2>5, VerifierOnly
<1>8. CASE AdvanceRequestAfterProof \/ HookReturned
  <2>1. /\ v.at \in {"advance", "pr"} /\ incidents' = incidents
        /\ verifier' \in {VerifierIdle, [v EXCEPT !.at = "pr"]}
        /\ UNCHANGED <<binding, gitDir, files, written, branches, work, queued, proven, commitSha>>
    BY <1>1, <1>8 DEF AdvanceRequestAfterProof, HookReturned, Smooth, workspaceVars, remoteVars
  <2>2. /\ verifier' \in VerifierRecords /\ verifier'.at \in {"idle", "pr"}
        /\ verifier'.at = "pr" => verifier'.request = q /\ verifier'.repo = v.repo
    BY <1>1, <2>1 DEF VerifierRecords, VerifierPlaces, VerifierIdle
  <2>3. commitSha' \subseteq Requests
    BY <1>1, <2>1 DEF WorkTypes
  <2>4. Calm => \A x \in DOMAIN proven' : x \in commitSha' /\ OnBranch(binding, x, written[x])
    BY <1>2, <2>1
  <2> HIDE DEF OnBranch
  <2> QED  BY <1>1, <1>2, <2>1, <2>2, <2>3, <2>4, VerifierOnly
<1> QED  BY <1>3, <1>5, <1>6, <1>7, <1>8 DEF Verifying


\* Steps of the dispatch, which writes the workspace.
LEMMA WorkCommits ==
    ASSUME CommitInv, DOMAIN proven \subseteq Requests,
           UNCHANGED <<binding, branches, proven, commitSha, verifier>>, incidents \subseteq incidents',
           files' \in [Paths -> Contents], written' \in [Requests -> SUBSET Paths],
           queued' \subseteq Requests,
           work' \in [at : {"idle", "clone", "write"}, request : Requests \cup {None}],
           work'.at # "idle" => work'.request \in Requests /\ written'[work'.request] = {},
           \A q \in Requests : written[q] # {} => written'[q] = written[q],
           \A q \in queued' : written'[q] # {},
           ClonedFirst'
    PROVE  CommitInv'
<1>1. /\ verifier.at # "idle" => verifier.request \in Requests /\ written[verifier.request] # {}
      /\ \A q \in DOMAIN proven : written[q] # {}
  BY DEF CommitInv, WorkTypes, WrittenOnce
<1>2. WorkTypes'
  BY DEF CommitInv, WorkTypes
<1>3. WrittenOnce'
  BY <1>1 DEF CommitInv, WrittenOnce
<1>4. Delivering'
  <2> SUFFICES ASSUME Calm'  PROVE Delivering'
    BY DEF Delivering
  <2>1. Calm
    BY CalmStays
  <2>2. /\ verifier.at # "idle" => written'[verifier.request] = written[verifier.request]
        /\ \A q \in DOMAIN proven : written'[q] = written[q]
    BY <1>1
  <2>3. ASSUME NEW q, NEW paths, OnBranch(binding, q, paths)  PROVE OnBranch(binding, q, paths)'
    BY <2>3 DEF OnBranch
  <2>4. verifier.at = "put" => OnBranch(binding, verifier.request, verifier.put)'
    BY <2>1, <2>3 DEF CommitInv, Delivering
  <2>5. \A q \in DOMAIN proven :
           (verifier.at \in {"verify", "branch", "put"} => q # verifier.request) =>
               q \in commitSha /\ OnBranch(binding, q, written[q])'
    <3> SUFFICES ASSUME NEW q \in DOMAIN proven, verifier.at \in {"verify", "branch", "put"} => q # verifier.request
                 PROVE  q \in commitSha /\ OnBranch(binding, q, written[q])'
      OBVIOUS
    <3>1. q \in commitSha /\ OnBranch(binding, q, written[q])
      BY <2>1 DEF CommitInv, Delivering
    <3>2. written'[q] = written[q]
      BY <2>2
    <3> QED  BY <3>1, <3>2 DEF OnBranch
  <2> HIDE DEF OnBranch
  <2> QED  BY <2>1, <2>2, <2>4, <2>5 DEF CommitInv, Delivering
<1> QED  BY <1>2, <1>3, <1>4 DEF CommitInv

LEMMA StartWorkCommits ==
    ASSUME DeliveryInv, CommitInv, NEW q \in Requests, StartWork(q)
    PROVE  CommitInv'
<1>1. /\ UNCHANGED <<binding, gitDir, files, written, branches, queued, proven, commitSha, verifier>>
      /\ incidents' = incidents /\ written[q] = {}
  BY DEF StartWork, workspaceVars, remoteVars, Smooth
<1>2. /\ work' \in [at : {"idle", "clone", "write"}, request : Requests \cup {None}]
      /\ work'.request = q
      /\ work'.at = IF binding = None \/ gitDir # None THEN "write" ELSE "clone"
  BY DEF StartWork
<1>3. ClonedFirst'
  BY <1>1, <1>2, CalmStays DEF CommitInv, ClonedFirst, Calm
<1> QED
  BY <1>1, <1>2, <1>3, WorkCommits DEF CommitInv, WorkTypes, WrittenOnce, DeliveryInv, Shape

LEMMA EnsureRepoClonedCommits ==
    ASSUME DeliveryInv, CommitInv, EnsureRepoCloned
    PROVE  CommitInv'
<1>1. /\ UNCHANGED <<binding, written, branches, queued, proven, commitSha, verifier>>
      /\ incidents \subseteq incidents' /\ work.at = "clone" /\ binding \in Repos
      /\ DOMAIN proven \subseteq Requests
  BY DEF EnsureRepoCloned, remoteVars, Smooth, GithubFails, Incident, DeliveryInv, Shape
<1>2. /\ WorkTypes /\ WrittenOnce /\ ClonedFirst
      /\ work \in [at : {"idle", "clone", "write"}, request : Requests \cup {None}]
  BY DEF CommitInv, WorkTypes
<1>3. /\ work' \in [at : {"idle", "clone", "write"}, request : Requests \cup {None}]
      /\ work'.request = work.request /\ work'.at = "write"
  BY <1>2 DEF EnsureRepoCloned
<1>4. CASE gitDir' = binding /\ MergeInto(binding, BasePaths) /\ Smooth
  <2>1. files' \in [Paths -> Contents]
    BY <1>1, <1>2, <1>4 DEF MergeInto, WorkTypes, Contents
  <2>2. Calm' => \A q \in Requests : written[q] = {}
    BY <1>1, <1>2, CalmStays DEF ClonedFirst
  <2>3. Calm' => gitDir' # None
    BY <1>1, <1>4 DEF Calm
  <2>4. ClonedFirst'
    BY <1>1, <1>3, <2>2, <2>3 DEF ClonedFirst
  <2> QED  BY <1>1, <1>2, <1>3, <2>1, <2>4, WorkCommits DEF WorkTypes, WrittenOnce
<1>5. CASE GithubFails /\ UNCHANGED <<gitDir, merged, files>>
  <2>1. ClonedFirst'
    BY <1>5, NotCalm DEF GithubFails, ClonedFirst
  <2>2. files' \in [Paths -> Contents]
    BY <1>2, <1>5 DEF WorkTypes
  <2> QED  BY <1>1, <1>2, <1>3, <2>1, <2>2, WorkCommits DEF WorkTypes, WrittenOnce
<1> QED  BY <1>4, <1>5 DEF EnsureRepoCloned

LEMMA WriteCommits ==
    ASSUME DeliveryInv, CommitInv, NEW paths \in (SUBSET Paths) \ {{}},
           NEW removed \in SUBSET (Paths \ paths), Write(paths, removed)
    PROVE  CommitInv'
<1> PICK q : q = work.request
  OBVIOUS
<1>1. /\ UNCHANGED <<binding, gitDir, branches, proven, commitSha, verifier>>
      /\ incidents \subseteq incidents' /\ work.at = "write" /\ DOMAIN proven \subseteq Requests
      /\ work' = [at |-> "idle", request |-> None]
      /\ written' = [written EXCEPT ![q] = paths] /\ queued' = queued \cup {q}
  BY DEF Write, remoteVars, Smooth, Incident, DeliveryInv, Shape
<1>2. /\ WorkTypes /\ WrittenOnce /\ ClonedFirst /\ q \in Requests /\ written[q] = {}
      /\ written \in [Requests -> SUBSET Paths] /\ files \in [Paths -> Contents]
  BY <1>1 DEF CommitInv, WorkTypes, WrittenOnce
<1>3. /\ files' \in [Paths -> Contents]
      /\ \A p \in Paths : p \in paths => files'[p] = q
      /\ removed = {} => \A p \in Paths : p \notin paths => files'[p] = files[p]
  BY <1>2 DEF Write, Contents
<1>4. Calm' => Calm /\ removed = {}
  <2>1. removed # {} => Incident("remove")
    BY DEF Write
  <2> QED  BY <1>1, <2>1, CalmStays, NotCalm
<1>5. /\ written' \in [Requests -> SUBSET Paths] /\ written'[q] = paths /\ paths # {}
      /\ \A x \in Requests : x # q => written'[x] = written[x]
  <2>1. paths \in SUBSET Paths /\ paths # {}
    OBVIOUS
  <2> QED  BY <1>1, <1>2, <2>1
<1>6. ClonedFirst'
  <2> SUFFICES ASSUME Calm'
               PROVE  /\ gitDir # None /\ \A x \in Requests : \A p \in written'[x] : files'[p] \in Requests
    BY <1>1 DEF ClonedFirst
  <2>1. gitDir # None /\ \A x \in Requests : \A p \in written[x] : files[p] \in Requests
    BY <1>1, <1>2, <1>4 DEF ClonedFirst
  <2> QED  BY <1>2, <1>3, <1>4, <1>5, <2>1
<1>7. /\ work' \in [at : {"idle", "clone", "write"}, request : Requests \cup {None}] /\ work'.at = "idle"
      /\ queued' \subseteq Requests /\ \A x \in queued' : written'[x] # {}
  BY <1>1, <1>2, <1>5 DEF WorkTypes, WrittenOnce
<1>8. \A x \in Requests : written[x] # {} => written'[x] = written[x]
  BY <1>2, <1>5
<1> QED  BY <1>1, <1>3, <1>5, <1>6, <1>7, <1>8, WorkCommits

LEMMA TakeProofCommits ==
    ASSUME DeliveryInv, CommitInv, NEW q \in Requests, TakeProof(q)
    PROVE  CommitInv'
<1>1. /\ UNCHANGED <<binding, gitDir, files, written, branches, work, proven, commitSha>>
      /\ incidents' = incidents /\ verifier.at = "idle" /\ q \in queued /\ queued' \subseteq queued
      /\ verifier' = [at |-> "verify", request |-> q, repo |-> binding, todo |-> written[q], put |-> {}]
  BY DEF TakeProof, workspaceVars, remoteVars, Smooth
<1>2. /\ DOMAIN proven \subseteq Requests /\ binding \in Repos \cup {None}
      /\ \A x \in DOMAIN proven : written[x] # {}
      /\ written[q] # {} /\ written[q] \subseteq Paths /\ commitSha \subseteq Requests
  BY <1>1 DEF DeliveryInv, Shape, CommitInv, WorkTypes, WrittenOnce
<1>3. /\ verifier' \in VerifierRecords /\ verifier'.at = "verify" /\ verifier'.request = q
      /\ verifier'.repo = binding /\ verifier'.todo = written[q] /\ verifier'.put = {}
  BY <1>1, <1>2 DEF VerifierRecords, VerifierPlaces
<1>4. Calm => \A x \in DOMAIN proven' : x \in commitSha' /\ OnBranch(binding, x, written[x])
  BY <1>1 DEF CommitInv, Delivering
<1> HIDE DEF OnBranch
<1> QED  BY <1>1, <1>2, <1>3, <1>4, VerifierOnly

----------------------------------------------------------------------------

LEMMA OpeningCommits ==
    ASSUME DeliveryInv, CommitInv, NEW o \in Openers, OpeningPr(o)
    PROVE  CommitInv'
<1>1. /\ UNCHANGED <<binding, gitDir, files, written, queued, proven, commitSha, work, verifier>>
      /\ incidents \subseteq incidents'
  BY DEF OpeningPr, PrBranch, PrList, PrUpdate, PrCreate, PrRecord, prFrame, workspaceVars,
         Smooth, GithubFails, Incident
<1>2. BranchesGrow
  <2>1. CASE UNCHANGED branches
    BY <2>1 DEF BranchesGrow, CommitInv, WorkTypes
  <2>2. CASE opener[o].at = "branch" /\ EnsureRequestBranch(opener[o].repo, opener[o].request)
    <3>1. opener[o].repo \in Repos /\ opener[o].request \in Requests
      BY <2>2 DEF DeliveryInv, OpenerIsAbout, Branches
    <3> QED  BY <2>2, <3>1, EnsuredBranch DEF CommitInv
  <2> QED  BY <2>1, <2>2 DEF OpeningPr, PrBranch, PrList, PrUpdate, PrCreate, PrRecord, remoteVars
<1>3. Calm' => Calm
  BY <1>1, CalmStays
<1>4. DOMAIN proven \subseteq Requests /\ binding \in Repos \cup {None}
  BY DEF DeliveryInv, Shape
<1>5. \A q \in queued' : q \in Requests /\ written[q] # {}
  BY <1>1 DEF CommitInv, WorkTypes, WrittenOnce
<1>6. branches' \in [Branches -> BranchRecords \cup {NoBranch}]
  BY <1>2 DEF BranchesGrow
<1> QED  BY <1>1, <1>2, <1>3, <1>4, <1>5, <1>6, RemoteInv

\* A death: what the workers had in hand is gone.
LEMMA DeathCommits ==
    ASSUME DeliveryInv, CommitInv, ~Calm', UNCHANGED <<branches, written, queued, proven, commitSha>>,
           files' \in [Paths -> Contents],
           work' = [at |-> "idle", request |-> None], verifier' = VerifierIdle
    PROVE  CommitInv'
<1>1. VerifierIdle \in VerifierRecords /\ VerifierIdle.at = "idle"
  BY DEF VerifierIdle, VerifierRecords, VerifierPlaces
<1>2. WorkTypes' /\ WrittenOnce'
  BY <1>1 DEF CommitInv, WorkTypes, WrittenOnce
<1>3. ClonedFirst' /\ Delivering'
  BY DEF ClonedFirst, Delivering
<1> QED  BY <1>2, <1>3 DEF CommitInv

LEMMA InterventionsCommit ==
    ASSUME DeliveryInv, CommitInv, Interventions
    PROVE  CommitInv'
<1>1. /\ DOMAIN proven \subseteq Requests /\ binding \in Repos \cup {None}
      /\ \A q \in queued : q \in Requests /\ written[q] # {}
      /\ WorkTypes /\ branches \in [Branches -> BranchRecords \cup {NoBranch}]
      /\ files \in [Paths -> Contents]
  BY DEF DeliveryInv, Shape, CommitInv, WorkTypes, WrittenOnce
<1>2. ASSUME ~Calm', branches' \in [Branches -> BranchRecords \cup {NoBranch}],
             UNCHANGED <<gitDir, files, written, queued, proven, commitSha, work, verifier>>
      PROVE  CommitInv'
  BY <1>1, <1>2, RemoteInv
<1>3. CASE DeleteRepoConfig
  <2>1. UNCHANGED <<gitDir, files, written, branches, queued, proven, commitSha, work, verifier>>
    BY <1>3 DEF DeleteRepoConfig, workspaceVars, remoteVars
  <2>2. ~Calm'
    BY <1>3, NotCalm DEF DeleteRepoConfig
  <2> QED  BY <1>1, <1>2, <2>1, <2>2
<1>4. ASSUME NEW r \in Repos, UpsertRepoConfig(r)  PROVE CommitInv'
  <2>1. UNCHANGED <<gitDir, files, written, branches, queued, proven, commitSha, work, verifier>>
    BY <1>4 DEF UpsertRepoConfig, workspaceVars, remoteVars
  <2>2. ~Calm'
    BY <1>4, NotCalm DEF UpsertRepoConfig
  <2> QED  BY <1>1, <1>2, <2>1, <2>2
<1>5. CASE CrashOutsideMerge
  <2>1. /\ UNCHANGED <<branches, files, written, queued, proven, commitSha>>
        /\ work' = [at |-> "idle", request |-> None] /\ verifier' = VerifierIdle
    BY <1>5 DEF CrashOutsideMerge, workspaceVars, remoteVars
  <2>2. ~Calm'
    BY <1>5, NotCalm DEF CrashOutsideMerge
  <2> QED  BY <1>1, <2>1, <2>2, DeathCommits
<1>6. CASE CrashInMerge
  <2>1. /\ UNCHANGED <<branches, written, queued, proven, commitSha>> /\ binding \in Repos
        /\ work' = [at |-> "idle", request |-> None] /\ verifier' = VerifierIdle
    BY <1>1, <1>6 DEF CrashInMerge, remoteVars
  <2>2. PICK entries : MergeInto(binding, entries)
    BY <1>6 DEF CrashInMerge
  <2>3. files' \in [Paths -> Contents]
    BY <1>1, <2>1, <2>2 DEF MergeInto, Contents
  <2>4. ~Calm'
    BY <1>6, NotCalm DEF CrashInMerge
  <2> QED  BY <2>1, <2>3, <2>4, DeathCommits
<1>7. ASSUME NEW q \in Requests, OpenPrForRequest(q) \/ VerifyDeliverable(q)  PROVE CommitInv'
  <2>1. /\ UNCHANGED <<binding, gitDir, files, written, branches, proven, commitSha, work, verifier>>
        /\ incidents \subseteq incidents'
        /\ queued' = queued \/ (queued' = queued \cup {q} /\ written[q] # {})
    BY <1>7 DEF OpenPrForRequest, VerifyDeliverable, prFrame, workspaceVars, remoteVars, Incident
  <2>2. \A x \in queued' : x \in Requests /\ written[x] # {}
    BY <1>1, <2>1
  <2>3. BranchesGrow
    BY <1>1, <2>1 DEF BranchesGrow
  <2>4. Calm' => Calm
    BY <2>1, CalmStays
  <2> QED  BY <1>1, <2>1, <2>2, <2>3, <2>4, RemoteInv
<1>8. ASSUME NEW q \in Requests, EnsureBranchForRequest(q)  PROVE CommitInv'
  <2>1. /\ UNCHANGED <<binding, gitDir, files, written, queued, proven, commitSha, work, verifier>>
        /\ incidents \subseteq incidents' /\ binding \in Repos /\ EnsureRequestBranch(binding, q)
    BY <1>1, <1>8 DEF EnsureBranchForRequest, prFrame, workspaceVars, Incident
  <2>2. BranchesGrow
    BY <1>1, <2>1, EnsuredBranch
  <2>3. branches' \in [Branches -> BranchRecords \cup {NoBranch}]
    BY <2>2 DEF BranchesGrow
  <2>4. Calm' => Calm
    BY <2>1, CalmStays
  <2> QED  BY <1>1, <2>1, <2>2, <2>3, <2>4, RemoteInv
<1>9. ASSUME NEW q \in Requests, NEW r \in Repos, ClosePull(r, q)  PROVE CommitInv'
  <2>1. /\ UNCHANGED <<gitDir, files, written, queued, proven, commitSha, work, verifier>>
        /\ branches' \in {branches, [branches EXCEPT ![<<r, q>>] = NoBranch]}
    BY <1>9 DEF ClosePull, prFrame, workspaceVars
  <2>2. branches' \in [Branches -> BranchRecords \cup {NoBranch}]
    BY <1>1, <2>1
  <2>3. ~Calm'
    BY <1>9, NotCalm DEF ClosePull
  <2> QED  BY <1>2, <2>1, <2>2, <2>3
<1> QED  BY <1>3, <1>4, <1>5, <1>6, <1>7, <1>8, <1>9 DEF Interventions

LEMMA CommitStepInv == DeliveryInv /\ CommitInv /\ [DeliveryNext]_deliveryVars => CommitInv'
<1> SUFFICES ASSUME DeliveryInv, CommitInv, [DeliveryNext]_deliveryVars  PROVE CommitInv'
  OBVIOUS
<1>1. CASE UNCHANGED deliveryVars
  <2>1. /\ UNCHANGED <<binding, gitDir, files, written, queued, proven, commitSha, work, verifier>>
        /\ UNCHANGED <<branches, incidents>>
    BY <1>1 DEF deliveryVars, workspaceVars, remoteVars
  <2> QED
    BY <2>1 DEF CommitInv, WorkTypes, WrittenOnce, Calm, ClonedFirst, OnBranch, Delivering
<1> QED
  BY <1>1, StartWorkCommits, TakeProofCommits, EnsureRepoClonedCommits, WriteCommits,
     VerifyingCommits, InterventionsCommit, OpeningCommits
  DEF DeliveryNext, Working

\* process_one (workers/verifier_worker.py): without a failure and with the
\* binding left alone, what it has verified for a bound project is on the
\* branch of its request as a whole by the time the request ships, whatever
\* the other requests write in the shared workspace in between.
THEOREM VerifiedIsOnItsBranch == DeliverySpec => []VerifiedIsCommitted
<1>1. DeliveryInv /\ CommitInv => VerifiedIsCommitted
  <2> SUFFICES ASSUME DeliveryInv, CommitInv, Calm, NEW q \in DOMAIN proven,
                      q = verifier.request => verifier.at \in {"advance", "pr"}
               PROVE  q \in commitSha /\ \A p \in written[q] : branches[binding, q].files[p] \in Requests
    BY DEF VerifiedIsCommitted, Calm
  <2> QED  BY DEF CommitInv, Delivering, OnBranch
<1> QED  BY <1>1, DeliveryInitInv, DeliveryStepInv, CommitInitInv, CommitStepInv, PTL DEF DeliverySpec

-----------------------------------------------------------------------------
(* The types of delivery's state.  That a pull request cannot be closed more  *)
(* often than the type says rests on the bound: the founder closes once.      *)

RestTypes ==
    /\ gitDir \in Repos \cup {None} /\ merged \subseteq BasePaths
    /\ prNumber \in [Requests -> Repos \cup {None}]
    /\ incidents \subseteq Incidents
    /\ \A b \in Branches : pulls[b].closed <= 1

LEMMA RestInitInv == DeliveryInit => RestTypes
BY DEF DeliveryInit, RestTypes, Branches

\* A step that touches none of it, whatever happens on the way.
LEMMA RestKept ==
    ASSUME RestTypes, UNCHANGED <<gitDir, merged, prNumber, pulls>>,
           incidents' \subseteq incidents \cup Incidents
    PROVE  RestTypes'
BY DEF RestTypes

LEMMA IncidentsAreKinds ==
    /\ \A kind : Incident(kind) => incidents' \subseteq incidents \cup Incidents
    /\ Smooth => incidents' \subseteq incidents \cup Incidents
BY DEF Incident, Smooth

LEMMA RestStepInv == DeliveryInv /\ RestTypes /\ [DeliveryNext]_deliveryVars => RestTypes'
<1> SUFFICES ASSUME DeliveryInv, RestTypes, [DeliveryNext]_deliveryVars  PROVE RestTypes'
  OBVIOUS
<1> USE IncidentsAreKinds DEF GithubFails, workspaceVars, remoteVars, prFrame
<1>1. ASSUME NEW q \in Requests, StartWork(q) \/ TakeProof(q)  PROVE RestTypes'
  BY <1>1, RestKept DEF StartWork, TakeProof
<1>2. CASE EnsureRepoCloned
  <2>1. binding \in Repos
    BY <1>2 DEF EnsureRepoCloned, DeliveryInv, Shape
  <2>2. incidents' \subseteq incidents \cup Incidents /\ UNCHANGED <<prNumber, pulls>>
    BY <1>2 DEF EnsureRepoCloned
  <2>3. \/ gitDir' = binding /\ merged' = BasePaths
        \/ UNCHANGED <<gitDir, merged>>
    BY <1>2 DEF EnsureRepoCloned, MergeInto
  <2> QED  BY <2>1, <2>2, <2>3 DEF RestTypes
<1>3. ASSUME NEW paths, NEW removed, Write(paths, removed)  PROVE RestTypes'
  BY <1>3, RestKept DEF Write
<1>4. CASE Verifying
  BY <1>4, RestKept
  DEF Verifying, RunVerification, CommitBranch, PutFile, CommitDone, AdvanceRequestAfterProof, HookReturned
<1>5. CASE DeleteRepoConfig \/ CrashOutsideMerge
  BY <1>5, RestKept DEF DeleteRepoConfig, CrashOutsideMerge
<1>6. CASE CrashInMerge
  <2>1. PICK entries \in SUBSET BasePaths : merged' = entries /\ gitDir' \in {None, binding}
    BY <1>6 DEF CrashInMerge, MergeInto
  <2>2. binding \in Repos
    BY <1>6 DEF CrashInMerge, DeliveryInv, Shape
  <2>3. incidents' \subseteq incidents \cup Incidents /\ UNCHANGED <<prNumber, pulls>>
    BY <1>6 DEF CrashInMerge
  <2> QED  BY <2>1, <2>2, <2>3 DEF RestTypes
<1>7. ASSUME NEW r, UpsertRepoConfig(r)  PROVE RestTypes'
  BY <1>7, RestKept DEF UpsertRepoConfig
<1>8. ASSUME NEW q \in Requests, OpenPrForRequest(q) \/ VerifyDeliverable(q) \/ EnsureBranchForRequest(q)
      PROVE  RestTypes'
  BY <1>8, RestKept DEF OpenPrForRequest, VerifyDeliverable, EnsureBranchForRequest
<1>9. ASSUME NEW r \in Repos, NEW q \in Requests, ClosePull(r, q)  PROVE RestTypes'
  <2> DEFINE b == <<r, q>>
  <2>1. /\ pulls' = [pulls EXCEPT ![b] = [open |-> 0, closed |-> pulls[b].closed + 1]]
        /\ "close" \notin incidents /\ UNCHANGED <<gitDir, merged, prNumber>>
        /\ incidents' \subseteq incidents \cup Incidents
    BY <1>9 DEF ClosePull, Incident
  <2>2. \A c \in Branches : pulls[c].closed = 0
    BY <2>1 DEF DeliveryInv, NoneClosed
  <2>3. b \in Branches /\ pulls \in [Branches -> PullCounts]
    BY DEF Branches, DeliveryInv, Shape
  <2> HIDE DEF b
  <2>4. \A c \in Branches : pulls'[c].closed <= 1
    BY <2>1, <2>2, <2>3
  <2> QED  BY <2>1, <2>4 DEF RestTypes
<1>10. ASSUME NEW o \in Openers, PrCreate(o)  PROVE RestTypes'
  <2> DEFINE b == <<opener[o].repo, opener[o].request>>
  <2>1. pulls \in [Branches -> PullCounts] /\ b \in Branches
    BY <1>10 DEF PrCreate, DeliveryInv, Shape, OpenerIsAbout
  <2>2. pulls' = pulls \/ pulls' = [pulls EXCEPT ![b].open = 1]
    BY <1>10 DEF PrCreate
  <2>3. \A c \in Branches : pulls'[c].closed = pulls[c].closed
    BY <2>1, <2>2 DEF PullCounts
  <2>4. incidents' \subseteq incidents \cup Incidents /\ UNCHANGED <<gitDir, merged, prNumber>>
    BY <1>10 DEF PrCreate
  <2> QED  BY <2>3, <2>4 DEF RestTypes
<1>11. ASSUME NEW o \in Openers, PrRecord(o)  PROVE RestTypes'
  <2>1. opener[o].repo \in Repos
    BY <1>11 DEF PrRecord, DeliveryInv, OpenerIsAbout, Branches
  <2>2. /\ prNumber' = [prNumber EXCEPT ![opener[o].request] = opener[o].repo]
        /\ incidents' \subseteq incidents \cup Incidents /\ UNCHANGED <<gitDir, merged, pulls>>
    BY <1>11 DEF PrRecord
  <2> QED  BY <2>1, <2>2 DEF RestTypes
<1>12. ASSUME NEW o \in Openers, PrBranch(o) \/ PrList(o) \/ PrUpdate(o)  PROVE RestTypes'
  BY <1>12, RestKept DEF PrBranch, PrList, PrUpdate
<1>13. CASE UNCHANGED deliveryVars
  BY <1>13, RestKept DEF deliveryVars
<1> QED
  BY <1>1, <1>2, <1>3, <1>4, <1>5, <1>6, <1>7, <1>8, <1>9, <1>10, <1>11, <1>12, <1>13
  DEF DeliveryNext, Working, Interventions, OpeningPr

\* The types of delivery's state, for any requests, repositories and incidents.
THEOREM DeliveryTypeCorrect == DeliverySpec => []DeliveryTypeOK
<1>1. DeliveryInv /\ CommitInv /\ RestTypes => DeliveryTypeOK
  <2> SUFFICES ASSUME DeliveryInv, CommitInv, RestTypes  PROVE DeliveryTypeOK
    OBVIOUS
  <2>1. pulls \in [Branches -> [open : 0 .. 1, closed : 0 .. 2]]
    <3>1. pulls \in [Branches -> PullCounts] /\ \A b \in Branches : pulls[b].closed <= 1
      BY DEF DeliveryInv, Shape, RestTypes
    <3>2. \A b \in Branches : pulls[b] \in [open : 0 .. 1, closed : 0 .. 2]
      BY <3>1 DEF PullCounts
    <3> QED  BY <3>1, <3>2
  <2>2. \A o \in Openers : opener[o].at \in OpenerPlaces
    BY DEF DeliveryInv, Shape, OpenerRecords
  <2> QED
    BY <2>1, <2>2
    DEF DeliveryTypeOK, DeliveryInv, Shape, CommitInv, WorkTypes, RestTypes, Branches, BranchRecords,
        OpenerPlaces, VerifierRecords, VerifierPlaces
<1> QED
  BY <1>1, DeliveryInitInv, DeliveryStepInv, CommitInitInv, CommitStepInv, RestInitInv, RestStepInv, PTL
  DEF DeliverySpec

-----------------------------------------------------------------------------
(* The way from a tool call to the pull request.  A step of it is a step of  *)
(* one component, and a stutter of the others.                               *)

\* The components share no state: on the whole way each of them behaves as its
\* own specification says, so every theorem about one holds of it there.
THEOREM ComponentsApart ==
    ProofDeliverySpec => ToolsSpec /\ VerificationSpec /\ DeliverySpec /\ MigrationSpec
<1>1. Init => ToolsInit /\ VerificationInit /\ DeliveryInit /\ MigrationInit
  BY DEF Init
<1>2. [Next]_proofDeliveryVars => /\ [ToolsNext]_toolVars
                                  /\ [VerificationNext]_verificationVars
                                  /\ [DeliveryNext]_deliveryVars
                                  /\ [MigrationNext]_migrationVars
  BY Zenon DEF Next, proofDeliveryVars
<1> QED
  BY <1>1, <1>2, PTL
  DEF ProofDeliverySpec, ToolsSpec, VerificationSpec, DeliverySpec, MigrationSpec

\* On the whole way every component's variables have their types, whatever the
\* files, the workspaces, the requests and the releases are.
THEOREM ProofDeliveryTypeCorrect == ProofDeliverySpec => []ProofDeliveryTypeOK
<1>1. ToolsTypeOK /\ VerificationTypeOK /\ DeliveryTypeOK /\ MigrationTypeOK => ProofDeliveryTypeOK
  BY DEF ProofDeliveryTypeOK
<1> QED
  BY <1>1, ComponentsApart, ToolsTypeCorrect, VerificationTypeCorrect, DeliveryTypeCorrect,
     MigrationTypeCorrect, PTL

\* The whole way, whichever of the tools, the engine, the delivery and the
\* migrations is the one that moves: an edit touches only its target, what is verified is
\* proven, what fails is the work's, a probe foretells, a branch has one pull
\* request and carries what was verified, and the newest schema serves the models.
THEOREM WholeWayIsSafe ==
    ProofDeliverySpec => /\ EditTouchesOnlyItsTarget
                         /\ [](VerifiedIsProven /\ FailureIsTheWorks /\ ProbeForetells)
                         /\ [](OnePullRequest /\ VerifiedIsCommitted)
                         /\ [](HeadServesTheModels /\ FailuresAreKnown)
BY ComponentsApart, EditIsLocal, VerifiedIsTrue, FailureIsExplained, ProbeIsHonest,
   OnePullRequestPerBranch, VerifiedIsOnItsBranch, NewestServesTheModels, FailuresHaveAReason,
   PTL

=============================================================================

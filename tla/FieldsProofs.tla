---------------------------- MODULE FieldsProofs ----------------------------
(***************************************************************************)
(* What getTxCmd finds in the bytes of a block and txCmdJson reads back    *)
(* from there, for any transactions; IndexSteps and IndexProofs build on   *)
(* it.                                                                     *)
(*                                                                         *)
(* Folds come first, those of Index too: AddBlock adds transactions, their *)
(* commands and their signatories by folds, and so do getTxCmd and         *)
(* txCmdJson.  Then: Holds says that some cells are in the bytes behind a  *)
(* position, Laid that fields of one number are there, one behind the      *)
(* other; RepeatedFinds, that the loop over Pb::next finds exactly them.   *)
(* CommandsAt says that a range holds the reduced payload of a transaction.*)
(***************************************************************************)
EXTENDS Index, Numbers, SequenceTheorems, FiniteSetTheorems, FunctionTheorems

-----------------------------------------------------------------------------
(* Folds.  A fold over a sequence goes through it step by step: FoldLeft is *)
(* a recursion over the sets of positions.  A lemma cannot have an operator*)
(* as a parameter, so that the operators that are folded here are one, of a*)
(* kind.                                                                   *)

(* No position is up to 0. *)
LEMMA NoneUpToZero == 1 .. 0 = {}
OBVIOUS

(* The last position of a set that has it. *)
LEMMA LastIsMax ==
  ASSUME NEW m \in Nat, NEW s \in SUBSET (1 .. m + 1), m + 1 \in s
  PROVE  Max(s) = m + 1 /\ s \ {m + 1} \in SUBSET (1 .. m)
<1>1. s \subseteq 0 .. m + 1 /\ s # {} /\ m + 1 \in Nat
  OBVIOUS
<1>2. Max(s) \in s /\ \A k \in s : k <= Max(s)
  BY <1>1, MaxUpTo
<1>3. Max(s) \in 1 .. m + 1 /\ m + 1 <= Max(s)
  BY <1>2
<1>4. Max(s) = m + 1
  BY <1>3
<1>5. s \ {m + 1} \in SUBSET (1 .. m)
  <2> SUFFICES ASSUME NEW k \in s, k # m + 1 PROVE k \in 1 .. m
    OBVIOUS
  <2> QED
    OBVIOUS
<1> QED
  BY <1>4, <1>5

(* And of one that has it not. *)
LEMMA NotLast ==
  ASSUME NEW m \in Nat, NEW s \in SUBSET (1 .. m + 1), m + 1 \notin s
  PROVE  s \in SUBSET (1 .. m)
<1> SUFFICES ASSUME NEW k \in s PROVE k \in 1 .. m
  OBVIOUS
<1> QED
  OBVIOUS

(* The last of the first positions. *)
LEMMA IntervalMax ==
  ASSUME NEW n \in Nat, NEW i \in 1 .. n
  PROVE  /\ 1 .. i \in SUBSET (1 .. n) /\ 1 .. i # {} /\ Max(1 .. i) = i
         /\ (1 .. i) \ {i} = 1 .. (i - 1)
<1>1. i \in Nat /\ 1 .. i \subseteq 0 .. i /\ 1 .. i # {} /\ i \in 1 .. i
  OBVIOUS
<1>2. Max(1 .. i) \in 1 .. i /\ \A k \in 1 .. i : k <= Max(1 .. i)
  BY <1>1, MaxUpTo
<1>3. Max(1 .. i) = i
  <2>1. i <= Max(1 .. i)
    BY <1>1, <1>2
  <2> HIDE DEF Max
  <2> QED
    BY <1>2, <2>1
<1>4. (1 .. i) \ {i} = 1 .. (i - 1) /\ 1 .. i \in SUBSET (1 .. n)
  OBVIOUS
<1> QED
  BY <1>1, <1>3, <1>4

FoundKind(bytes) == <<"found", bytes>>
TextKind(bytes) == <<"text", bytes>>
CommandsKind(tx) == <<"commands", tx>>
EffectsKind(by)  == <<"effects", by>>

AddCommands(d, tx, cmds) == FoldLeft(LAMBDA e, cmd : AddCommand(e, tx, cmd), d, cmds)

FoldStep(kind, x, y) ==
  CASE kind[1] = "signers"  -> AddSigner(x, y)
    [] kind[1] = "commands" -> AddCommand(x, kind[2], y)
    [] kind[1] = "txs"      -> AddTx(x, y)
    [] kind[1] = "effects"  -> Effect(x, kind[2], y)
    [] kind[1] = "world"    -> EffectOfAll(x, y.by, y.cmds)
    [] kind[1] = "lengths"  -> x + Len(y)
    [] kind[1] = "sizes"    -> x + y.size
    [] kind[1] = "found"    -> CommandsOf(kind[2], x, y)
    [] kind[1] = "text"     -> x \o <<ParseCommand(kind[2], y), Punctuation(",")>>

(* A step of the recursion: the last position of a set is taken last.      *)
FoldBody(kind, base, seq, f, m) ==
  [s \in SUBSET (1 .. m) |->
     IF s = {} THEN base ELSE FoldStep(kind, f[s \ {Max(s)}], seq[Max(s)])]

(* The recursion has a solution. *)
LEMMA FoldExists ==
  ASSUME NEW kind, NEW base, NEW seq, NEW n \in Nat
  PROVE  \E f : f = FoldBody(kind, base, seq, f, n)
<1> DEFINE Body(f, m) == FoldBody(kind, base, seq, f, m)
           T == {m \in Nat : \E f : f = Body(f, m)}
<1>1. 0 \in T
  <2> DEFINE f == [s \in SUBSET (1 .. 0) |-> base]
  <2>1. f = Body(f, 0)
    BY NoneUpToZero DEF FoldBody
  <2> QED
    BY <2>1
<1>2. ASSUME NEW m \in Nat, m \in T PROVE m + 1 \in T
  <2>1. PICK f : f = Body(f, m)
    BY <1>2
  <2>2. \A s \in SUBSET (1 .. m) :
          f[s] = IF s = {} THEN base ELSE FoldStep(kind, f[s \ {Max(s)}], seq[Max(s)])
    BY <2>1 DEF FoldBody
  <2> DEFINE g == [s \in SUBSET (1 .. m + 1) |->
                     IF m + 1 \in s THEN FoldStep(kind, f[s \ {m + 1}], seq[m + 1]) ELSE f[s]]
  <2>3. ASSUME NEW s \in SUBSET (1 .. m + 1)
        PROVE  g[s] = IF s = {} THEN base ELSE FoldStep(kind, g[s \ {Max(s)}], seq[Max(s)])
    <3>1. CASE m + 1 \in s
      <4>1. Max(s) = m + 1 /\ s \ {m + 1} \in SUBSET (1 .. m)
              /\ s \ {m + 1} \in SUBSET (1 .. m + 1) /\ s # {}
        BY <3>1, LastIsMax
      <4>2. g[s \ {m + 1}] = f[s \ {m + 1}]
        BY <4>1
      <4> QED
        BY <3>1, <4>1, <4>2
    <3>2. CASE m + 1 \notin s
      <4>1. s \in SUBSET (1 .. m) /\ g[s] = f[s]
        BY <3>2, NotLast
      <4>2. CASE s = {}
        BY <2>2, <4>1, <4>2
      <4>3. CASE s # {}
        <5>1. s \ {Max(s)} \in SUBSET (1 .. m) /\ s \ {Max(s)} \in SUBSET (1 .. m + 1)
                /\ m + 1 \notin s \ {Max(s)}
          BY <3>2, <4>1
        <5>2. g[s \ {Max(s)}] = f[s \ {Max(s)}]
          BY <5>1
        <5> QED
          BY <2>2, <4>1, <4>3, <5>2
      <4> QED
        BY <4>2, <4>3
    <3> QED
      BY <3>1, <3>2
  <2>4. g = Body(g, m + 1)
    <3>1. g = [s \in SUBSET (1 .. m + 1) |-> g[s]]
      OBVIOUS
    <3> HIDE DEF g
    <3> QED
      BY <2>3, <3>1 DEF FoldBody
  <2>5. m + 1 \in Nat
    OBVIOUS
  <2> QED
    BY <2>4, <2>5
<1>3. n \in T
  <2> HIDE DEF T
  <2> QED
    BY <1>1, <1>2, SetInduction
<1> QED
  BY <1>3

(* And a solution goes through the sequence. *)
FoldRun(kind, base, seq, n, h) ==
  /\ h[0] = base
  /\ \A i \in 1 .. n : h[i] = FoldStep(kind, h[i - 1], seq[i])

(* A function that such a body defines goes through the sequence. *)
LEMMA FoldSteps ==
  ASSUME NEW kind, NEW base, NEW seq, NEW n \in Nat,
         NEW F, F = FoldBody(kind, base, seq, F, n)
  PROVE  \E h : FoldRun(kind, base, seq, n, h) /\ h[n] = F[1 .. n]
<1>1. \A s \in SUBSET (1 .. n) :
        F[s] = IF s = {} THEN base ELSE FoldStep(kind, F[s \ {Max(s)}], seq[Max(s)])
  BY DEF FoldBody
<1>2. F[{}] = base
  BY <1>1
<1>3. ASSUME NEW i \in 1 .. n
      PROVE  F[1 .. i] = FoldStep(kind, F[1 .. (i - 1)], seq[i])
  <2>1. /\ 1 .. i \in SUBSET (1 .. n) /\ 1 .. i # {} /\ Max(1 .. i) = i
        /\ (1 .. i) \ {i} = 1 .. (i - 1)
    BY IntervalMax
  <2> QED
    BY <1>1, <2>1
<1> DEFINE h == [i \in 0 .. n |-> F[1 .. i]]
<1>4. h[0] = base
  BY <1>2, NoneUpToZero
<1>5. \A i \in 1 .. n : h[i] = FoldStep(kind, h[i - 1], seq[i])
  <2> TAKE i \in 1 .. n
  <2>1. i \in 0 .. n /\ i - 1 \in 0 .. n
    OBVIOUS
  <2> QED
    BY <1>3, <2>1
<1>6. h[n] = F[1 .. n]
  OBVIOUS
<1> HIDE DEF h
<1> QED
  BY <1>4, <1>5, <1>6 DEF FoldRun

(* The signatories of a transaction.                                       *)
LEMMA SignersFold ==
  ASSUME NEW base, NEW n \in Nat, NEW seq, DOMAIN seq = 1 .. n
  PROVE  \E h : FoldRun(<<"signers">>, base, seq, n, h) /\ FoldLeft(AddSigner, base, seq) = h[n]
<1> DEFINE kind == <<"signers">>
           Body(f) == [s \in SUBSET (1 .. n) |->
                         IF s = {} THEN base
                         ELSE AddSigner(f[s \ {Max(s)}], seq[Max(s)])]
           F == CHOOSE f : f = Body(f)
<1>1. \A x, y : FoldStep(kind, x, y) = AddSigner(x, y)
  BY DEF FoldStep, CommandsKind, EffectsKind
<1>2. \A f : FoldBody(kind, base, seq, f, n) = Body(f)
  BY <1>1, Zenon DEF FoldBody
<1>3. \E f : f = FoldBody(kind, base, seq, f, n)
  BY FoldExists
<1>4. FoldLeft(AddSigner, base, seq) = F[1 .. n]
  BY Zenon DEF FoldLeft, MapThenFoldSet
<1> HIDE DEF kind, Body
<1>5. F = Body(F)
  BY <1>2, <1>3, Zenon
<1>6. F = FoldBody(kind, base, seq, F, n)
  BY <1>2, <1>5, Zenon
<1> HIDE DEF F
<1>7. PICK h : FoldRun(kind, base, seq, n, h) /\ h[n] = F[1 .. n]
  BY <1>6, FoldSteps
<1> QED
  BY <1>4, <1>7, Zenon DEF kind

(* The commands of a transaction, in the tables.                           *)
LEMMA CommandsFold ==
  ASSUME NEW tx, NEW base, NEW n \in Nat, NEW seq, DOMAIN seq = 1 .. n
  PROVE  \E h : FoldRun(CommandsKind(tx), base, seq, n, h) /\ AddCommands(base, tx, seq) = h[n]
<1> DEFINE kind == CommandsKind(tx)
           Body(f) == [s \in SUBSET (1 .. n) |->
                         IF s = {} THEN base
                         ELSE AddCommand(f[s \ {Max(s)}], tx, seq[Max(s)])]
           F == CHOOSE f : f = Body(f)
<1>1. \A x, y : FoldStep(kind, x, y) = AddCommand(x, tx, y)
  BY DEF FoldStep, CommandsKind, EffectsKind
<1>2. \A f : FoldBody(kind, base, seq, f, n) = Body(f)
  BY <1>1, Zenon DEF FoldBody
<1>3. \E f : f = FoldBody(kind, base, seq, f, n)
  BY FoldExists
<1>4. AddCommands(base, tx, seq) = F[1 .. n]
  BY Zenon DEF FoldLeft, MapThenFoldSet, AddCommands
<1> HIDE DEF kind, Body
<1>5. F = Body(F)
  BY <1>2, <1>3, Zenon
<1>6. F = FoldBody(kind, base, seq, F, n)
  BY <1>2, <1>5, Zenon
<1> HIDE DEF F
<1>7. PICK h : FoldRun(kind, base, seq, n, h) /\ h[n] = F[1 .. n]
  BY <1>6, FoldSteps
<1> QED
  BY <1>4, <1>7, Zenon DEF kind

(* The transactions of a block, in the tables.                             *)
LEMMA TxsFold ==
  ASSUME NEW base, NEW n \in Nat, NEW seq, DOMAIN seq = 1 .. n
  PROVE  \E h : FoldRun(<<"txs">>, base, seq, n, h) /\ FoldLeft(AddTx, base, seq) = h[n]
<1> DEFINE kind == <<"txs">>
           Body(f) == [s \in SUBSET (1 .. n) |->
                         IF s = {} THEN base
                         ELSE AddTx(f[s \ {Max(s)}], seq[Max(s)])]
           F == CHOOSE f : f = Body(f)
<1>1. \A x, y : FoldStep(kind, x, y) = AddTx(x, y)
  BY DEF FoldStep, CommandsKind, EffectsKind
<1>2. \A f : FoldBody(kind, base, seq, f, n) = Body(f)
  BY <1>1, Zenon DEF FoldBody
<1>3. \E f : f = FoldBody(kind, base, seq, f, n)
  BY FoldExists
<1>4. FoldLeft(AddTx, base, seq) = F[1 .. n]
  BY Zenon DEF FoldLeft, MapThenFoldSet
<1> HIDE DEF kind, Body
<1>5. F = Body(F)
  BY <1>2, <1>3, Zenon
<1>6. F = FoldBody(kind, base, seq, F, n)
  BY <1>2, <1>5, Zenon
<1> HIDE DEF F
<1>7. PICK h : FoldRun(kind, base, seq, n, h) /\ h[n] = F[1 .. n]
  BY <1>6, FoldSteps
<1> QED
  BY <1>4, <1>7, Zenon DEF kind

(* The commands of a transaction, in the world state.                      *)
LEMMA EffectsFold ==
  ASSUME NEW by, NEW base, NEW n \in Nat, NEW seq, DOMAIN seq = 1 .. n
  PROVE  \E h : FoldRun(EffectsKind(by), base, seq, n, h) /\ EffectOfAll(base, by, seq) = h[n]
<1> DEFINE kind == EffectsKind(by)
           Body(f) == [s \in SUBSET (1 .. n) |->
                         IF s = {} THEN base
                         ELSE Effect(f[s \ {Max(s)}], by, seq[Max(s)])]
           F == CHOOSE f : f = Body(f)
<1>1. \A x, y : FoldStep(kind, x, y) = Effect(x, by, y)
  BY DEF FoldStep, CommandsKind, EffectsKind
<1>2. \A f : FoldBody(kind, base, seq, f, n) = Body(f)
  BY <1>1, Zenon DEF FoldBody
<1>3. \E f : f = FoldBody(kind, base, seq, f, n)
  BY FoldExists
<1>4. EffectOfAll(base, by, seq) = F[1 .. n]
  BY Zenon DEF FoldLeft, MapThenFoldSet, EffectOfAll
<1> HIDE DEF kind, Body
<1>5. F = Body(F)
  BY <1>2, <1>3, Zenon
<1>6. F = FoldBody(kind, base, seq, F, n)
  BY <1>2, <1>5, Zenon
<1> HIDE DEF F
<1>7. PICK h : FoldRun(kind, base, seq, n, h) /\ h[n] = F[1 .. n]
  BY <1>6, FoldSteps
<1> QED
  BY <1>4, <1>7, Zenon DEF kind

(* The transactions of a block, in the world state.                        *)
LEMMA WorldFold ==
  ASSUME NEW base, NEW n \in Nat, NEW seq, DOMAIN seq = 1 .. n
  PROVE  \E h : FoldRun(<<"world">>, base, seq, n, h) /\ EffectOfTxs(base, seq) = h[n]
<1> DEFINE kind == <<"world">>
           Body(f) == [s \in SUBSET (1 .. n) |->
                         IF s = {} THEN base
                         ELSE EffectOfAll(f[s \ {Max(s)}], seq[Max(s)].by, seq[Max(s)].cmds)]
           F == CHOOSE f : f = Body(f)
<1>1. \A x, y : FoldStep(kind, x, y) = EffectOfAll(x, y.by, y.cmds)
  BY DEF FoldStep, CommandsKind, EffectsKind
<1>2. \A f : FoldBody(kind, base, seq, f, n) = Body(f)
  BY <1>1, Zenon DEF FoldBody
<1>3. \E f : f = FoldBody(kind, base, seq, f, n)
  BY FoldExists
<1>4. EffectOfTxs(base, seq) = F[1 .. n]
  BY Zenon DEF FoldLeft, MapThenFoldSet, EffectOfTxs
<1> HIDE DEF kind, Body
<1>5. F = Body(F)
  BY <1>2, <1>3, Zenon
<1>6. F = FoldBody(kind, base, seq, F, n)
  BY <1>2, <1>5, Zenon
<1> HIDE DEF F
<1>7. PICK h : FoldRun(kind, base, seq, n, h) /\ h[n] = F[1 .. n]
  BY <1>6, FoldSteps
<1> QED
  BY <1>4, <1>7, Zenon DEF kind

(* The transactions of a ledger, counted block by block.                    *)
CountTxs(base, blocks) == FoldLeft(LAMBDA n, txs : n + Len(txs), base, blocks)

LEMMA LengthsFold ==
  ASSUME NEW base, NEW n \in Nat, NEW seq, DOMAIN seq = 1 .. n
  PROVE  \E h : FoldRun(<<"lengths">>, base, seq, n, h) /\ CountTxs(base, seq) = h[n]
<1> DEFINE kind == <<"lengths">>
           Body(f) == [s \in SUBSET (1 .. n) |->
                         IF s = {} THEN base
                         ELSE f[s \ {Max(s)}] + Len(seq[Max(s)])]
           F == CHOOSE f : f = Body(f)
<1>1. \A x, y : FoldStep(kind, x, y) = x + Len(y)
  BY DEF FoldStep, CommandsKind, EffectsKind
<1>2. \A f : FoldBody(kind, base, seq, f, n) = Body(f)
  BY <1>1, Zenon DEF FoldBody
<1>3. \E f : f = FoldBody(kind, base, seq, f, n)
  BY FoldExists
<1>4. CountTxs(base, seq) = F[1 .. n]
  BY Zenon DEF FoldLeft, MapThenFoldSet, CountTxs
<1> HIDE DEF kind, Body
<1>5. F = Body(F)
  BY <1>2, <1>3, Zenon
<1>6. F = FoldBody(kind, base, seq, F, n)
  BY <1>2, <1>5, Zenon
<1> HIDE DEF F
<1>7. PICK h : FoldRun(kind, base, seq, n, h) /\ h[n] = F[1 .. n]
  BY <1>6, FoldSteps
<1> QED
  BY <1>4, <1>7, Zenon DEF kind

(* The sizes of views, added up. *)
SizeOfAll(base, views) == FoldLeft(LAMBDA size, cmd : size + cmd.size, base, views)

LEMMA SizesFold ==
  ASSUME NEW base, NEW n \in Nat, NEW seq, DOMAIN seq = 1 .. n
  PROVE  \E h : FoldRun(<<"sizes">>, base, seq, n, h) /\ SizeOfAll(base, seq) = h[n]
<1> DEFINE kind == <<"sizes">>
           Body(f) == [s \in SUBSET (1 .. n) |->
                         IF s = {} THEN base
                         ELSE f[s \ {Max(s)}] + seq[Max(s)].size]
           F == CHOOSE f : f = Body(f)
<1>1. \A x, y : FoldStep(kind, x, y) = x + y.size
  BY DEF FoldStep, FoundKind, TextKind
<1>2. \A f : FoldBody(kind, base, seq, f, n) = Body(f)
  BY <1>1, Zenon DEF FoldBody
<1>3. \E f : f = FoldBody(kind, base, seq, f, n)
  BY FoldExists
<1>4. SizeOfAll(base, seq) = F[1 .. n]
  BY Zenon DEF FoldLeft, MapThenFoldSet, SizeOfAll
<1> HIDE DEF kind, Body
<1>5. F = Body(F)
  BY <1>2, <1>3, Zenon
<1>6. F = FoldBody(kind, base, seq, F, n)
  BY <1>2, <1>5, Zenon
<1> HIDE DEF F
<1>7. PICK h : FoldRun(kind, base, seq, n, h) /\ h[n] = F[1 .. n]
  BY <1>6, FoldSteps
<1> QED
  BY <1>4, <1>7, Zenon DEF kind

(* What getTxCmd finds in transactions. *)
FoundInAll(bytes, base, views) ==
  FoldLeft(LAMBDA found, tx : CommandsOf(bytes, found, tx), base, views)

LEMMA FoundFold ==
  ASSUME NEW bytes, NEW base, NEW n \in Nat, NEW seq, DOMAIN seq = 1 .. n
  PROVE  \E h : FoldRun(FoundKind(bytes), base, seq, n, h) /\ FoundInAll(bytes, base, seq) = h[n]
<1> DEFINE kind == FoundKind(bytes)
           Body(f) == [s \in SUBSET (1 .. n) |->
                         IF s = {} THEN base
                         ELSE CommandsOf(bytes, f[s \ {Max(s)}], seq[Max(s)])]
           F == CHOOSE f : f = Body(f)
<1>1. \A x, y : FoldStep(kind, x, y) = CommandsOf(bytes, x, y)
  BY DEF FoldStep, FoundKind, TextKind
<1>2. \A f : FoldBody(kind, base, seq, f, n) = Body(f)
  BY <1>1, Zenon DEF FoldBody
<1>3. \E f : f = FoldBody(kind, base, seq, f, n)
  BY FoldExists
<1>4. FoundInAll(bytes, base, seq) = F[1 .. n]
  BY Zenon DEF FoldLeft, MapThenFoldSet, FoundInAll
<1> HIDE DEF kind, Body
<1>5. F = Body(F)
  BY <1>2, <1>3, Zenon
<1>6. F = FoldBody(kind, base, seq, F, n)
  BY <1>2, <1>5, Zenon
<1> HIDE DEF F
<1>7. PICK h : FoldRun(kind, base, seq, n, h) /\ h[n] = F[1 .. n]
  BY <1>6, FoldSteps
<1> QED
  BY <1>4, <1>7, Zenon DEF kind

(* What txCmdJson writes. *)
TextOfAll(bytes, base, views) ==
  FoldLeft(LAMBDA text, cmd : text \o <<ParseCommand(bytes, cmd), Punctuation(",")>>, base, views)

LEMMA TextFold ==
  ASSUME NEW bytes, NEW base, NEW n \in Nat, NEW seq, DOMAIN seq = 1 .. n
  PROVE  \E h : FoldRun(TextKind(bytes), base, seq, n, h) /\ TextOfAll(bytes, base, seq) = h[n]
<1> DEFINE kind == TextKind(bytes)
           Body(f) == [s \in SUBSET (1 .. n) |->
                         IF s = {} THEN base
                         ELSE f[s \ {Max(s)}] \o <<ParseCommand(bytes, seq[Max(s)]), Punctuation(",")>>]
           F == CHOOSE f : f = Body(f)
<1>1. \A x, y : FoldStep(kind, x, y) = x \o <<ParseCommand(bytes, y), Punctuation(",")>>
  BY DEF FoldStep, FoundKind, TextKind
<1>2. \A f : FoldBody(kind, base, seq, f, n) = Body(f)
  BY <1>1, Zenon DEF FoldBody
<1>3. \E f : f = FoldBody(kind, base, seq, f, n)
  BY FoldExists
<1>4. TextOfAll(bytes, base, seq) = F[1 .. n]
  BY Zenon DEF FoldLeft, MapThenFoldSet, TextOfAll
<1> HIDE DEF kind, Body
<1>5. F = Body(F)
  BY <1>2, <1>3, Zenon
<1>6. F = FoldBody(kind, base, seq, F, n)
  BY <1>2, <1>5, Zenon
<1> HIDE DEF F
<1>7. PICK h : FoldRun(kind, base, seq, n, h) /\ h[n] = F[1 .. n]
  BY <1>6, FoldSteps
<1> QED
  BY <1>4, <1>7, Zenon DEF kind

-----------------------------------------------------------------------------
(* Cells and where they are.                                               *)
Cells == [field : Nat, size : Nat, cmd : Commands \cup {NoCommand}]

(* These cells are in the bytes, behind this position. *)
Holds(bytes, at, part) ==
  /\ at \in Nat /\ Len(part) \in Nat /\ at + Len(part) <= Len(bytes)
  /\ \A k \in 1 .. Len(part) : bytes[at + k] = part[k]

LEMMA TagIs ==
  ASSUME NEW field \in Nat, NEW size \in Nat
  PROVE  Tag(field, size) \in Cells /\ Tag(field, size).field = field /\ Tag(field, size).size = size
BY DEF Tag, Cells

LEMMA LeafIs ==
  ASSUME NEW cmd \in Commands \cup {NoCommand}
  PROVE  Leaf(cmd) \in Cells /\ Leaf(cmd).cmd = cmd
BY DEF Leaf, Cells

(* A sequence of one value. *)
LEMMA Single ==
  ASSUME NEW S, NEW x \in S
  PROVE  <<x>> \in Seq(S) /\ Len(<<x>>) = 1 /\ <<x>>[1] = x
OBVIOUS

(* A field is one cell and its content. *)
LEMMA FieldIs ==
  ASSUME NEW field \in Nat, NEW content \in Seq(Cells)
  PROVE  /\ Field(field, content) \in Seq(Cells)
         /\ Len(Field(field, content)) = Len(content) + 1
         /\ Field(field, content)[1] = Tag(field, Len(content))
         /\ \A k \in 1 .. Len(content) : Field(field, content)[k + 1] = content[k]
<1> DEFINE tag == Tag(field, Len(content))
<1>1. Len(content) \in Nat
  OBVIOUS
<1>2. tag \in Cells
  BY <1>1, TagIs
<1> HIDE DEF tag
<1>3. <<tag>> \in Seq(Cells) /\ Len(<<tag>>) = 1 /\ <<tag>>[1] = tag
  BY <1>2, Single
<1>4. /\ <<tag>> \o content \in Seq(Cells)
      /\ Len(<<tag>> \o content) = 1 + Len(content)
      /\ \A i \in 1 .. 1 + Len(content) :
           (<<tag>> \o content)[i] = IF i <= 1 THEN <<tag>>[i] ELSE content[i - 1]
  BY <1>3, ConcatProperties
<1>5. \A k \in 1 .. Len(content) : (<<tag>> \o content)[k + 1] = content[k]
  <2> TAKE k \in 1 .. Len(content)
  <2>1. k + 1 \in 1 .. 1 + Len(content) /\ ~(k + 1 <= 1) /\ (k + 1) - 1 = k
    BY <1>1
  <2> QED
    BY <1>4, <2>1
<1>6. (<<tag>> \o content)[1] = tag
  <2>1. 1 \in 1 .. 1 + Len(content) /\ 1 <= 1
    BY <1>1
  <2> QED
    BY <1>3, <1>4, <2>1
<1>7. Field(field, content) = <<tag>> \o content
  BY DEF Field, tag
<1>8. Len(<<tag>> \o content) = Len(content) + 1
  BY <1>1, <1>4
<1> QED
  BY <1>4, <1>5, <1>6, <1>7, <1>8, Zenon DEF tag

(* Where a field is, its content is one position further. *)
LEMMA FieldHeld ==
  ASSUME NEW bytes, NEW at, NEW field \in Nat, NEW content \in Seq(Cells),
         Len(bytes) \in Nat, Holds(bytes, at, Field(field, content))
  PROVE  /\ bytes[at + 1].field = field /\ bytes[at + 1].size = Len(content)
         /\ at + 1 + Len(content) <= Len(bytes)
         /\ Holds(bytes, at + 1, content)
<1> DEFINE all == Field(field, content)
<1>1. /\ Len(all) = Len(content) + 1
      /\ all[1] = Tag(field, Len(content))
      /\ \A k \in 1 .. Len(content) : all[k + 1] = content[k]
  BY FieldIs
<1>2. at \in Nat /\ at + Len(all) <= Len(bytes) /\ \A k \in 1 .. Len(all) : bytes[at + k] = all[k]
  BY DEF Holds
<1> HIDE DEF all
<1>3. Len(content) \in Nat
  OBVIOUS
<1>4. 1 \in 1 .. Len(all)
  BY <1>1, <1>3
<1>5. bytes[at + 1] = Tag(field, Len(content))
  BY <1>1, <1>2, <1>4
<1>6. bytes[at + 1].field = field /\ bytes[at + 1].size = Len(content)
  BY <1>3, <1>5, TagIs
<1>7. at + 1 \in Nat /\ at + 1 + Len(content) <= Len(bytes)
  BY <1>1, <1>2, <1>3
<1>8. \A k \in 1 .. Len(content) : bytes[at + 1 + k] = content[k]
  <2> TAKE k \in 1 .. Len(content)
  <2>1. k + 1 \in 1 .. Len(all) /\ at + (k + 1) = at + 1 + k
    BY <1>1, <1>2, <1>3
  <2>2. bytes[at + (k + 1)] = all[k + 1]
    BY <1>2, <2>1
  <2> QED
    BY <1>1, <2>1, <2>2
<1> QED
  BY <1>3, <1>6, <1>7, <1>8 DEF Holds

(* Where two parts are, one behind the other. *)
LEMMA ConcatHeld ==
  ASSUME NEW bytes, NEW at, NEW S, NEW s \in Seq(S), NEW t \in Seq(S),
         Len(bytes) \in Nat, Holds(bytes, at, s \o t)
  PROVE  Holds(bytes, at, s) /\ Holds(bytes, at + Len(s), t)
<1>1. Len(s) \in Nat /\ Len(t) \in Nat
  OBVIOUS
<1>2. /\ Len(s \o t) = Len(s) + Len(t)
      /\ \A i \in 1 .. Len(s) + Len(t) :
           (s \o t)[i] = IF i <= Len(s) THEN s[i] ELSE t[i - Len(s)]
  BY ConcatProperties
<1>3. /\ at \in Nat /\ at + (Len(s) + Len(t)) <= Len(bytes)
      /\ \A k \in 1 .. Len(s) + Len(t) : bytes[at + k] = (s \o t)[k]
  BY <1>2 DEF Holds
<1>4. Holds(bytes, at, s)
  <2>1. at + Len(s) <= Len(bytes)
    BY <1>1, <1>3
  <2>2. \A k \in 1 .. Len(s) : bytes[at + k] = s[k]
    <3> TAKE k \in 1 .. Len(s)
    <3>1. k \in 1 .. Len(s) + Len(t) /\ k <= Len(s)
      BY <1>1
    <3> QED
      BY <1>2, <1>3, <3>1
  <2> QED
    BY <1>1, <1>3, <2>1, <2>2 DEF Holds
<1>5. Holds(bytes, at + Len(s), t)
  <2>1. at + Len(s) \in Nat /\ at + Len(s) + Len(t) <= Len(bytes)
    BY <1>1, <1>3
  <2>2. \A k \in 1 .. Len(t) : bytes[at + Len(s) + k] = t[k]
    <3> TAKE k \in 1 .. Len(t)
    <3>1. /\ Len(s) + k \in 1 .. Len(s) + Len(t) /\ ~(Len(s) + k <= Len(s))
          /\ (Len(s) + k) - Len(s) = k /\ at + (Len(s) + k) = at + Len(s) + k
      BY <1>1, <1>3
    <3>2. bytes[at + (Len(s) + k)] = (s \o t)[Len(s) + k]
      BY <1>3, <3>1
    <3> QED
      BY <1>2, <3>1, <3>2
  <2> QED
    BY <1>1, <2>1, <2>2 DEF Holds
<1> QED
  BY <1>4, <1>5

-----------------------------------------------------------------------------
(* Parts that are put together.                                            *)

(* What FlattenSeq puts together, part by part. *)
Joining(f, parts) ==
  \A i \in 1 .. Len(parts) : f[i] = IF i = 1 THEN parts[i] ELSE f[i - 1] \o parts[i]

LEMMA JoiningExists ==
  ASSUME NEW S, NEW parts \in Seq(Seq(S)), parts # <<>>
  PROVE  \E f \in [1 .. Len(parts) -> Seq(S)] :
           f = [i \in 1 .. Len(parts) |-> IF i = 1 THEN parts[i] ELSE f[i - 1] \o parts[i]]
<1> DEFINE D == 1 .. Len(parts)
           V == Seq(S)
           measure == [d \in D |-> d]
           stop == {1}
           step == [d \in D |-> IF d = 1 THEN 1 ELSE d - 1]
           combine == [p \in D \X V |-> p[2] \o parts[p[1]]]
<1>1. Len(parts) \in Nat /\ \A d \in D : parts[d] \in V
  OBVIOUS
<1>2. measure \in [D -> Nat] /\ parts \in [D -> V] /\ step \in [D -> D]
  BY <1>1
<1>3. combine \in [D \X V -> V]
  <2> SUFFICES ASSUME NEW p \in D \X V PROVE p[2] \o parts[p[1]] \in V
    OBVIOUS
  <2>1. p[2] \in Seq(S) /\ parts[p[1]] \in Seq(S)
    BY <1>1
  <2> QED
    BY <2>1, ConcatProperties
<1>4. Falls(D, measure, stop, step)
  <2> SUFFICES ASSUME NEW d \in D, d \notin stop PROVE measure[step[d]] < measure[d]
    BY DEF Falls
  <2>1. d # 1 /\ step[d] = d - 1 /\ d - 1 \in D
    OBVIOUS
  <2> QED
    BY <2>1
<1> HIDE DEF D, V, measure, stop, step, combine
<1>5. PICK f \in [D -> V] : Recursive(f, D, stop, parts, step, combine)
  BY <1>2, <1>3, <1>4, RecursionExists
<1> USE DEF D, V
<1>6. ASSUME NEW d \in D
      PROVE  f[d] = IF d = 1 THEN parts[d] ELSE f[d - 1] \o parts[d]
  <2>1. f[d] = IF d \in stop THEN parts[d] ELSE combine[<<d, f[step[d]]>>]
    BY <1>5 DEF Recursive
  <2>2. CASE d = 1
    BY <2>1, <2>2 DEF stop
  <2>3. CASE d # 1
    <3>1. step[d] = d - 1 /\ d - 1 \in D /\ d \notin stop
      BY <2>3 DEF step, stop
    <3>2. <<d, f[d - 1]>> \in D \X V
      BY <3>1
    <3>3. combine[<<d, f[d - 1]>>] = f[d - 1] \o parts[d]
      BY <3>2 DEF combine
    <3> QED
      BY <2>1, <2>3, <3>1, <3>3
  <2> QED
    BY <2>2, <2>3
<1> DEFINE Body == [i \in 1 .. Len(parts) |-> IF i = 1 THEN parts[i] ELSE f[i - 1] \o parts[i]]
<1>7. f = Body
  <2>1. f = [d \in D |-> f[d]]
    OBVIOUS
  <2> QED
    BY <1>6, <2>1
<1> QED
  BY <1>7

LEMMA FlattenJoins ==
  ASSUME NEW S, NEW parts \in Seq(Seq(S)), parts # <<>>
  PROVE  \E f : Joining(f, parts) /\ FlattenSeq(parts) = f[Len(parts)]
<1> DEFINE flatten[i \in 1 .. Len(parts)] == IF i = 1 THEN parts[i] ELSE flatten[i - 1] \o parts[i]
           Body(f) == [i \in 1 .. Len(parts) |-> IF i = 1 THEN parts[i] ELSE f[i - 1] \o parts[i]]
<1>1. Len(parts) # 0
  OBVIOUS
<1>2. FlattenSeq(parts) = flatten[Len(parts)]
  BY <1>1, Zenon DEF FlattenSeq
<1>3. flatten = CHOOSE f : f = Body(f)
  OBVIOUS
<1>4. \E f : f = Body(f)
  <2>1. PICK f \in [1 .. Len(parts) -> Seq(S)] : f = Body(f)
    BY JoiningExists
  <2> QED
    BY <2>1, Zenon
<1> HIDE DEF flatten
<1>5. flatten = Body(flatten)
  BY <1>3, <1>4, Zenon
<1>6. Joining(flatten, parts)
  <2> SUFFICES ASSUME NEW i \in 1 .. Len(parts)
               PROVE  flatten[i] = IF i = 1 THEN parts[i] ELSE flatten[i - 1] \o parts[i]
    BY DEF Joining
  <2>1. flatten[i] = Body(flatten)[i]
    BY <1>5, Zenon
  <2> QED
    BY <2>1
<1> QED
  BY <1>2, <1>6, Zenon

(* Where each part begins. *)
Starting(at, parts) ==
  /\ at[0] = 0
  /\ \A i \in 0 .. Len(parts) : at[i] \in Nat
  /\ \A i \in 1 .. Len(parts) : at[i] = at[i - 1] + Len(parts[i])

(* The parts are in the whole. *)
Parted(whole, at, parts, S) ==
  /\ Starting(at, parts)
  /\ whole \in Seq(S) /\ Len(whole) = at[Len(parts)]
  /\ \A i \in 1 .. Len(parts) : Holds(whole, at[i - 1], parts[i])

(* What is in a sequence stays in it when one is put behind it. *)
LEMMA HeldConcat ==
  ASSUME NEW S, NEW s \in Seq(S), NEW t \in Seq(S)
  PROVE  /\ Holds(s \o t, Len(s), t)
         /\ \A at, part : Holds(s, at, part) => Holds(s \o t, at, part)
<1>1. Len(s) \in Nat /\ Len(t) \in Nat
  OBVIOUS
<1>2. /\ Len(s \o t) = Len(s) + Len(t)
      /\ \A i \in 1 .. Len(s) + Len(t) :
           (s \o t)[i] = IF i <= Len(s) THEN s[i] ELSE t[i - Len(s)]
  BY ConcatProperties
<1>3. Holds(s \o t, Len(s), t)
  <2>1. \A k \in 1 .. Len(t) : (s \o t)[Len(s) + k] = t[k]
    <3> TAKE k \in 1 .. Len(t)
    <3>1. /\ Len(s) + k \in 1 .. Len(s) + Len(t) /\ ~(Len(s) + k <= Len(s))
          /\ (Len(s) + k) - Len(s) = k
      BY <1>1
    <3> QED
      BY <1>2, <3>1
  <2>2. Len(s) + Len(t) <= Len(s \o t)
    BY <1>1, <1>2
  <2> QED
    BY <1>1, <2>1, <2>2 DEF Holds
<1>4. ASSUME NEW at, NEW part, Holds(s, at, part) PROVE Holds(s \o t, at, part)
  <2>1. /\ at \in Nat /\ Len(part) \in Nat /\ at + Len(part) <= Len(s)
        /\ \A k \in 1 .. Len(part) : s[at + k] = part[k]
    BY <1>4 DEF Holds
  <2>2. \A k \in 1 .. Len(part) : (s \o t)[at + k] = part[k]
    <3> TAKE k \in 1 .. Len(part)
    <3>1. at + k \in 1 .. Len(s) + Len(t) /\ at + k <= Len(s)
      BY <1>1, <2>1
    <3> QED
      BY <1>2, <2>1, <3>1
  <2>3. at + Len(part) <= Len(s \o t)
    BY <1>1, <1>2, <2>1
  <2> QED
    BY <2>1, <2>2, <2>3 DEF Holds
<1> QED
  BY <1>3, <1>4

LEMMA FlattenIs ==
  ASSUME NEW S, NEW parts \in Seq(Seq(S))
  PROVE  \E at : Parted(FlattenSeq(parts), at, parts, S)
<1> DEFINE n == Len(parts)
<1>1. CASE parts = <<>>
  <2> DEFINE at == [i \in {0} |-> 0]
  <2>1. Len(parts) = 0 /\ FlattenSeq(parts) = <<>>
    BY <1>1 DEF FlattenSeq
  <2>2. at[0] = 0 /\ Len(<<>>) = 0 /\ <<>> \in Seq(S) /\ 1 .. 0 = {} /\ 0 .. 0 = {0}
    OBVIOUS
  <2> HIDE DEF at
  <2>3. Starting(at, parts)
    BY <2>1, <2>2 DEF Starting
  <2>4. Parted(<<>>, at, parts, S)
    BY <2>1, <2>2, <2>3 DEF Parted
  <2> QED
    BY <2>1, <2>4
<1>2. CASE parts # <<>>
  <2>1. n \in Nat /\ n >= 1 /\ \A i \in 1 .. n : parts[i] \in Seq(S) /\ Len(parts[i]) \in Nat
    <3>1. \A i \in 1 .. n : parts[i] \in Seq(S)
      OBVIOUS
    <3> QED
      BY <1>2, <3>1
  <2>2. PICK f : Joining(f, parts) /\ FlattenSeq(parts) = f[n]
    BY <1>2, FlattenJoins
  <2> DEFINE at == [i \in 0 .. n |-> IF i = 0 THEN 0 ELSE Len(f[i])]
             Ok(i) == /\ f[i] \in Seq(S)
                      /\ at[i] \in Nat /\ at[i] = Len(f[i])
                      /\ at[i] = at[i - 1] + Len(parts[i])
                      /\ \A j \in 1 .. i : Holds(f[i], at[j - 1], parts[j])
             T == {i \in Nat : i + 1 <= n => Ok(i + 1)}
  <2>3. 0 \in T
    <3>1. f[1] = parts[1] /\ 1 \in 0 .. n /\ 0 \in 0 .. n /\ 1 \in 1 .. n
      BY <2>1, <2>2 DEF Joining
    <3>2. f[1] \in Seq(S) /\ Len(f[1]) \in Nat /\ Len(f[1]) = Len(parts[1])
      BY <2>1, <3>1
    <3>3. at[0] = 0 /\ at[1] = Len(f[1])
      BY <3>1
    <3> HIDE DEF at
    <3>4. Holds(f[1], 0, parts[1])
      BY <3>1, <3>2 DEF Holds
    <3>5. \A j \in 1 .. 1 : j = 1 /\ j - 1 = 0
      OBVIOUS
    <3>6. at[1 - 1] = 0 /\ 1 - 1 = 0
      BY <3>3
    <3>7. Ok(1)
      BY <3>2, <3>3, <3>4, <3>5, <3>6
    <3> HIDE DEF Ok
    <3>8. 0 + 1 = 1
      OBVIOUS
    <3> QED
      BY <3>7, <3>8
  <2>4. ASSUME NEW m \in Nat, m \in T PROVE m + 1 \in T
    <3> SUFFICES ASSUME m + 1 + 1 <= n PROVE Ok(m + 1 + 1)
      OBVIOUS
    <3> DEFINE i == m + 1
    <3>1. Ok(i)
      BY <2>4
    <3>2. /\ i \in 1 .. n /\ i + 1 \in 1 .. n /\ i + 1 # 1 /\ (i + 1) - 1 = i
          /\ i \in 0 .. n /\ i + 1 \in 0 .. n /\ i \in Nat /\ i + 1 # 0 /\ i # 0
      BY <2>1
    <3> HIDE DEF i, n
    <3>3. f[i + 1] = f[i] \o parts[i + 1]
      BY <2>2, <3>2 DEF Joining, n
    <3>4. f[i] \in Seq(S) /\ parts[i + 1] \in Seq(S) /\ Len(parts[i + 1]) \in Nat
      BY <2>1, <3>1, <3>2
    <3> DEFINE s == f[i]
               t == parts[i + 1]
    <3>a. at[i + 1] = Len(f[i + 1]) /\ at[i] = Len(f[i])
      BY <3>2
    <3>b. f[i] \in Seq(S) /\ Len(f[i]) \in Nat
      BY <3>4
    <3> HIDE DEF at
    <3>5. /\ s \in Seq(S) /\ t \in Seq(S) /\ Len(s) \in Nat /\ Len(t) \in Nat
          /\ f[i + 1] = s \o t
          /\ at[i + 1] = Len(s \o t) /\ at[i] = Len(s)
      BY <3>3, <3>4, <3>a, <3>b
    <3> HIDE DEF s, t
    <3>6. s \o t \in Seq(S) /\ Len(s \o t) = Len(s) + Len(t)
      BY <3>5, ConcatProperties
    <3>7. at[i + 1] \in Nat /\ at[i + 1] = at[i] + Len(t)
      BY <3>5, <3>6
    <3>8. ASSUME NEW j \in 1 .. i PROVE Holds(s \o t, at[j - 1], parts[j])
      <4>1. Holds(s, at[j - 1], parts[j])
        BY <3>1 DEF s
      <4> QED
        BY <3>5, <4>1, HeldConcat
    <3>9. Holds(s \o t, at[i], t)
      BY <3>5, HeldConcat
    <3>10. \A j \in 1 .. i + 1 : j \in 1 .. i \/ (j = i + 1 /\ j - 1 = i)
      BY <3>2
    <3>11. \A j \in 1 .. i + 1 : Holds(f[i + 1], at[j - 1], parts[j])
      BY <3>5, <3>8, <3>9, <3>10 DEF t
    <3>12. at[(i + 1) - 1] = at[i]
      BY <3>2
    <3>13. Ok(i + 1)
      BY <3>5, <3>6, <3>7, <3>11, <3>12 DEF t
    <3> QED
      BY <3>13 DEF i
  <2>5. \A i \in 1 .. n : Ok(i)
    <3> HIDE DEF Ok
    <3>1. Nat \subseteq T
      <4> HIDE DEF T
      <4> QED
        BY <2>3, <2>4, SetInduction
    <3> TAKE i \in 1 .. n
    <3>2. i - 1 \in Nat /\ (i - 1) + 1 = i /\ i <= n
      BY <2>1
    <3>3. i - 1 \in T
      BY <3>1, <3>2
    <3> QED
      BY <3>2, <3>3
  <2>6. at[0] = 0 /\ n \in 1 .. n
    BY <2>1
  <2> HIDE DEF at
  <2>7. Starting(at, parts)
    <3>1. \A i \in 0 .. n : i = 0 \/ i \in 1 .. n
      BY <2>1
    <3>2. \A i \in 0 .. n : at[i] \in Nat
      BY <2>5, <2>6, <3>1
    <3> QED
      BY <2>5, <2>6, <3>2 DEF Starting
  <2>8. \A i \in 1 .. n : Holds(f[n], at[i - 1], parts[i])
    BY <2>5, <2>6
  <2>9. f[n] \in Seq(S) /\ Len(f[n]) = at[n]
    BY <2>5, <2>6
  <2>10. Parted(f[n], at, parts, S)
    BY <2>7, <2>8, <2>9 DEF Parted
  <2> QED
    BY <2>2, <2>10
<1> QED
  BY <1>1, <1>2

-----------------------------------------------------------------------------
(* Going through fields.                                                   *)

(* What is left of a view from a position on. *)
Left(end, p) == View(p, end - p)

Views == [at : Nat, size : Nat]

LEMMA ViewIs ==
  ASSUME NEW at, NEW size
  PROVE  View(at, size).at = at /\ View(at, size).size = size
BY DEF View

(* A field that begins here ends before the view does. *)
LEMMA ContentFits ==
  ASSUME NEW bytes \in Seq(Cells), NEW end \in Nat, end <= Len(bytes), NEW field,
         NEW p \in 0 .. end, Starts(bytes, Left(end, p), field)
  PROVE  /\ Content(bytes, Left(end, p)) \in Views
         /\ p + 1 + Content(bytes, Left(end, p)).size \in p + 1 .. end
<1>1. Left(end, p).at = p /\ Left(end, p).size = end - p
  BY ViewIs DEF Left
<1>2. end - p > 0 /\ bytes[p + 1].size < end - p
  BY <1>1 DEF Starts
<1>3. Len(bytes) \in Nat /\ p + 1 \in 1 .. Len(bytes)
  BY <1>2
<1>4. bytes[p + 1] \in Cells
  BY <1>3
<1> DEFINE size == bytes[p + 1].size
<1>5. size \in Nat
  BY <1>4 DEF Cells
<1>6. Content(bytes, Left(end, p)) = View(p + 1, size)
  BY <1>1 DEF Content
<1> HIDE DEF size
<1>7. View(p + 1, size) \in Views /\ View(p + 1, size).size = size
  BY <1>3, <1>5 DEF View, Views
<1>8. size < end - p
  BY <1>2 DEF size
<1>9. p + 1 + size \in p + 1 .. end
  BY <1>5, <1>8
<1> QED
  BY <1>6, <1>7, <1>9

(* The loop of Repeated. *)
Looping(from, bytes, at, end, field) ==
  \A p \in at .. end :
    from[p] = IF Starts(bytes, Left(end, p), field)
              THEN <<Content(bytes, Left(end, p))>>
                     \o from[p + 1 + Content(bytes, Left(end, p)).size]
              ELSE <<>>

Looped(from, bytes, at, end, field) ==
  from = [p \in at .. end |->
           IF Starts(bytes, Left(end, p), field)
           THEN <<Content(bytes, Left(end, p))>>
                  \o from[p + 1 + Content(bytes, Left(end, p)).size]
           ELSE <<>>]

LEMMA LoopExists ==
  ASSUME NEW bytes \in Seq(Cells), NEW end \in Nat, end <= Len(bytes), NEW field,
         NEW at \in 0 .. end
  PROVE  \E from : Looped(from, bytes, at, end, field)
<1> DEFINE D == at .. end
           V == Seq(Views)
           Begins(p) == Starts(bytes, Left(end, p), field)
           Found(p) == Content(bytes, Left(end, p))
           measure == [p \in D |-> end - p]
           stop == {p \in D : ~Begins(p)}
           base == [p \in D |-> <<>>]
           step == [p \in D |-> IF Begins(p) THEN p + 1 + Found(p).size ELSE p]
           combine == [x \in D \X V |-> IF Begins(x[1]) THEN <<Found(x[1])>> \o x[2] ELSE <<>>]
<1>1. ASSUME NEW p \in D, Begins(p)
      PROVE  Found(p) \in Views /\ p + 1 + Found(p).size \in p + 1 .. end
  <2>1. p \in 0 .. end
    OBVIOUS
  <2> QED
    BY <1>1, <2>1, ContentFits
<1> HIDE DEF Begins, Found
<1>2. measure \in [D -> Nat] /\ base \in [D -> V]
  OBVIOUS
<1>3. step \in [D -> D]
  <2> SUFFICES ASSUME NEW p \in D, Begins(p) PROVE p + 1 + Found(p).size \in D
    OBVIOUS
  <2> QED
    BY <1>1
<1>4. combine \in [D \X V -> V]
  <2> SUFFICES ASSUME NEW x \in D \X V, Begins(x[1]) PROVE <<Found(x[1])>> \o x[2] \in V
    OBVIOUS
  <2> DEFINE y == Found(x[1])
             s == x[2]
  <2>1. y \in Views /\ s \in Seq(Views)
    BY <1>1
  <2> HIDE DEF y, s
  <2>2. <<y>> \in Seq(Views)
    BY <2>1, Single
  <2>3. <<y>> \o s \in Seq(Views)
    BY <2>1, <2>2, ConcatProperties
  <2> QED
    BY <2>3 DEF y, s
<1>5. Falls(D, measure, stop, step)
  <2> SUFFICES ASSUME NEW p \in D, p \notin stop PROVE measure[step[p]] < measure[p]
    BY DEF Falls
  <2>1. Begins(p)
    OBVIOUS
  <2>2. step[p] = p + 1 + Found(p).size /\ step[p] \in p + 1 .. end
    BY <1>1, <2>1
  <2>3. step[p] \in D /\ end - step[p] < end - p
    BY <2>2
  <2> QED
    BY <2>3
<1> HIDE DEF D, V, measure, stop, base, step, combine
<1>6. PICK f \in [D -> V] : Recursive(f, D, stop, base, step, combine)
  BY <1>2, <1>3, <1>4, <1>5, RecursionExists
<1>7. ASSUME NEW p \in D
      PROVE  f[p] = IF Begins(p) THEN <<Found(p)>> \o f[p + 1 + Found(p).size] ELSE <<>>
  <2>1. f[p] = IF p \in stop THEN base[p] ELSE combine[<<p, f[step[p]]>>]
    BY <1>6 DEF Recursive
  <2>2. CASE ~Begins(p)
    BY <2>1, <2>2 DEF stop, base
  <2>3. CASE Begins(p)
    <3>1. step[p] = p + 1 + Found(p).size /\ step[p] \in D /\ p \notin stop
      BY <1>3, <2>3 DEF step, stop
    <3>2. <<p, f[step[p]]>> \in D \X V
      BY <3>1
    <3> DEFINE x == <<p, f[step[p]]>>
    <3>3. x \in D \X V /\ x[1] = p /\ x[2] = f[step[p]]
      BY <3>2
    <3> HIDE DEF x
    <3>4. combine[x] = IF Begins(x[1]) THEN <<Found(x[1])>> \o x[2] ELSE <<>>
      BY <3>3 DEF combine
    <3>5. combine[x] = <<Found(p)>> \o f[step[p]]
      BY <2>3, <3>3, <3>4
    <3>6. f[p] = combine[x]
      BY <2>1, <3>1 DEF x
    <3> QED
      BY <2>3, <3>1, <3>5, <3>6
  <2> QED
    BY <2>2, <2>3
<1> DEFINE Body == [p \in at .. end |->
             IF Starts(bytes, Left(end, p), field)
             THEN <<Content(bytes, Left(end, p))>>
                    \o f[p + 1 + Content(bytes, Left(end, p)).size]
             ELSE <<>>]
<1>8. f = Body
  <2>1. f = [p \in D |-> f[p]]
    BY <1>6
  <2> USE DEF D, Begins, Found
  <2>2. \A p \in at .. end : f[p] = Body[p]
    BY <1>7
  <2> HIDE DEF Begins, Found
  <2>3. Body = [p \in at .. end |-> Body[p]]
    OBVIOUS
  <2> HIDE DEF Body
  <2> QED
    BY <2>1, <2>2, <2>3
<1> QED
  BY <1>8, Zenon DEF Looped

LEMMA RepeatedLoops ==
  ASSUME NEW bytes \in Seq(Cells), NEW view \in Views, NEW field,
         view.at + view.size <= Len(bytes)
  PROVE  \E from : /\ Looping(from, bytes, view.at, view.at + view.size, field)
                   /\ Repeated(bytes, view, field) = from[view.at]
<1> DEFINE end == view.at + view.size
           from[at \in view.at .. end] ==
             LET left == View(at, end - at)
             IN IF Starts(bytes, left, field)
                THEN <<Content(bytes, left)>> \o from[at + 1 + Content(bytes, left).size]
                ELSE <<>>
           Loop(f) == [at \in view.at .. end |->
             LET left == View(at, end - at)
             IN IF Starts(bytes, left, field)
                THEN <<Content(bytes, left)>> \o f[at + 1 + Content(bytes, left).size]
                ELSE <<>>]
           Body(f) == [p \in view.at .. end |->
             IF Starts(bytes, Left(end, p), field)
             THEN <<Content(bytes, Left(end, p))>>
                    \o f[p + 1 + Content(bytes, Left(end, p)).size]
             ELSE <<>>]
<1>1. Repeated(bytes, view, field) = from[view.at]
  BY DEF Repeated
<1>2. from = CHOOSE f : f = Loop(f)
  OBVIOUS
<1>3. ASSUME NEW f PROVE Loop(f) = Body(f)
  BY DEF Left
<1>4. PICK f : f = Body(f)
  <2>1. end \in Nat /\ end <= Len(bytes) /\ view.at \in 0 .. end
    BY DEF Views
  <2> HIDE DEF end
  <2>2. PICK f : Looped(f, bytes, view.at, end, field)
    BY <2>1, LoopExists
  <2> QED
    BY <2>2, Zenon DEF Looped, end
<1> HIDE DEF from, Loop, Body
<1>5. from = Loop(from)
  BY <1>2, <1>3, <1>4, Zenon
<1>6. from = Body(from)
  BY <1>3, <1>5, Zenon
<1>7. Looping(from, bytes, view.at, end, field)
  <2> DEFINE Value(p) == IF Starts(bytes, Left(end, p), field)
                         THEN <<Content(bytes, Left(end, p))>>
                                \o from[p + 1 + Content(bytes, Left(end, p)).size]
                         ELSE <<>>
  <2>1. Body(from) = [p \in view.at .. end |-> Value(p)]
    BY Zenon DEF Body
  <2> HIDE DEF Value
  <2>2. \A p \in view.at .. end : from[p] = Value(p)
    BY <1>6, <2>1
  <2> QED
    BY <2>2, Zenon DEF Looping, Value
<1> QED
  BY <1>1, <1>7, Zenon

(* Fields of one number, one behind the other. *)
Laid(bytes, at, contents, offsets, field) ==
  /\ offsets[0] = 0
  /\ \A i \in 0 .. Len(contents) : offsets[i] \in Nat
  /\ \A i \in 1 .. Len(contents) :
       /\ offsets[i] = offsets[i - 1] + 1 + Len(contents[i])
       /\ Holds(bytes, at + offsets[i - 1], Field(field, contents[i]))

(* Their contents, in the order of the fields. *)
Ranges(at, contents, offsets) ==
  [i \in 1 .. Len(contents) |-> View(at + offsets[i - 1] + 1, Len(contents[i]))]

(* The loop finds these fields if nothing of that number follows. *)
LEMMA RepeatedFinds ==
  ASSUME NEW bytes \in Seq(Cells), NEW view \in Views, view.at + view.size <= Len(bytes),
         NEW field \in Nat, NEW contents \in Seq(Seq(Cells)), NEW offsets,
         Laid(bytes, view.at, contents, offsets, field),
         offsets[Len(contents)] <= view.size,
         offsets[Len(contents)] < view.size =>
           bytes[view.at + offsets[Len(contents)] + 1].field # field
  PROVE  Repeated(bytes, view, field) = Ranges(view.at, contents, offsets)
<1> DEFINE n == Len(contents)
           at == view.at
           end == view.at + view.size
           Found(i) == View(at + offsets[i - 1] + 1, Len(contents[i]))
           Rest(j) == [i \in 1 .. j |-> Found(n - j + i)]
<1>1. PICK from : Looping(from, bytes, at, end, field) /\ Repeated(bytes, view, field) = from[at]
  BY RepeatedLoops
<1>2. /\ at \in Nat /\ view.size \in Nat /\ end \in Nat /\ Len(bytes) \in Nat
      /\ end <= Len(bytes) /\ end = at + view.size
  BY DEF Views
<1>3. n \in Nat /\ \A i \in 1 .. n : contents[i] \in Seq(Cells) /\ Len(contents[i]) \in Nat
  <2>1. \A i \in 1 .. n : contents[i] \in Seq(Cells)
    OBVIOUS
  <2> QED
    BY <2>1
<1>4. /\ offsets[0] = 0
      /\ \A i \in 0 .. n : offsets[i] \in Nat
      /\ \A i \in 1 .. n : /\ offsets[i] = offsets[i - 1] + 1 + Len(contents[i])
                           /\ Holds(bytes, at + offsets[i - 1], Field(field, contents[i]))
  BY DEF Laid
<1>5. /\ offsets[n] <= view.size
      /\ offsets[n] < view.size => bytes[at + offsets[n] + 1].field # field
  OBVIOUS
<1>6. \A p \in at .. end :
        from[p] = IF Starts(bytes, Left(end, p), field)
                  THEN <<Content(bytes, Left(end, p))>>
                         \o from[p + 1 + Content(bytes, Left(end, p)).size]
                  ELSE <<>>
  BY <1>1 DEF Looping
<1> DEFINE T == {j \in Nat : j <= n => /\ offsets[n - j] <= offsets[n]
                                       /\ from[at + offsets[n - j]] = Rest(j)}
<1> HIDE DEF n, at, end, Found
<1>7. 0 \in T
  <2>1. n - 0 = n /\ n \in 0 .. n
    BY <1>3
  <2> DEFINE p == at + offsets[n]
  <2>2. offsets[n] \in Nat /\ offsets[n] <= offsets[n] /\ p \in at .. end
    BY <1>2, <1>4, <1>5, <2>1
  <2>3. ~Starts(bytes, Left(end, p), field)
    <3>1. Left(end, p).at = p /\ Left(end, p).size = end - p
      BY ViewIs DEF Left
    <3>2. end - p > 0 => offsets[n] < view.size
      BY <1>2, <2>2
    <3> QED
      BY <1>5, <3>1, <3>2 DEF Starts
  <2>4. from[p] = <<>>
    BY <1>6, <2>2, <2>3
  <2>5. Rest(0) = <<>>
    OBVIOUS
  <2> QED
    BY <2>1, <2>2, <2>4, <2>5
<1>8. ASSUME NEW j \in Nat, j \in T PROVE j + 1 \in T
  <2> SUFFICES ASSUME j + 1 <= n
               PROVE  /\ offsets[n - (j + 1)] <= offsets[n]
                      /\ from[at + offsets[n - (j + 1)]] = Rest(j + 1)
    OBVIOUS
  <2> DEFINE i == n - j
             p == at + offsets[i - 1]
             len == Len(contents[i])
  <2>1. /\ i \in 1 .. n /\ i \in 0 .. n /\ i - 1 \in 0 .. n /\ n - (j + 1) = i - 1
        /\ n \in 0 .. n /\ j <= n
    BY <1>3
  <2>2. offsets[i] <= offsets[n] /\ from[at + offsets[i]] = Rest(j)
    BY <1>8, <2>1
  <2> HIDE DEF i, Rest
  <2>3. /\ offsets[i - 1] \in Nat /\ offsets[i] \in Nat /\ offsets[n] \in Nat /\ len \in Nat
        /\ offsets[i] = offsets[i - 1] + 1 + len
    BY <1>3, <1>4, <2>1
  <2>4. Holds(bytes, p, Field(field, contents[i])) /\ contents[i] \in Seq(Cells)
    BY <1>3, <1>4, <2>1
  <2>5. bytes[p + 1].field = field /\ bytes[p + 1].size = len
    <3> DEFINE content == contents[i]
    <3>1. Holds(bytes, p, Field(field, content)) /\ content \in Seq(Cells) /\ len = Len(content)
      BY <2>4
    <3> HIDE DEF content, len, p
    <3> QED
      BY <1>2, <3>1, FieldHeld
  <2> HIDE DEF len
  <2>6. /\ p \in at .. end /\ end - p > 0 /\ len < end - p
        /\ p + 1 + len = at + offsets[i]
    <3> DEFINE a == offsets[i - 1]
               b == offsets[i]
               c == offsets[n]
               s == view.size
    <3>1. a \in Nat /\ b \in Nat /\ c \in Nat /\ b = a + 1 + len /\ b <= c /\ c <= s
          /\ p = at + a
      BY <1>5, <2>2, <2>3
    <3>2. len \in Nat /\ at \in Nat /\ s \in Nat /\ end = at + s
      BY <1>2, <2>3
    <3> HIDE DEF a, b, c, p, s, len
    <3>3. a + 1 + len <= s /\ end \in Nat /\ p \in Nat
      BY <3>1, <3>2
    <3>4. p \in at .. end /\ end - p > 0 /\ len < end - p
      BY <3>1, <3>2, <3>3
    <3>5. p + 1 + len = at + b
      BY <3>1, <3>2
    <3> QED
      BY <3>4, <3>5 DEF b
  <2> HIDE DEF p
  <2>7. Left(end, p).at = p /\ Left(end, p).size = end - p
    BY ViewIs DEF Left
  <2>8. Starts(bytes, Left(end, p), field)
    BY <2>5, <2>6, <2>7 DEF Starts
  <2>9. Content(bytes, Left(end, p)) = View(p + 1, len) /\ View(p + 1, len).size = len
    BY <2>5, <2>7, ViewIs DEF Content
  <2>10. from[p] = <<View(p + 1, len)>> \o Rest(j)
    BY <1>6, <2>2, <2>6, <2>8, <2>9
  <2>11. View(p + 1, len) = Found(i)
    BY DEF Found, p, len
  <2>12. <<Found(i)>> \o Rest(j) = Rest(j + 1)
    <3> DEFINE S == {Found(k) : k \in 1 .. n}
    <3>1. /\ \A k \in 1 .. j : n - j + k \in 1 .. n
          /\ \A k \in 1 .. j + 1 : n - (j + 1) + k \in 1 .. n
      BY <1>3, <2>1
    <3>2. Rest(j) \in [1 .. j -> S] /\ Rest(j + 1) \in [1 .. j + 1 -> S]
      BY <3>1 DEF Rest
    <3>3. Rest(j) \in Seq(S) /\ Len(Rest(j)) = j /\ Rest(j + 1) \in Seq(S) /\ Len(Rest(j + 1)) = j + 1
      <4> HIDE DEF S
      <4>1. ASSUME NEW m \in Nat, NEW s \in [1 .. m -> S]
            PROVE  s \in Seq(S) /\ Len(s) = m
        OBVIOUS
      <4>2. j + 1 \in Nat
        OBVIOUS
      <4> QED
        BY <3>2, <4>1, <4>2, Zenon
    <3>4. Found(i) \in S
      BY <2>1
    <3> HIDE DEF S
    <3>5. <<Found(i)>> \in Seq(S) /\ Len(<<Found(i)>>) = 1 /\ <<Found(i)>>[1] = Found(i)
      BY <3>4, Single
    <3>6. /\ <<Found(i)>> \o Rest(j) \in Seq(S)
          /\ Len(<<Found(i)>> \o Rest(j)) = 1 + j
          /\ \A k \in 1 .. 1 + j : (<<Found(i)>> \o Rest(j))[k] =
               IF k <= 1 THEN <<Found(i)>>[k] ELSE Rest(j)[k - 1]
      BY <3>3, <3>5, ConcatProperties
    <3>7. ASSUME NEW k \in 1 .. j + 1
          PROVE  (<<Found(i)>> \o Rest(j))[k] = Rest(j + 1)[k]
      <4>1. Rest(j + 1)[k] = Found(n - (j + 1) + k)
        BY DEF Rest
      <4>2. CASE k = 1
        <5>1. n - (j + 1) + k = i /\ k \in 1 .. 1 + j /\ k <= 1
          BY <1>3, <2>1, <4>2 DEF i
        <5> QED
          BY <3>5, <3>6, <4>1, <4>2, <5>1
      <4>3. CASE k # 1
        <5>1. k - 1 \in 1 .. j /\ k \in 1 .. 1 + j /\ ~(k <= 1)
              /\ n - j + (k - 1) = n - (j + 1) + k
          BY <1>3, <4>3
        <5>2. Rest(j)[k - 1] = Found(n - j + (k - 1))
          BY <5>1 DEF Rest
        <5> QED
          BY <3>6, <4>1, <5>1, <5>2
      <4> QED
        BY <4>2, <4>3
    <3>8. Len(<<Found(i)>> \o Rest(j)) = Len(Rest(j + 1)) /\ Len(<<Found(i)>> \o Rest(j)) = j + 1
      BY <3>3, <3>6
    <3> QED
      BY <3>3, <3>6, <3>7, <3>8, SeqEqual
  <2>13. offsets[i - 1] <= offsets[n]
    BY <2>2, <2>3
  <2> QED
    BY <2>1, <2>10, <2>11, <2>12, <2>13 DEF p
<1>9. n \in T
  <2> HIDE DEF T
  <2> QED
    BY <1>3, <1>7, <1>8, SetInduction
<1>10. n - n = 0 /\ n <= n /\ at + 0 = at
  BY <1>2, <1>3
<1>11. from[at] = Rest(n)
  BY <1>4, <1>9, <1>10
<1>12. Rest(n) = Ranges(view.at, contents, offsets)
  <2>1. \A i \in 1 .. n : n - n + i = i
    BY <1>3
  <2>2. Rest(n) = [i \in 1 .. n |-> Found(i)]
    BY <2>1
  <2> HIDE DEF Rest
  <2> QED
    BY <2>2 DEF Ranges, Found, n, at
<1> HIDE DEF Rest
<1> QED
  BY <1>1, <1>11, <1>12

(* Such fields are what Each writes. *)
Written(contents, field) == FlattenSeq([i \in DOMAIN contents |-> Field(field, contents[i])])

LEMMA WrittenIs ==
  ASSUME NEW contents \in Seq(Seq(Cells)), NEW field \in Nat
  PROVE  /\ Written(contents, field) \in Seq(Cells)
         /\ \A bytes, at : Len(bytes) \in Nat /\ Holds(bytes, at, Written(contents, field)) =>
              \E offsets : /\ Laid(bytes, at, contents, offsets, field)
                           /\ offsets[Len(contents)] = Len(Written(contents, field))
<1> DEFINE n == Len(contents)
           parts == [i \in DOMAIN contents |-> Field(field, contents[i])]
           whole == Written(contents, field)
<1>1. /\ n \in Nat /\ DOMAIN contents = 1 .. n
      /\ \A i \in 1 .. n : contents[i] \in Seq(Cells) /\ Len(contents[i]) \in Nat
  <2>1. \A i \in 1 .. n : contents[i] \in Seq(Cells)
    OBVIOUS
  <2> QED
    BY <2>1
<1>2. \A i \in 1 .. n : /\ Field(field, contents[i]) \in Seq(Cells)
                        /\ Len(Field(field, contents[i])) = Len(contents[i]) + 1
  BY <1>1, FieldIs
<1>3. parts \in Seq(Seq(Cells)) /\ Len(parts) = n
  BY <1>1, <1>2
<1>4. \A i \in 1 .. n : parts[i] = Field(field, contents[i])
  BY <1>1
<1>5. whole = FlattenSeq(parts)
  BY DEF Written
<1> HIDE DEF parts, whole
<1>6. PICK at : Parted(whole, at, parts, Cells)
  BY <1>3, <1>5, FlattenIs
<1>7. /\ whole \in Seq(Cells) /\ Len(whole) = at[n]
      /\ at[0] = 0 /\ \A i \in 0 .. n : at[i] \in Nat
      /\ \A i \in 1 .. n : at[i] = at[i - 1] + Len(parts[i])
      /\ \A i \in 1 .. n : Holds(whole, at[i - 1], parts[i])
  BY <1>3, <1>6 DEF Parted, Starting
<1>8. ASSUME NEW bytes, NEW b, Len(bytes) \in Nat, Holds(bytes, b, whole)
      PROVE  Laid(bytes, b, contents, at, field)
  <2>1. ASSUME NEW i \in 1 .. n
        PROVE  /\ at[i] = at[i - 1] + 1 + Len(contents[i])
               /\ Holds(bytes, b + at[i - 1], Field(field, contents[i]))
    <3>1. i \in 0 .. n /\ i - 1 \in 0 .. n
      BY <1>1
    <3>2. at[i - 1] \in Nat /\ at[i] \in Nat /\ Len(contents[i]) \in Nat
      BY <1>1, <1>7, <3>1
    <3>3. at[i] = at[i - 1] + (Len(contents[i]) + 1)
      BY <1>2, <1>4, <1>7
    <3>4. at[i] = at[i - 1] + 1 + Len(contents[i])
      <4> DEFINE a == at[i - 1]
                 l == Len(contents[i])
      <4>1. a \in Nat /\ l \in Nat /\ at[i] = a + (l + 1)
        BY <3>2, <3>3
      <4> HIDE DEF a, l
      <4>2. at[i] = a + 1 + l
        BY <4>1
      <4> QED
        BY <4>2 DEF a, l
    <3>5. Holds(bytes, b + at[i - 1], parts[i])
      <4> DEFINE part == parts[i]
                 a == at[i - 1]
      <4>1. Holds(whole, a, part)
        BY <1>7
      <4> HIDE DEF part, a
      <4>2. /\ a \in Nat /\ Len(part) \in Nat /\ a + Len(part) <= Len(whole)
            /\ \A k \in 1 .. Len(part) : whole[a + k] = part[k]
        BY <4>1 DEF Holds
      <4>3. /\ b \in Nat /\ Len(whole) \in Nat /\ b + Len(whole) <= Len(bytes)
            /\ \A k \in 1 .. Len(whole) : bytes[b + k] = whole[k]
        BY <1>8 DEF Holds
      <4>4. \A k \in 1 .. Len(part) : bytes[b + a + k] = part[k]
        <5> TAKE k \in 1 .. Len(part)
        <5>1. a + k \in 1 .. Len(whole) /\ b + (a + k) = b + a + k
          BY <4>2, <4>3
        <5> QED
          BY <4>2, <4>3, <5>1
      <4>5. b + a \in Nat /\ b + a + Len(part) <= Len(bytes)
        BY <1>8, <4>2, <4>3
      <4>6. Holds(bytes, b + a, part)
        BY <4>2, <4>4, <4>5 DEF Holds
      <4> QED
        BY <4>6 DEF part, a
    <3> QED
      BY <1>4, <3>4, <3>5
  <2> QED
    BY <1>7, <2>1 DEF Laid
<1> QED
  BY <1>7, <1>8 DEF whole

-----------------------------------------------------------------------------
(* A block and its transactions.                                           *)

(* The reduced payload of a transaction. *)
Leaves(cmds) == [i \in DOMAIN cmds |-> <<Leaf(cmds[i])>>]

AfterCommands(tx) ==
  (IF tx.by = NoCreator THEN <<>> ELSE Name(2)) \o <<Tag(3, 0), Tag(4, 0)>>

Reduced(tx) == Written(Leaves(tx.cmds), 1) \o AfterCommands(tx)

LEMMA NameIs ==
  ASSUME NEW field \in Nat
  PROVE  Name(field) \in Seq(Cells) /\ Len(Name(field)) = 2 /\ Name(field)[1] = Tag(field, 1)
<1> DEFINE leaf == Leaf(NoCommand)
<1>1. leaf \in Cells
  BY LeafIs
<1> HIDE DEF leaf
<1>2. <<leaf>> \in Seq(Cells) /\ Len(<<leaf>>) = 1
  BY <1>1, Single
<1>3. /\ Field(field, <<leaf>>) \in Seq(Cells) /\ Len(Field(field, <<leaf>>)) = 1 + 1
      /\ Field(field, <<leaf>>)[1] = Tag(field, Len(<<leaf>>))
  BY <1>2, FieldIs
<1> QED
  BY <1>2, <1>3 DEF Name, leaf

LEMMA TagsAre ==
  ASSUME NEW f \in Nat, NEW g \in Nat
  PROVE  /\ <<Tag(f, 0), Tag(g, 0)>> \in Seq(Cells) /\ Len(<<Tag(f, 0), Tag(g, 0)>>) = 2
         /\ <<Tag(f, 0), Tag(g, 0)>>[1] = Tag(f, 0)
<1> DEFINE s == Tag(f, 0)
           t == Tag(g, 0)
<1>1. s \in Cells /\ t \in Cells
  BY TagIs
<1> HIDE DEF s, t
<1>2. <<s, t>> \in Seq(Cells) /\ Len(<<s, t>>) = 2 /\ <<s, t>>[1] = s
  BY <1>1
<1> QED
  BY <1>2 DEF s, t

(* What follows the commands is no command. *)
LEMMA AfterCommandsIs ==
  ASSUME NEW tx
  PROVE  /\ AfterCommands(tx) \in Seq(Cells) /\ Len(AfterCommands(tx)) >= 1
         /\ AfterCommands(tx)[1].field # 1
<1> DEFINE tags == <<Tag(3, 0), Tag(4, 0)>>
<1>1. tags \in Seq(Cells) /\ Len(tags) = 2 /\ tags[1] = Tag(3, 0)
  BY TagsAre
<1>2. Tag(3, 0).field # 1 /\ Tag(2, 1).field # 1
  BY DEF Tag
<1>3. Name(2) \in Seq(Cells) /\ Len(Name(2)) = 2 /\ Name(2)[1] = Tag(2, 1)
  BY NameIs
<1> HIDE DEF tags
<1>4. CASE tx.by = NoCreator
  <2>1. AfterCommands(tx) = tags
    BY <1>1, <1>4, ConcatEmptySeq DEF AfterCommands, tags
  <2>2. Len(tags) >= 1 /\ tags[1].field # 1
    BY <1>1, <1>2
  <2> QED
    BY <1>1, <2>1, <2>2, Zenon
<1>5. CASE tx.by # NoCreator
  <2>1. AfterCommands(tx) = Name(2) \o tags
    BY <1>5 DEF AfterCommands, tags
  <2> DEFINE name == Name(2)
  <2>2. name \in Seq(Cells) /\ Len(name) = 2 /\ name[1] = Tag(2, 1)
    BY <1>3
  <2> HIDE DEF name
  <2>3. /\ name \o tags \in Seq(Cells) /\ Len(name \o tags) = Len(name) + Len(tags)
        /\ \A i \in 1 .. Len(name) + Len(tags) : (name \o tags)[i] =
             IF i <= Len(name) THEN name[i] ELSE tags[i - Len(name)]
    BY <1>1, <2>2, ConcatProperties
  <2>4. (name \o tags)[1] = Tag(2, 1) /\ Len(name \o tags) >= 1
    BY <1>1, <2>2, <2>3
  <2>5. (name \o tags)[1].field # 1
    BY <1>2, <2>4
  <2> QED
    BY <2>1, <2>3, <2>4, <2>5, Zenon DEF name
<1> QED
  BY <1>4, <1>5

LEMMA LeavesAre ==
  ASSUME NEW cmds \in Seq(Commands)
  PROVE  /\ Leaves(cmds) \in Seq(Seq(Cells)) /\ Len(Leaves(cmds)) = Len(cmds)
         /\ \A i \in 1 .. Len(cmds) : /\ Leaves(cmds)[i] = <<Leaf(cmds[i])>>
                                      /\ Len(Leaves(cmds)[i]) = 1
<1>1. Len(cmds) \in Nat /\ DOMAIN cmds = 1 .. Len(cmds) /\ \A i \in 1 .. Len(cmds) : cmds[i] \in Commands
  OBVIOUS
<1>2. ASSUME NEW i \in 1 .. Len(cmds)
      PROVE  <<Leaf(cmds[i])>> \in Seq(Cells) /\ Len(<<Leaf(cmds[i])>>) = 1
  <2> DEFINE leaf == Leaf(cmds[i])
  <2>1. leaf \in Cells
    BY <1>1, LeafIs
  <2> HIDE DEF leaf
  <2>2. <<leaf>> \in Seq(Cells) /\ Len(<<leaf>>) = 1
    BY <2>1, Single
  <2> QED
    BY <2>2 DEF leaf
<1>3. \A i \in 1 .. Len(cmds) : Leaves(cmds)[i] = <<Leaf(cmds[i])>>
  BY <1>1 DEF Leaves
<1>4. Leaves(cmds) \in [1 .. Len(cmds) -> Seq(Cells)]
  BY <1>1, <1>2 DEF Leaves
<1>5. Leaves(cmds) \in Seq(Seq(Cells)) /\ Len(Leaves(cmds)) = Len(cmds)
  BY <1>1, <1>4
<1> QED
  BY <1>2, <1>3, <1>5

LEMMA ReducedIs ==
  ASSUME NEW tx \in Txs
  PROVE  Reduced(tx) \in Seq(Cells) /\ tx.cmds \in Seq(Commands)
<1>1. tx.cmds \in Seq(Commands)
  BY DEF Txs
<1>2. Leaves(tx.cmds) \in Seq(Seq(Cells))
  BY <1>1, LeavesAre
<1>3. Written(Leaves(tx.cmds), 1) \in Seq(Cells)
  BY <1>2, WrittenIs
<1> QED
  BY <1>1, <1>3, AfterCommandsIs, ConcatProperties DEF Reduced

(* The transaction in the block: the payload of its payload is the reduced *)
(* one, and the signatures follow.                                         *)
LEMMA SerializeTxIs ==
  ASSUME NEW tx \in Txs
  PROVE  /\ SerializeTx(tx) \in Seq(Cells)
         /\ \E rest \in Seq(Cells) : SerializeTx(tx) = Field(1, Field(1, Reduced(tx))) \o rest
<1> DEFINE commands == Each(tx.cmds, LAMBDA cmd : Field(1, <<Leaf(cmd)>>))
           creator  == IF tx.by = NoCreator THEN <<>> ELSE Name(2)
           tags     == <<Tag(3, 0), Tag(4, 0)>>
           names    == [i \in DOMAIN tx.signers |-> <<Leaf(NoCommand)>>]
           rest     == Each(tx.signers, LAMBDA key : Name(2))
<1>1. tx.cmds \in Seq(Commands) /\ tx.signers \in Seq(Keys)
  BY DEF Txs
<1>2. commands = Written(Leaves(tx.cmds), 1)
  <2>1. /\ DOMAIN Leaves(tx.cmds) = DOMAIN tx.cmds
        /\ \A i \in DOMAIN tx.cmds : Leaves(tx.cmds)[i] = <<Leaf(tx.cmds[i])>>
    BY DEF Leaves
  <2>2. [i \in DOMAIN tx.cmds |-> Field(1, <<Leaf(tx.cmds[i])>>)]
          = [i \in DOMAIN Leaves(tx.cmds) |-> Field(1, Leaves(tx.cmds)[i])]
    BY <2>1
  <2> QED
    BY <2>2, Zenon DEF Each, Written
<1>3. rest = Written(names, 2)
  <2>1. DOMAIN names = DOMAIN tx.signers /\ \A i \in DOMAIN tx.signers : names[i] = <<Leaf(NoCommand)>>
    OBVIOUS
  <2> HIDE DEF names
  <2>2. [i \in DOMAIN tx.signers |-> Name(2)] = [i \in DOMAIN names |-> Field(2, names[i])]
    BY <2>1 DEF Name
  <2> QED
    BY <2>2, Zenon DEF Each, Written
<1>4. rest \in Seq(Cells)
  <2>1. <<Leaf(NoCommand)>> \in Seq(Cells)
    BY LeafIs, Single
  <2>2. names \in Seq(Seq(Cells))
    <3>1. Len(tx.signers) \in Nat /\ DOMAIN tx.signers = 1 .. Len(tx.signers)
      BY <1>1
    <3> QED
      BY <2>1, <3>1
  <2> HIDE DEF names, rest
  <2> QED
    BY <1>3, <2>2, WrittenIs
<1>5. (commands \o creator) \o tags = Reduced(tx)
  <2> DEFINE whole == Written(Leaves(tx.cmds), 1)
  <2>1. whole \in Seq(Cells)
    BY <1>1, LeavesAre, WrittenIs
  <2>2. creator \in Seq(Cells)
    BY NameIs, EmptySeq
  <2>3. tags \in Seq(Cells)
    BY TagsAre
  <2>4. AfterCommands(tx) = creator \o tags
    BY DEF AfterCommands
  <2> HIDE DEF whole, creator, tags, commands
  <2>5. (whole \o creator) \o tags = whole \o (creator \o tags)
    BY <2>1, <2>2, <2>3, ConcatAssociative
  <2> QED
    BY <1>2, <2>4, <2>5 DEF Reduced, whole
<1>6. SerializeTx(tx) = Field(1, Field(1, (commands \o creator) \o tags)) \o rest
  BY DEF SerializeTx
<1> HIDE DEF commands, creator, tags, rest
<1>7. SerializeTx(tx) = Field(1, Field(1, Reduced(tx))) \o rest
  BY <1>5, <1>6
<1>8. Field(1, Field(1, Reduced(tx))) \in Seq(Cells)
  BY ReducedIs, FieldIs
<1> QED
  BY <1>4, <1>7, <1>8, ConcatProperties

(* Pb::next finds the field that a view begins with. *)
LEMMA NextFinds ==
  ASSUME NEW bytes, NEW at, NEW size, NEW field \in Nat, NEW content \in Seq(Cells), NEW stale,
         Len(bytes) \in Nat, Holds(bytes, at, Field(field, content)),
         size \in Nat, Len(content) < size
  PROVE  /\ NextBytes(bytes, View(at, size), field, stale) = View(at + 1, Len(content))
         /\ Holds(bytes, at + 1, content)
<1>1. bytes[at + 1].field = field /\ bytes[at + 1].size = Len(content)
        /\ Holds(bytes, at + 1, content)
  BY FieldHeld
<1>2. View(at, size).at = at /\ View(at, size).size = size
  BY ViewIs
<1>3. size > 0
  <2>1. Len(content) \in Nat
    OBVIOUS
  <2> QED
    BY <2>1
<1>4. Starts(bytes, View(at, size), field)
  BY <1>1, <1>2, <1>3 DEF Starts
<1>5. Content(bytes, View(at, size)) = View(at + 1, Len(content))
  BY <1>1, <1>2 DEF Content
<1> QED
  BY <1>1, <1>4, <1>5 DEF NextBytes

-----------------------------------------------------------------------------
(* What getTxCmd remembers.                                                *)

(* A sequence of one view is joined to that view. *)
LEMMA JoinedOne ==
  ASSUME NEW at \in Nat, NEW size \in Nat
  PROVE  Joined(<<View(at, size)>>) = View(at, size)
<1> DEFINE v == View(at, size)
<1>1. v.at = at /\ v.size = size
  BY ViewIs
<1> HIDE DEF v
<1>2. <<v>> # <<>> /\ <<v>>[1] = v /\ DOMAIN <<v>> = 1 .. 1
  OBVIOUS
<1>3. PICK h : FoldRun(<<"sizes">>, 0, <<v>>, 1, h) /\ SizeOfAll(0, <<v>>) = h[1]
  <2> DEFINE views == <<v>>
             base == 0
             n == 1
  <2>1. DOMAIN views = 1 .. n /\ n \in Nat
    BY <1>2
  <2> HIDE DEF views, base, n
  <2>2. \E h : FoldRun(<<"sizes">>, base, views, n, h) /\ SizeOfAll(base, views) = h[n]
    BY <2>1, SizesFold
  <2> QED
    BY <2>2 DEF views, base, n
<1>4. h[1] = FoldStep(<<"sizes">>, 0, v)
  <2>1. h[0] = 0 /\ 1 \in 1 .. 1 /\ 1 - 1 = 0
    BY <1>3 DEF FoldRun
  <2>2. h[1] = FoldStep(<<"sizes">>, h[1 - 1], <<v>>[1])
    BY <1>3, <2>1 DEF FoldRun
  <2> QED
    BY <1>2, <2>1, <2>2
<1>5. FoldStep(<<"sizes">>, 0, v) = 0 + v.size
  BY DEF FoldStep
<1>6. SizeOfAll(0, <<v>>) = size
  BY <1>1, <1>3, <1>4, <1>5
<1>7. Joined(<<v>>) = View(<<v>>[1].at, SizeOfAll(0, <<v>>))
  BY <1>2, Zenon DEF Joined, SizeOfAll
<1>8. Joined(<<v>>) = View(at, size)
  BY <1>1, <1>2, <1>6, <1>7, Zenon
<1> QED
  BY <1>8 DEF v

(* A range of bytes that holds the reduced payload of a transaction. *)
CommandsAt(bytes, range, tx) ==
  \E at : range = View(at, Len(Reduced(tx))) /\ Holds(bytes, at, Reduced(tx))

LEMMA CommandsOfTx ==
  ASSUME NEW bytes \in Seq(Cells), NEW tx \in Txs, NEW at, Holds(bytes, at, SerializeTx(tx)),
         NEW found
  PROVE  \E range \in Views :
           /\ CommandsOf(bytes, found, View(at, Len(SerializeTx(tx)))).ranges
                = Append(found.ranges, range)
           /\ CommandsAt(bytes, range, tx)
<1> DEFINE part == Reduced(tx)
           payload == Field(1, part)
           whole == Field(1, payload)
           size == Len(SerializeTx(tx))
<1>1. part \in Seq(Cells) /\ Len(part) \in Nat /\ Len(bytes) \in Nat
  <2>1. part \in Seq(Cells)
    BY ReducedIs
  <2> HIDE DEF part
  <2> QED
    BY <2>1
<1> HIDE DEF part
<1>2. payload \in Seq(Cells) /\ Len(payload) = Len(part) + 1
  BY <1>1, FieldIs
<1> HIDE DEF payload
<1>3. whole \in Seq(Cells) /\ Len(whole) = Len(payload) + 1
  BY <1>2, FieldIs
<1>4. PICK rest \in Seq(Cells) : SerializeTx(tx) = whole \o rest
  BY SerializeTxIs DEF part, payload
<1> HIDE DEF whole
<1>5. size = Len(whole) + Len(rest) /\ Len(rest) \in Nat
  <2>1. Len(whole \o rest) = Len(whole) + Len(rest)
    BY <1>3, ConcatProperties
  <2>2. Len(rest) \in Nat
    OBVIOUS
  <2> QED
    BY <1>4, <2>1, <2>2
<1>6. Holds(bytes, at, whole)
  BY <1>1, <1>3, <1>4, ConcatHeld
<1> HIDE DEF size
<1>7. size \in Nat /\ Len(payload) < size
  BY <1>1, <1>2, <1>3, <1>5
<1> DEFINE view == View(at + 1, Len(payload))
<1>8. /\ NextBytes(bytes, View(at, size), 1, found.reduced) = view
      /\ Holds(bytes, at + 1, payload)
  <2> DEFINE stale == found.reduced
             field == 1
             len == Len(payload)
  <2>1. /\ Holds(bytes, at, Field(field, payload)) /\ field \in Nat
        /\ payload \in Seq(Cells) /\ Len(bytes) \in Nat
        /\ size \in Nat /\ Len(payload) < size
    BY <1>1, <1>2, <1>6, <1>7 DEF whole
  <2> HIDE DEF stale, field
  <2>2. /\ NextBytes(bytes, View(at, size), field, stale) = View(at + 1, len)
        /\ Holds(bytes, at + 1, payload)
    BY <2>1, NextFinds
  <2> QED
    BY <2>2 DEF stale, field
<1>9. Holds(bytes, at + 2, part) /\ at \in Nat /\ at + 1 + 1 + Len(part) <= Len(bytes)
  <2>1. Holds(bytes, at + 1, Field(1, part)) /\ at \in Nat
    BY <1>6, <1>8 DEF payload, Holds
  <2>2. Holds(bytes, at + 1 + 1, part) /\ at + 1 + 1 + Len(part) <= Len(bytes)
    BY <1>1, <2>1, FieldHeld
  <2>3. at + 1 + 1 = at + 2
    BY <2>1
  <2> QED
    BY <2>1, <2>2, <2>3
<1>10. Repeated(bytes, view, 1) = <<View(at + 2, Len(part))>>
  <2> DEFINE contents == <<part>>
             offsets == [i \in 0 .. 1 |-> IF i = 0 THEN 0 ELSE 1 + Len(part)]
  <2>1. contents \in Seq(Seq(Cells)) /\ Len(contents) = 1 /\ contents[1] = part
    BY <1>1
  <2>2. offsets[0] = 0 /\ offsets[1] = 1 + Len(part)
    OBVIOUS
  <2> HIDE DEF contents, offsets
  <2>3. view \in Views /\ view.at = at + 1 /\ view.size = Len(part) + 1
    BY <1>1, <1>2, <1>9 DEF View, Views
  <2> HIDE DEF view
  <2>4. Laid(bytes, view.at, contents, offsets, 1)
    <3>1. \A i \in 0 .. 1 : i = 0 \/ i = 1
      OBVIOUS
    <3>2. \A i \in 0 .. 1 : offsets[i] \in Nat
      BY <1>1, <2>2, <3>1
    <3>3. \A i \in 1 .. 1 : i = 1 /\ i - 1 = 0
      OBVIOUS
    <3>4. Holds(bytes, view.at + offsets[1 - 1], Field(1, contents[1]))
      <4>1. view.at + offsets[1 - 1] = at + 1
        BY <1>9, <2>2, <2>3
      <4> QED
        BY <1>8, <2>1, <4>1 DEF payload
    <3>5. offsets[1] = offsets[1 - 1] + 1 + Len(contents[1])
      BY <1>1, <2>1, <2>2
    <3> QED
      BY <2>1, <2>2, <3>2, <3>3, <3>4, <3>5 DEF Laid
  <2>5. /\ view.at + view.size <= Len(bytes)
        /\ offsets[Len(contents)] <= view.size
        /\ offsets[Len(contents)] < view.size =>
             bytes[view.at + offsets[Len(contents)] + 1].field # 1
        /\ 1 \in Nat
    BY <1>1, <1>9, <2>1, <2>2, <2>3
  <2>6. Repeated(bytes, view, 1) = Ranges(view.at, contents, offsets)
    <3> DEFINE field == 1
    <3>1. /\ field \in Nat /\ contents \in Seq(Seq(Cells)) /\ view \in Views
          /\ view.at + view.size <= Len(bytes)
          /\ offsets[Len(contents)] <= view.size
          /\ Laid(bytes, view.at, contents, offsets, field)
          /\ offsets[Len(contents)] < view.size =>
               bytes[view.at + offsets[Len(contents)] + 1].field # field
      BY <2>1, <2>3, <2>4, <2>5
    <3> HIDE DEF field
    <3>2. Repeated(bytes, view, field) = Ranges(view.at, contents, offsets)
      BY <3>1, RepeatedFinds
    <3> QED
      BY <3>2 DEF field
  <2>7. Ranges(view.at, contents, offsets) = <<View(at + 2, Len(part))>>
    <3>1. \A i \in 1 .. 1 : i = 1 /\ i - 1 = 0
      OBVIOUS
    <3>2. view.at + offsets[0] + 1 = at + 2
      BY <1>9, <2>2, <2>3
    <3>3. \A i \in 1 .. 1 :
            View(view.at + offsets[i - 1] + 1, Len(contents[i])) = View(at + 2, Len(part))
      BY <2>1, <3>1, <3>2
    <3> DEFINE x == View(at + 2, Len(part))
    <3> HIDE DEF x
    <3>4. Ranges(view.at, contents, offsets) = [i \in 1 .. 1 |-> x]
      BY <2>1, <3>3 DEF Ranges, x
    <3>5. [i \in 1 .. 1 |-> x] = <<x>>
      OBVIOUS
    <3> QED
      BY <3>4, <3>5 DEF x
  <2> QED
    BY <2>6, <2>7
<1> DEFINE range == View(at + 2, Len(part))
<1>11. range \in Views
  BY <1>1, <1>9 DEF View, Views
<1>12. Joined(Repeated(bytes, view, 1)) = range
  BY <1>1, <1>9, <1>10, JoinedOne
<1>13. CommandsOf(bytes, found, View(at, size)).ranges
         = Append(found.ranges, Joined(Repeated(bytes, view, 1)))
  BY <1>8 DEF CommandsOf
<1>14. CommandsAt(bytes, range, tx)
  BY <1>9 DEF CommandsAt, part
<1> HIDE DEF range
<1> QED
  BY <1>11, <1>12, <1>13, <1>14 DEF size

(* A block with these transactions. *)
Contents(txs) == [i \in DOMAIN txs |-> SerializeTx(txs[i])]

LEMMA ContentsAre ==
  ASSUME NEW txs \in Seq(Txs)
  PROVE  /\ Contents(txs) \in Seq(Seq(Cells)) /\ Len(Contents(txs)) = Len(txs)
         /\ \A i \in 1 .. Len(txs) : txs[i] \in Txs /\ Contents(txs)[i] = SerializeTx(txs[i])
         /\ Each(txs, LAMBDA tx : Field(1, SerializeTx(tx))) = Written(Contents(txs), 1)
<1>1. Len(txs) \in Nat /\ DOMAIN txs = 1 .. Len(txs) /\ \A i \in 1 .. Len(txs) : txs[i] \in Txs
  OBVIOUS
<1>2. \A i \in 1 .. Len(txs) : SerializeTx(txs[i]) \in Seq(Cells)
  BY <1>1, SerializeTxIs
<1>3. \A i \in 1 .. Len(txs) : Contents(txs)[i] = SerializeTx(txs[i])
  BY <1>1 DEF Contents
<1>4. Contents(txs) \in [1 .. Len(txs) -> Seq(Cells)]
  BY <1>1, <1>2 DEF Contents
<1>5. Contents(txs) \in Seq(Seq(Cells)) /\ Len(Contents(txs)) = Len(txs)
  BY <1>1, <1>4
<1>6. Each(txs, LAMBDA tx : Field(1, SerializeTx(tx))) = Written(Contents(txs), 1)
  <2>1. DOMAIN Contents(txs) = DOMAIN txs /\ \A i \in DOMAIN txs : Contents(txs)[i] = SerializeTx(txs[i])
    BY DEF Contents
  <2>2. [i \in DOMAIN txs |-> Field(1, SerializeTx(txs[i]))]
          = [i \in DOMAIN Contents(txs) |-> Field(1, Contents(txs)[i])]
    BY <2>1
  <2> QED
    BY <2>2, Zenon DEF Each, Written
<1> QED
  BY <1>1, <1>3, <1>5, <1>6, Zenon

(* A sequence holds itself. *)
LEMMA HoldsItself ==
  ASSUME NEW S, NEW s \in Seq(S)
  PROVE  Holds(s, 0, s)
<1>1. Len(s) \in Nat /\ 0 + Len(s) <= Len(s) /\ \A k \in 1 .. Len(s) : 0 + k = k
  OBVIOUS
<1> QED
  BY <1>1 DEF Holds

(* Where the transactions of a block are in its bytes. *)
TxsAt(bytes, payload, txs) ==
  /\ bytes \in Seq(Cells)
  /\ NextBytes(bytes, NextBytes(bytes, View(0, Len(bytes)), 1, NoView), 1, NoView) = payload
  /\ payload \in Views /\ payload.at + payload.size <= Len(bytes)
  /\ \E offsets :
       /\ Laid(bytes, payload.at, Contents(txs), offsets, 1)
       /\ offsets[Len(txs)] <= payload.size
       /\ bytes[payload.at + offsets[Len(txs)] + 1].field # 1

LEMMA SerializeIs ==
  ASSUME NEW txs \in Seq(Txs)
  PROVE  \E payload : TxsAt(Serialize(txs), payload, txs)
<1> DEFINE each == Each(txs, LAMBDA tx : Field(1, SerializeTx(tx)))
           tags == <<Tag(2, 0), Tag(3, 0)>>
           payload == (each \o tags) \o Name(4)
           inner == Field(1, payload) \o Name(2)
           bytes == Serialize(txs)
           after == tags \o Name(4)
<1>1. /\ Contents(txs) \in Seq(Seq(Cells)) /\ Len(Contents(txs)) = Len(txs)
      /\ each = Written(Contents(txs), 1)
  BY ContentsAre
<1>2. each \in Seq(Cells)
  BY <1>1, WrittenIs
<1>3. tags \in Seq(Cells) /\ Len(tags) = 2 /\ tags[1] = Tag(2, 0)
  BY TagsAre
<1>4. /\ Name(4) \in Seq(Cells) /\ Len(Name(4)) = 2
      /\ Name(2) \in Seq(Cells) /\ Len(Name(2)) = 2
  BY NameIs
<1>5. bytes = Field(1, inner)
  BY DEF Serialize
<1> HIDE DEF each, tags, bytes
<1>6. payload = each \o after
  <2> DEFINE S == Cells
             name == Name(4)
  <2>1. each \in Seq(S) /\ tags \in Seq(S) /\ name \in Seq(S)
    BY <1>2, <1>3, <1>4
  <2> HIDE DEF S, name
  <2>2. (each \o tags) \o name = each \o (tags \o name)
    BY <2>1, ConcatAssociative
  <2> QED
    BY <2>2 DEF name
<1>7. after \in Seq(Cells) /\ Len(after) = 4 /\ after[1] = Tag(2, 0)
  <2> DEFINE name == Name(4)
  <2>1. name \in Seq(Cells) /\ Len(name) = 2
    BY <1>4
  <2> HIDE DEF name
  <2>2. /\ tags \o name \in Seq(Cells) /\ Len(tags \o name) = Len(tags) + Len(name)
        /\ \A i \in 1 .. Len(tags) + Len(name) : (tags \o name)[i] =
             IF i <= Len(tags) THEN tags[i] ELSE name[i - Len(tags)]
    BY <1>3, <2>1, ConcatProperties
  <2>3. (tags \o name)[1] = Tag(2, 0) /\ Len(tags \o name) = 4
    BY <1>3, <2>1, <2>2
  <2> QED
    BY <2>2, <2>3 DEF name
<1> HIDE DEF after, payload
<1>8. payload \in Seq(Cells) /\ Len(payload) = Len(each) + Len(after)
  BY <1>2, <1>6, <1>7, ConcatProperties
<1>9. /\ Field(1, payload) \in Seq(Cells) /\ Len(Field(1, payload)) = Len(payload) + 1
  BY <1>8, FieldIs
<1>10. inner \in Seq(Cells) /\ Len(inner) = Len(payload) + 1 + 2
  <2> DEFINE field == Field(1, payload)
             name == Name(2)
  <2>1. field \in Seq(Cells) /\ name \in Seq(Cells)
    BY <1>4, <1>9
  <2> HIDE DEF field, name
  <2>2. field \o name \in Seq(Cells) /\ Len(field \o name) = Len(field) + Len(name)
    BY <2>1, ConcatProperties
  <2> QED
    BY <1>4, <1>9, <2>2 DEF field, name
<1>11. bytes \in Seq(Cells) /\ Len(bytes) = Len(inner) + 1
  <2> HIDE DEF inner
  <2> QED
    BY <1>5, <1>10, FieldIs
<1>12. Len(bytes) \in Nat /\ Len(inner) \in Nat /\ Len(payload) \in Nat /\ Len(each) \in Nat
  BY <1>2, <1>8, <1>10, <1>11
<1>13. Holds(bytes, 0, bytes)
  BY <1>11, HoldsItself
<1>14. /\ NextBytes(bytes, View(0, Len(bytes)), 1, NoView) = View(1, Len(inner))
       /\ Holds(bytes, 1, inner)
  <2> DEFINE field == 1
             at == 0
             size == Len(bytes)
             stale == NoView
  <2>1. /\ Holds(bytes, at, Field(field, inner)) /\ field \in Nat
        /\ inner \in Seq(Cells) /\ Len(bytes) \in Nat
        /\ size \in Nat /\ Len(inner) < size
    BY <1>5, <1>10, <1>11, <1>12, <1>13
  <2> HIDE DEF field, at, size, inner, stale
  <2>2. /\ NextBytes(bytes, View(at, size), field, stale) = View(at + 1, Len(inner))
        /\ Holds(bytes, at + 1, inner)
    BY <2>1, NextFinds
  <2>3. at + 1 = 1
    BY DEF at
  <2> QED
    BY <2>2, <2>3 DEF field, at, size, stale
<1>15. Holds(bytes, 1, Field(1, payload))
  <2> DEFINE field == Field(1, payload)
             name == Name(2)
             at == 1
  <2>1. /\ field \in Seq(Cells) /\ name \in Seq(Cells) /\ Len(bytes) \in Nat
        /\ Holds(bytes, at, field \o name)
    BY <1>4, <1>9, <1>12, <1>14
  <2> HIDE DEF field, name, at
  <2>2. Holds(bytes, at, field)
    BY <2>1, ConcatHeld
  <2> QED
    BY <2>2 DEF field, at
<1>16. /\ NextBytes(bytes, View(1, Len(inner)), 1, NoView) = View(2, Len(payload))
       /\ Holds(bytes, 2, payload)
  <2> DEFINE field == 1
             at == 1
             size == Len(inner)
             stale == NoView
  <2>1. /\ Holds(bytes, at, Field(field, payload)) /\ field \in Nat
        /\ payload \in Seq(Cells) /\ Len(bytes) \in Nat
        /\ size \in Nat /\ Len(payload) < size
    BY <1>8, <1>10, <1>12, <1>15
  <2> HIDE DEF field, at, size, inner, stale
  <2>2. /\ NextBytes(bytes, View(at, size), field, stale) = View(at + 1, Len(payload))
        /\ Holds(bytes, at + 1, payload)
    BY <2>1, NextFinds
  <2>3. at + 1 = 2
    BY DEF at
  <2> QED
    BY <2>2, <2>3 DEF field, at, size, stale
<1> HIDE DEF inner
<1>17. Holds(bytes, 2, each) /\ Holds(bytes, 2 + Len(each), after)
  <2> DEFINE at == 2
  <2>1. Holds(bytes, at, each \o after)
    BY <1>6, <1>16
  <2> HIDE DEF at
  <2>2. Holds(bytes, at, each) /\ Holds(bytes, at + Len(each), after)
    BY <1>2, <1>7, <1>12, <2>1, ConcatHeld
  <2> QED
    BY <2>2 DEF at
<1> DEFINE contents == Contents(txs)
<1>18. PICK offsets : Laid(bytes, 2, contents, offsets, 1) /\ offsets[Len(contents)] = Len(each)
  <2> DEFINE field == 1
             at == 2
  <2>1. /\ contents \in Seq(Seq(Cells)) /\ field \in Nat
        /\ Len(bytes) \in Nat /\ Holds(bytes, at, Written(contents, field))
        /\ Len(each) = Len(Written(contents, field))
    BY <1>1, <1>12, <1>17
  <2> HIDE DEF contents, field, at
  <2>2. \E offsets : /\ Laid(bytes, at, contents, offsets, field)
                     /\ offsets[Len(contents)] = Len(Written(contents, field))
    BY <2>1, WrittenIs
  <2> QED
    BY <2>1, <2>2 DEF field, at
<1>19. bytes[2 + Len(each) + 1].field # 1
  <2>1. 1 \in 1 .. Len(after)
    BY <1>7
  <2>2. bytes[2 + Len(each) + 1] = after[1]
    BY <1>17, <2>1 DEF Holds
  <2>3. Tag(2, 0).field # 1
    BY DEF Tag
  <2> QED
    BY <1>7, <2>2, <2>3
<1> DEFINE view == View(2, Len(payload))
<1>20. view.at = 2 /\ view.size = Len(payload) /\ view \in Views
  BY <1>12 DEF View, Views
<1>21. 2 + Len(payload) <= Len(bytes) /\ Len(each) <= Len(payload)
  BY <1>7, <1>8, <1>10, <1>11, <1>12
<1>22. NextBytes(bytes, NextBytes(bytes, View(0, Len(bytes)), 1, NoView), 1, NoView) = view
  BY <1>14, <1>16
<1> HIDE DEF view
<1>23. TxsAt(bytes, view, txs)
  <2>1. /\ Laid(bytes, view.at, contents, offsets, 1)
        /\ offsets[Len(txs)] <= view.size
        /\ bytes[view.at + offsets[Len(txs)] + 1].field # 1
    BY <1>1, <1>18, <1>19, <1>20, <1>21
  <2>2. view.at + view.size <= Len(bytes)
    BY <1>20, <1>21
  <2> QED
    BY <1>11, <1>20, <1>22, <2>1, <2>2 DEF TxsAt
<1> QED
  BY <1>23 DEF bytes

(* The ranges of so many transactions. *)
RangesAt(bytes, ranges, txs, n) ==
  /\ ranges \in Seq(Views) /\ Len(ranges) = n
  /\ \A k \in 1 .. n : CommandsAt(bytes, ranges[k], txs[k])

LEMMA OneRangeMore ==
  ASSUME NEW bytes, NEW ranges, NEW txs, NEW n \in Nat, RangesAt(bytes, ranges, txs, n),
         NEW range \in Views, CommandsAt(bytes, range, txs[n + 1])
  PROVE  RangesAt(bytes, Append(ranges, range), txs, n + 1)
<1>1. /\ ranges \in Seq(Views) /\ Len(ranges) = n
      /\ \A k \in 1 .. n : CommandsAt(bytes, ranges[k], txs[k])
  BY DEF RangesAt
<1>2. /\ Append(ranges, range) \in Seq(Views) /\ Len(Append(ranges, range)) = n + 1
      /\ Append(ranges, range)[n + 1] = range
      /\ \A k \in 1 .. n : Append(ranges, range)[k] = ranges[k]
  BY <1>1, AppendProperties
<1>3. \A k \in 1 .. n + 1 : k \in 1 .. n \/ k = n + 1
  OBVIOUS
<1>4. \A k \in 1 .. n + 1 : CommandsAt(bytes, Append(ranges, range)[k], txs[k])
  BY <1>1, <1>2, <1>3
<1> QED
  BY <1>2, <1>4 DEF RangesAt

(* getTxCmd remembers for each transaction where its reduced payload is,   *)
(* also when the block is empty.                                           *)
LEMMA GetTxCmdIs ==
  ASSUME NEW txs \in Seq(Txs)
  PROVE  /\ Serialize(txs) \in Seq(Cells)
         /\ RangesAt(Serialize(txs), GetTxCmd(Serialize(txs)), txs, Len(txs))
<1> DEFINE bytes == Serialize(txs)
           n == Len(txs)
           contents == Contents(txs)
           none == [reduced |-> NoView, ranges |-> <<>>]
<1>1. PICK payload : TxsAt(bytes, payload, txs)
  BY SerializeIs
<1> HIDE DEF bytes
<1>2. PICK offsets : /\ Laid(bytes, payload.at, contents, offsets, 1)
                     /\ offsets[n] <= payload.size
                     /\ bytes[payload.at + offsets[n] + 1].field # 1
  BY <1>1 DEF TxsAt
<1>3. /\ bytes \in Seq(Cells) /\ payload \in Views /\ payload.at + payload.size <= Len(bytes)
      /\ NextBytes(bytes, NextBytes(bytes, View(0, Len(bytes)), 1, NoView), 1, NoView) = payload
  BY <1>1 DEF TxsAt
<1>4. /\ contents \in Seq(Seq(Cells)) /\ Len(contents) = n
      /\ \A i \in 1 .. n : txs[i] \in Txs /\ contents[i] = SerializeTx(txs[i])
      /\ n \in Nat
  <2>1. n \in Nat
    OBVIOUS
  <2> HIDE DEF contents, n
  <2>2. /\ contents \in Seq(Seq(Cells)) /\ Len(contents) = n
        /\ \A i \in 1 .. n : txs[i] \in Txs /\ contents[i] = SerializeTx(txs[i])
    BY ContentsAre, Zenon DEF contents, n
  <2> QED
    BY <2>1, <2>2
<1>5. Repeated(bytes, payload, 1) = Ranges(payload.at, contents, offsets)
  <2> DEFINE field == 1
             view == payload
  <2>1. /\ bytes \in Seq(Cells) /\ field \in Nat /\ contents \in Seq(Seq(Cells)) /\ view \in Views
        /\ view.at + view.size <= Len(bytes)
        /\ offsets[Len(contents)] <= view.size
        /\ Laid(bytes, view.at, contents, offsets, field)
        /\ offsets[Len(contents)] < view.size =>
             bytes[view.at + offsets[Len(contents)] + 1].field # field
    BY <1>2, <1>3, <1>4
  <2> HIDE DEF field, view, contents
  <2>2. Repeated(bytes, view, field) = Ranges(view.at, contents, offsets)
    BY <2>1, RepeatedFinds
  <2> QED
    BY <2>2 DEF field, view
<1> DEFINE views == Ranges(payload.at, contents, offsets)
<1>6. /\ DOMAIN views = 1 .. n
      /\ \A i \in 1 .. n : views[i] = View(payload.at + offsets[i - 1] + 1, Len(contents[i]))
  BY <1>4 DEF Ranges
<1>7. ASSUME NEW i \in 1 .. n
      PROVE  Holds(bytes, payload.at + offsets[i - 1] + 1, SerializeTx(txs[i]))
  <2> DEFINE content == contents[i]
             at == payload.at + offsets[i - 1]
             field == 1
  <2>1. Holds(bytes, at, Field(field, content))
    BY <1>2, <1>4 DEF Laid
  <2>2. content \in Seq(Cells) /\ content = SerializeTx(txs[i])
    BY <1>4
  <2>3. Len(bytes) \in Nat /\ field \in Nat
    BY <1>3
  <2> HIDE DEF content, at, field
  <2>4. Holds(bytes, at + 1, content)
    BY <2>1, <2>2, <2>3, FieldHeld
  <2> QED
    BY <2>2, <2>4 DEF at
<1> HIDE DEF views
<1>8. PICK h : FoldRun(FoundKind(bytes), none, views, n, h) /\ FoundInAll(bytes, none, views) = h[n]
  <2> HIDE DEF none, n
  <2> QED
    BY <1>4, <1>6, FoundFold
<1>9. GetTxCmd(bytes) = FoundInAll(bytes, none, views).ranges
  <2> HIDE DEF contents
  <2>1. GetTxCmd(bytes) = FoundInAll(bytes, none, Repeated(bytes, payload, 1)).ranges
    BY <1>3, Zenon DEF GetTxCmd, FoundInAll
  <2> QED
    BY <1>5, <2>1 DEF views
<1>10. /\ h[0] = none
       /\ \A i \in 1 .. n : h[i] = CommandsOf(bytes, h[i - 1], views[i])
  <2>1. \A x, y : FoldStep(FoundKind(bytes), x, y) = CommandsOf(bytes, x, y)
    BY DEF FoldStep, FoundKind
  <2> HIDE DEF none
  <2> QED
    BY <1>8, <2>1 DEF FoldRun
<1> DEFINE T == {i \in Nat : i <= n => RangesAt(bytes, h[i].ranges, txs, i)}
<1>11. 0 \in T
  <2>1. h[0].ranges = <<>> /\ <<>> \in Seq(Views) /\ Len(<<>>) = 0 /\ \A k \in 1 .. 0 : FALSE
    BY <1>10
  <2>2. RangesAt(bytes, h[0].ranges, txs, 0)
    BY <2>1 DEF RangesAt
  <2> QED
    BY <2>2
<1>12. ASSUME NEW m \in Nat, m \in T PROVE m + 1 \in T
  <2> SUFFICES ASSUME m + 1 <= n PROVE RangesAt(bytes, h[m + 1].ranges, txs, m + 1)
    OBVIOUS
  <2> DEFINE i == m + 1
             at == payload.at + offsets[i - 1] + 1
             found == h[i - 1]
             tx == txs[i]
  <2>1. i \in 1 .. n /\ i - 1 = m /\ RangesAt(bytes, h[m].ranges, txs, m)
    BY <1>4, <1>12
  <2> HIDE DEF i
  <2>2. /\ tx \in Txs /\ views[i] = View(at, Len(SerializeTx(tx)))
        /\ Holds(bytes, at, SerializeTx(tx))
    BY <1>4, <1>6, <1>7, <2>1
  <2>3. h[i] = CommandsOf(bytes, found, View(at, Len(SerializeTx(tx))))
    BY <1>10, <2>1, <2>2
  <2>4. found = h[m]
    BY <2>1
  <2> HIDE DEF at, found, tx
  <2>5. PICK range \in Views :
          /\ CommandsOf(bytes, found, View(at, Len(SerializeTx(tx)))).ranges
               = Append(found.ranges, range)
          /\ CommandsAt(bytes, range, tx)
    BY <1>3, <2>2, CommandsOfTx
  <2>6. h[i].ranges = Append(h[m].ranges, range) /\ CommandsAt(bytes, range, txs[m + 1])
    BY <2>3, <2>4, <2>5 DEF tx, i
  <2>7. RangesAt(bytes, Append(h[m].ranges, range), txs, m + 1)
    BY <2>1, <2>6, OneRangeMore
  <2> QED
    BY <2>6, <2>7 DEF i
<1>13. n \in T
  <2> HIDE DEF T
  <2> QED
    BY <1>4, <1>11, <1>12, SetInduction
<1>14. RangesAt(bytes, h[n].ranges, txs, n)
  BY <1>4, <1>13
<1>15. RangesAt(bytes, GetTxCmd(bytes), txs, n)
  BY <1>8, <1>9, <1>14
<1> QED
  BY <1>3, <1>15 DEF bytes

-----------------------------------------------------------------------------
(* What txCmdJson writes.                                                  *)

Text == Commands \cup {Punctuation("["), Punctuation(","), Punctuation("]")}

LEMMA Double ==
  ASSUME NEW S, NEW x \in S, NEW y \in S
  PROVE  <<x, y>> \in Seq(S) /\ Len(<<x, y>>) = 2 /\ <<x, y>>[1] = x /\ <<x, y>>[2] = y
OBVIOUS

(* A text of so many commands, with a comma behind each. *)
Listed(text, cmds, m) ==
  /\ text \in Seq(Text) /\ Len(text) = 2 * m + 1
  /\ text[1] = Punctuation("[")
  /\ \A k \in 1 .. m : text[2 * k] = cmds[k] /\ text[2 * k + 1] = Punctuation(",")

LEMMA OneListedMore ==
  ASSUME NEW text, NEW cmds, NEW m \in Nat, Listed(text, cmds, m), cmds[m + 1] \in Commands
  PROVE  Listed(text \o <<cmds[m + 1], Punctuation(",")>>, cmds, m + 1)
<1> DEFINE x == cmds[m + 1]
           comma == Punctuation(",")
           open == Punctuation("[")
           more == <<x, comma>>
<1>1. x \in Text /\ comma \in Text
  BY DEF Text
<1>2. /\ text \in Seq(Text) /\ Len(text) = 2 * m + 1 /\ text[1] = open
      /\ \A k \in 1 .. m : text[2 * k] = cmds[k] /\ text[2 * k + 1] = comma
  BY DEF Listed
<1> HIDE DEF comma, open
<1>3. more \in Seq(Text) /\ Len(more) = 2 /\ more[1] = x /\ more[2] = comma
  BY <1>1, Double
<1> HIDE DEF more
<1> DEFINE whole == text \o more
<1>4. /\ whole \in Seq(Text) /\ Len(whole) = (2 * m + 1) + 2
      /\ \A i \in 1 .. (2 * m + 1) + 2 :
           whole[i] = IF i <= 2 * m + 1 THEN text[i] ELSE more[i - (2 * m + 1)]
  <2> DEFINE len == 2 * m + 1
  <2>1. Len(text) = len /\ Len(more) = 2 /\ text \in Seq(Text) /\ more \in Seq(Text)
    BY <1>2, <1>3
  <2> HIDE DEF len
  <2>2. /\ whole \in Seq(Text) /\ Len(whole) = Len(text) + Len(more)
        /\ \A i \in 1 .. Len(text) + Len(more) :
             whole[i] = IF i <= Len(text) THEN text[i] ELSE more[i - Len(text)]
    BY <2>1, ConcatProperties
  <2>3. /\ whole \in Seq(Text) /\ Len(whole) = len + 2
        /\ \A i \in 1 .. len + 2 :
             whole[i] = IF i <= len THEN text[i] ELSE more[i - len]
    BY <2>1, <2>2
  <2> QED
    BY <2>3 DEF len
<1> HIDE DEF whole
<1>5. Len(whole) = 2 * (m + 1) + 1 /\ whole[1] = open
  BY <1>2, <1>4
<1>6. ASSUME NEW k \in 1 .. m + 1
      PROVE  whole[2 * k] = cmds[k] /\ whole[2 * k + 1] = comma
  <2>1. CASE k \in 1 .. m
    <3>1. /\ 2 * k \in 1 .. (2 * m + 1) + 2 /\ 2 * k <= 2 * m + 1
          /\ 2 * k + 1 \in 1 .. (2 * m + 1) + 2 /\ 2 * k + 1 <= 2 * m + 1
      BY <2>1
    <3>2. whole[2 * k] = text[2 * k] /\ whole[2 * k + 1] = text[2 * k + 1]
      BY <1>4, <3>1
    <3> QED
      BY <1>2, <2>1, <3>2
  <2>2. CASE k = m + 1
    <3>1. /\ 2 * k \in 1 .. (2 * m + 1) + 2 /\ ~(2 * k <= 2 * m + 1)
          /\ 2 * k + 1 \in 1 .. (2 * m + 1) + 2 /\ ~(2 * k + 1 <= 2 * m + 1)
          /\ 2 * k - (2 * m + 1) = 1 /\ (2 * k + 1) - (2 * m + 1) = 2
      BY <2>2
    <3>2. whole[2 * k] = more[1] /\ whole[2 * k + 1] = more[2]
      BY <1>4, <3>1
    <3> QED
      BY <1>3, <2>2, <3>2
  <2> QED
    BY <2>1, <2>2
<1>7. whole \in Seq(Text)
  BY <1>4
<1> QED
  BY <1>5, <1>6, <1>7 DEF Listed, whole, more, comma, open

(* The text with the closing bracket in the place of the last comma. *)
LEMMA ClosedIs ==
  ASSUME NEW text, NEW cmds, NEW n \in Nat, n # 0, Listed(text, cmds, n)
  PROVE  LET closed == Append(Front(text), Punctuation("]"))
         IN /\ closed \in Seq(Text) /\ Len(closed) = 2 * n + 1
            /\ closed[1] = Punctuation("[")
            /\ \A k \in 1 .. n :
                 /\ closed[2 * k] = cmds[k]
                 /\ closed[2 * k + 1] = Punctuation(IF k = n THEN "]" ELSE ",")
<1> DEFINE close == Punctuation("]")
           front == Front(text)
           closed == Append(front, close)
<1>1. /\ text \in Seq(Text) /\ Len(text) = 2 * n + 1 /\ text[1] = Punctuation("[")
      /\ \A k \in 1 .. n : text[2 * k] = cmds[k] /\ text[2 * k + 1] = Punctuation(",")
  BY DEF Listed
<1>2. front = SubSeq(text, 1, 2 * n)
  <2>1. front = SubSeq(text, 1, Len(text) - 1)
    BY DEF Front
  <2>2. (2 * n + 1) - 1 = 2 * n
    OBVIOUS
  <2> QED
    BY <1>1, <2>1, <2>2, Zenon
<1>3. /\ front \in Seq(Text) /\ Len(front) = 2 * n
      /\ \A i \in 1 .. 2 * n : front[i] = text[i]
  <2> DEFINE to == 2 * n
             one == 1
  <2>1. to \in Nat /\ one \in 1 .. to + 1 /\ to \in one .. to + 1 /\ to - one + 1 = to
    OBVIOUS
  <2>2. Len(text) = to + 1 /\ text \in Seq(Text)
    BY <1>1
  <2>3. \A i \in 1 .. to : one + i - 1 = i
    OBVIOUS
  <2>4. front = SubSeq(text, one, to)
    BY <1>2
  <2> HIDE DEF front, to, one
  <2>5. one \in 1 .. Len(text) /\ to \in one .. Len(text)
    BY <2>1, <2>2
  <2>6. /\ front \in Seq(Text) /\ Len(front) = to - one + 1
        /\ \A i \in 1 .. to - one + 1 : front[i] = text[one + i - 1]
    BY <2>2, <2>4, <2>5, SubSeqProperties
  <2>7. front \in Seq(Text) /\ Len(front) = to /\ \A i \in 1 .. to : front[i] = text[i]
    BY <2>1, <2>3, <2>6
  <2> QED
    BY <2>7 DEF to
<1>4. close \in Text
  BY DEF Text
<1> HIDE DEF front, close
<1>5. /\ closed \in Seq(Text) /\ Len(closed) = 2 * n + 1
      /\ closed[2 * n + 1] = close
      /\ \A i \in 1 .. 2 * n : closed[i] = front[i]
  BY <1>3, <1>4, AppendProperties
<1> HIDE DEF closed
<1>6. closed[1] = Punctuation("[")
  <2>1. 1 \in 1 .. 2 * n
    OBVIOUS
  <2> QED
    BY <1>1, <1>3, <1>5, <2>1, Zenon
<1>7. ASSUME NEW k \in 1 .. n
      PROVE  /\ closed[2 * k] = cmds[k]
             /\ closed[2 * k + 1] = Punctuation(IF k = n THEN "]" ELSE ",")
  <2>1. closed[2 * k] = cmds[k]
    <3>1. 2 * k \in 1 .. 2 * n
      OBVIOUS
    <3> QED
      BY <1>1, <1>3, <1>5, <3>1
  <2>2. CASE k = n
    BY <1>5, <2>1, <2>2 DEF close
  <2>3. CASE k # n
    <3>1. 2 * k + 1 \in 1 .. 2 * n
      BY <2>3
    <3> QED
      BY <1>1, <1>3, <1>5, <2>1, <2>3, <3>1
  <2> QED
    BY <2>2, <2>3
<1> QED
  BY <1>5, <1>6, <1>7 DEF closed, close, front

(* And the JSON array. *)
LEMMA JsonArrayIs ==
  ASSUME NEW cmds \in Seq(Commands), NEW n, n = Len(cmds)
  PROVE  /\ JsonArray(cmds) \in Seq(Text) /\ Len(JsonArray(cmds)) = 2 * n + 1
         /\ JsonArray(cmds)[1] = Punctuation("[")
         /\ \A k \in 1 .. n :
              /\ JsonArray(cmds)[2 * k] = cmds[k]
              /\ JsonArray(cmds)[2 * k + 1] = Punctuation(IF k = n THEN "]" ELSE ",")
<1> DEFINE Mark(i) == Punctuation(IF i = Len(cmds) THEN "]" ELSE ",")
           parts == [i \in DOMAIN cmds |-> <<cmds[i], Mark(i)>>]
           open == Punctuation("[")
           flat == FlattenSeq(parts)
           json == <<open>> \o flat
<1>1. JsonArray(cmds) = json
  BY DEF JsonArray
<1>2. n \in Nat /\ DOMAIN cmds = 1 .. n /\ \A i \in 1 .. n : cmds[i] \in Commands
  OBVIOUS
<1>3. ASSUME NEW i \in 1 .. n
      PROVE  /\ parts[i] \in Seq(Text) /\ Len(parts[i]) = 2
             /\ parts[i][1] = cmds[i] /\ parts[i][2] = Mark(i)
  <2>1. cmds[i] \in Text /\ Mark(i) \in Text
    BY <1>2 DEF Text
  <2>2. parts[i] = <<cmds[i], Mark(i)>>
    BY <1>2
  <2> HIDE DEF Mark, parts
  <2> QED
    BY <2>1, <2>2, Double
<1>4. parts \in Seq(Seq(Text)) /\ Len(parts) = n
  <2> DEFINE S == Seq(Text)
  <2>1. parts = [i \in 1 .. n |-> parts[i]]
    BY <1>2
  <2> HIDE DEF parts, S
  <2>2. parts \in [1 .. n -> S]
    BY <1>3, <2>1 DEF S
  <2>3. parts \in Seq(S) /\ Len(parts) = n
    BY <1>2, <2>2
  <2> QED
    BY <2>3 DEF S
<1> HIDE DEF parts
<1>5. PICK at : Parted(flat, at, parts, Text)
  BY <1>4, FlattenIs
<1>6. /\ flat \in Seq(Text) /\ Len(flat) = at[n] /\ at[0] = 0
      /\ \A i \in 1 .. n : at[i] = at[i - 1] + 2
      /\ \A i \in 1 .. n : Holds(flat, at[i - 1], parts[i])
  BY <1>3, <1>4, <1>5 DEF Parted, Starting
<1> HIDE DEF flat, Mark
<1> DEFINE T == {i \in Nat : i <= n => at[i] = 2 * i}
<1>7. \A i \in 0 .. n : at[i] = 2 * i
  <2>1. 0 \in T
    BY <1>6
  <2>2. ASSUME NEW m \in Nat, m \in T PROVE m + 1 \in T
    <3> SUFFICES ASSUME m + 1 <= n PROVE at[m + 1] = 2 * (m + 1)
      OBVIOUS
    <3>1. m + 1 \in 1 .. n /\ (m + 1) - 1 = m /\ at[m] = 2 * m
      BY <1>2, <2>2
    <3> QED
      BY <1>6, <3>1
  <2>3. \A i \in Nat : i \in T
    <3> HIDE DEF T
    <3> QED
      BY <2>1, <2>2, SetInduction
  <2> QED
    BY <1>2, <2>3
<1>8. ASSUME NEW k \in 1 .. n
      PROVE  flat[2 * k - 1] = cmds[k] /\ flat[2 * k] = Mark(k)
  <2>1. k - 1 \in 0 .. n /\ at[k - 1] = 2 * (k - 1)
    BY <1>2, <1>7
  <2>2. \A j \in 1 .. 2 : flat[at[k - 1] + j] = parts[k][j]
    BY <1>3, <1>6 DEF Holds
  <2>3. 1 \in 1 .. 2 /\ 2 \in 1 .. 2 /\ 2 * (k - 1) + 1 = 2 * k - 1 /\ 2 * (k - 1) + 2 = 2 * k
    OBVIOUS
  <2> QED
    BY <1>3, <2>1, <2>2, <2>3
<1>9. open \in Text
  BY DEF Text
<1> HIDE DEF open
<1>10. <<open>> \in Seq(Text) /\ Len(<<open>>) = 1 /\ <<open>>[1] = open
  BY <1>9, Single
<1>11. Len(flat) = 2 * n
  BY <1>2, <1>6, <1>7
<1>12. /\ json \in Seq(Text) /\ Len(json) = 1 + 2 * n
       /\ \A i \in 1 .. 1 + 2 * n : json[i] = IF i <= 1 THEN <<open>>[i] ELSE flat[i - 1]
  BY <1>6, <1>10, <1>11, ConcatProperties
<1> HIDE DEF json
<1>13. Len(json) = 2 * n + 1 /\ json[1] = open
  BY <1>2, <1>10, <1>12
<1>14. ASSUME NEW k \in 1 .. n
       PROVE  json[2 * k] = cmds[k] /\ json[2 * k + 1] = Mark(k)
  <2>1. /\ 2 * k \in 1 .. 1 + 2 * n /\ ~(2 * k <= 1)
        /\ 2 * k + 1 \in 1 .. 1 + 2 * n /\ ~(2 * k + 1 <= 1) /\ (2 * k + 1) - 1 = 2 * k
    BY <1>2
  <2>2. json[2 * k] = flat[2 * k - 1] /\ json[2 * k + 1] = flat[2 * k]
    BY <1>12, <2>1
  <2> QED
    BY <1>8, <2>2
<1>15. \A k \in 1 .. n : Mark(k) = Punctuation(IF k = n THEN "]" ELSE ",")
  BY DEF Mark
<1> QED
  BY <1>1, <1>12, <1>13, <1>14, <1>15 DEF open

(* Two such texts are the same. *)
LEMMA SameText ==
  ASSUME NEW a \in Seq(Text), NEW b \in Seq(Text), NEW n \in Nat,
         Len(a) = 2 * n + 1, Len(b) = 2 * n + 1, a[1] = b[1],
         \A k \in 1 .. n : a[2 * k] = b[2 * k] /\ a[2 * k + 1] = b[2 * k + 1]
  PROVE  a = b
<1>1. ASSUME NEW i \in 1 .. 2 * n + 1 PROVE a[i] = b[i]
  <2>1. \/ i = 1
        \/ \E k \in 1 .. n : i = 2 * k \/ i = 2 * k + 1
    <3>1. i = 2 * (i \div 2) \/ i = 2 * (i \div 2) + 1
      OBVIOUS
    <3>2. i # 1 => i \div 2 \in 1 .. n
      OBVIOUS
    <3> QED
      BY <3>1, <3>2
  <2> QED
    BY <2>1
<1> QED
  BY <1>1, SeqEqual

(* At such a range txCmdJson finds the commands of the transaction. *)
LEMMA CommandsFound ==
  ASSUME NEW bytes \in Seq(Cells), NEW tx \in Txs, NEW range, CommandsAt(bytes, range, tx)
  PROVE  \E views :
           /\ Repeated(bytes, range, 1) = views /\ DOMAIN views = 1 .. Len(tx.cmds)
           /\ \A i \in 1 .. Len(tx.cmds) : ParseCommand(bytes, views[i]) = tx.cmds[i]
<1> DEFINE cmds == tx.cmds
           n == Len(cmds)
           leaves == Leaves(cmds)
           written == Written(leaves, 1)
           after == AfterCommands(tx)
           part == Reduced(tx)
<1>1. PICK at : range = View(at, Len(part)) /\ Holds(bytes, at, part)
  BY DEF CommandsAt
<1>2. cmds \in Seq(Commands)
  BY ReducedIs
<1>3. part = written \o after
  BY DEF Reduced
<1>4. after \in Seq(Cells) /\ Len(after) >= 1 /\ after[1].field # 1
  BY AfterCommandsIs
<1> HIDE DEF cmds, after, part
<1>5. /\ leaves \in Seq(Seq(Cells)) /\ Len(leaves) = n /\ n \in Nat
      /\ \A i \in 1 .. n : leaves[i] = <<Leaf(cmds[i])>> /\ Len(leaves[i]) = 1
  <2>1. n \in Nat
    BY <1>2
  <2> QED
    BY <1>2, <2>1, LeavesAre
<1> HIDE DEF leaves, n
<1>6. /\ written \in Seq(Cells)
      /\ \A b, p : Len(b) \in Nat /\ Holds(b, p, written) =>
           \E offsets : Laid(b, p, leaves, offsets, 1) /\ offsets[Len(leaves)] = Len(written)
  <2> DEFINE field == 1
  <2>1. field \in Nat
    OBVIOUS
  <2> HIDE DEF field
  <2>2. /\ Written(leaves, field) \in Seq(Cells)
        /\ \A b, p : Len(b) \in Nat /\ Holds(b, p, Written(leaves, field)) =>
             \E offsets : /\ Laid(b, p, leaves, offsets, field)
                          /\ offsets[Len(leaves)] = Len(Written(leaves, field))
    BY <1>5, <2>1, WrittenIs
  <2> QED
    BY <2>2 DEF field
<1> HIDE DEF written
<1>7. /\ Len(bytes) \in Nat /\ Len(written) \in Nat /\ Len(after) \in Nat
      /\ Len(part) = Len(written) + Len(after)
  <2>1. Len(written \o after) = Len(written) + Len(after)
    BY <1>4, <1>6, ConcatProperties
  <2>2. Len(bytes) \in Nat /\ Len(written) \in Nat /\ Len(after) \in Nat
    BY <1>4, <1>6
  <2> QED
    BY <1>3, <2>1, <2>2
<1>8. Holds(bytes, at, written) /\ Holds(bytes, at + Len(written), after)
  BY <1>1, <1>3, <1>4, <1>6, <1>7, ConcatHeld
<1>9. PICK offsets : Laid(bytes, at, leaves, offsets, 1) /\ offsets[Len(leaves)] = Len(written)
  BY <1>6, <1>7, <1>8
<1>10. /\ at \in Nat /\ at + Len(part) <= Len(bytes)
       /\ bytes[at + Len(written) + 1].field # 1
  <2>1. at \in Nat /\ at + Len(part) <= Len(bytes)
    BY <1>1 DEF Holds
  <2>2. 1 \in 1 .. Len(after)
    BY <1>4, <1>7
  <2>3. bytes[at + Len(written) + 1] = after[1]
    BY <1>8, <2>2 DEF Holds
  <2> QED
    BY <1>4, <2>1, <2>3
<1>11. /\ range \in Views /\ range.at = at /\ range.size = Len(part)
  BY <1>1, <1>7, <1>10 DEF View, Views
<1>12. Repeated(bytes, range, 1) = Ranges(at, leaves, offsets)
  <2> DEFINE field == 1
  <2>1. /\ bytes \in Seq(Cells) /\ field \in Nat /\ leaves \in Seq(Seq(Cells)) /\ range \in Views
        /\ range.at + range.size <= Len(bytes)
        /\ offsets[Len(leaves)] <= range.size
        /\ Laid(bytes, range.at, leaves, offsets, field)
        /\ offsets[Len(leaves)] < range.size =>
             bytes[range.at + offsets[Len(leaves)] + 1].field # field
    BY <1>5, <1>7, <1>9, <1>10, <1>11
  <2> HIDE DEF field
  <2>2. Repeated(bytes, range, field) = Ranges(range.at, leaves, offsets)
    BY <2>1, RepeatedFinds
  <2> QED
    BY <1>11, <2>2 DEF field
<1> DEFINE views == Ranges(at, leaves, offsets)
<1>13. /\ DOMAIN views = 1 .. n
       /\ \A i \in 1 .. n : views[i] = View(at + offsets[i - 1] + 1, Len(leaves[i]))
  BY <1>5 DEF Ranges
<1>14. ASSUME NEW i \in 1 .. n PROVE ParseCommand(bytes, views[i]) = cmds[i]
  <2> DEFINE content == leaves[i]
             p == at + offsets[i - 1]
             field == 1
  <2>1. Holds(bytes, p, Field(field, content))
    BY <1>5, <1>9 DEF Laid
  <2>2. content \in Seq(Cells) /\ content = <<Leaf(cmds[i])>> /\ Len(content) = 1
    BY <1>5
  <2>3. field \in Nat
    OBVIOUS
  <2> HIDE DEF content, p, field
  <2>4. Holds(bytes, p + 1, content)
    BY <1>7, <2>1, <2>2, <2>3, FieldHeld
  <2>5. 1 \in 1 .. Len(content)
    BY <2>2
  <2>6. bytes[p + 1 + 1] = content[1]
    BY <2>4, <2>5 DEF Holds
  <2>7. cmds[i] \in Commands
    BY <1>2 DEF n
  <2>8. content[1] = Leaf(cmds[i]) /\ Leaf(cmds[i]).cmd = cmds[i]
    <3> DEFINE leaf == Leaf(cmds[i])
    <3>1. leaf.cmd = cmds[i]
      BY <2>7, LeafIs
    <3> HIDE DEF leaf
    <3>2. content = <<leaf>>
      BY <2>2 DEF leaf
    <3>3. content[1] = leaf
      BY <3>2
    <3> QED
      BY <3>1, <3>3 DEF leaf
  <2>9. views[i].at = p + 1
    BY <1>13, ViewIs DEF p
  <2> HIDE DEF views
  <2> QED
    BY <2>6, <2>8, <2>9 DEF ParseCommand
<1> QED
  BY <1>12, <1>13, <1>14 DEF n, cmds

(* txCmdJson reads the commands of a transaction back. *)
LEMMA TxCmdJsonIs ==
  ASSUME NEW bytes \in Seq(Cells), NEW tx \in Txs, NEW range, CommandsAt(bytes, range, tx),
         tx.cmds # <<>>
  PROVE  TxCmdJson(bytes, range) = JsonArray(tx.cmds)
<1> DEFINE cmds == tx.cmds
           n == Len(cmds)
           open == <<Punctuation("[")>>
<1>1. cmds \in Seq(Commands)
  BY ReducedIs
<1>2. PICK views : /\ Repeated(bytes, range, 1) = views /\ DOMAIN views = 1 .. n
                   /\ \A i \in 1 .. n : ParseCommand(bytes, views[i]) = cmds[i]
  BY CommandsFound
<1> HIDE DEF cmds
<1>3. n \in Nat /\ n # 0 /\ \A i \in 1 .. n : cmds[i] \in Commands
  <2>1. cmds # <<>>
    BY DEF cmds
  <2> QED
    BY <1>1, <2>1
<1> HIDE DEF n
<1>4. PICK h : FoldRun(TextKind(bytes), open, views, n, h) /\ TextOfAll(bytes, open, views) = h[n]
  <2> HIDE DEF open
  <2> QED
    BY <1>2, <1>3, TextFold
<1>5. TxCmdJson(bytes, range) = Append(Front(TextOfAll(bytes, open, views)), Punctuation("]"))
  <2>1. TxCmdJson(bytes, range)
          = Append(Front(TextOfAll(bytes, open, Repeated(bytes, range, 1))), Punctuation("]"))
    BY Zenon DEF TxCmdJson, TextOfAll
  <2> QED
    BY <1>2, <2>1
<1>6. /\ h[0] = open
      /\ \A i \in 1 .. n :
           h[i] = h[i - 1] \o <<ParseCommand(bytes, views[i]), Punctuation(",")>>
  <2>1. \A x, y : FoldStep(TextKind(bytes), x, y)
                    = x \o <<ParseCommand(bytes, y), Punctuation(",")>>
    BY DEF FoldStep, TextKind
  <2> HIDE DEF open
  <2> QED
    BY <1>4, <2>1 DEF FoldRun
<1> DEFINE T == {i \in Nat : i <= n => Listed(h[i], cmds, i)}
<1>7. 0 \in T
  <2> DEFINE mark == Punctuation("[")
  <2>1. mark \in Text
    BY DEF Text
  <2> HIDE DEF mark
  <2>2. <<mark>> \in Seq(Text) /\ Len(<<mark>>) = 1 /\ <<mark>>[1] = mark
    BY <2>1, Single
  <2>3. 2 * 0 + 1 = 1 /\ \A k \in 1 .. 0 : FALSE
    OBVIOUS
  <2>4. h[0] = <<mark>>
    BY <1>6, Zenon DEF mark
  <2>5. Listed(h[0], cmds, 0)
    BY <2>2, <2>3, <2>4 DEF Listed, mark
  <2> QED
    BY <2>5
<1>8. ASSUME NEW m \in Nat, m \in T PROVE m + 1 \in T
  <2> SUFFICES ASSUME m + 1 <= n PROVE Listed(h[m + 1], cmds, m + 1)
    OBVIOUS
  <2>1. m + 1 \in 1 .. n /\ (m + 1) - 1 = m /\ Listed(h[m], cmds, m)
    BY <1>3, <1>8
  <2>2. h[m + 1] = h[m] \o <<cmds[m + 1], Punctuation(",")>>
    BY <1>2, <1>6, <2>1
  <2>3. cmds[m + 1] \in Commands
    BY <1>3, <2>1
  <2> QED
    BY <2>1, <2>2, <2>3, OneListedMore
<1>9. n \in T
  <2> HIDE DEF T
  <2> QED
    BY <1>3, <1>7, <1>8, SetInduction
<1>10. Listed(h[n], cmds, n)
  BY <1>3, <1>9
<1> DEFINE closed == Append(Front(h[n]), Punctuation("]"))
           json == JsonArray(cmds)
<1>11. /\ closed \in Seq(Text) /\ Len(closed) = 2 * n + 1
       /\ closed[1] = Punctuation("[")
       /\ \A k \in 1 .. n :
            /\ closed[2 * k] = cmds[k]
            /\ closed[2 * k + 1] = Punctuation(IF k = n THEN "]" ELSE ",")
  BY <1>3, <1>10, ClosedIs
<1>12. /\ json \in Seq(Text) /\ Len(json) = 2 * n + 1
       /\ json[1] = Punctuation("[")
       /\ \A k \in 1 .. n :
            /\ json[2 * k] = cmds[k]
            /\ json[2 * k + 1] = Punctuation(IF k = n THEN "]" ELSE ",")
  BY <1>1, JsonArrayIs DEF n
<1>13. TxCmdJson(bytes, range) = closed
  BY <1>4, <1>5
<1> HIDE DEF closed, json
<1>14. closed = json
  <2>1. closed[1] = json[1]
    BY <1>11, <1>12, Zenon
  <2>2. \A k \in 1 .. n : closed[2 * k] = json[2 * k] /\ closed[2 * k + 1] = json[2 * k + 1]
    BY <1>11, <1>12, Zenon
  <2>3. /\ closed \in Seq(Text) /\ json \in Seq(Text)
        /\ Len(closed) = 2 * n + 1 /\ Len(json) = 2 * n + 1
    BY <1>11, <1>12, Zenon
  <2> QED
    BY <1>3, <2>1, <2>2, <2>3, SameText
<1> QED
  BY <1>13, <1>14 DEF json, cmds

(* Whatever transactions a block has, txCmdJson reads the commands of each *)
(* of them back from the range that getTxCmd found in the block's bytes.   *)
THEOREM CommandsReadBack ==
  ASSUME NEW txs \in Seq(Txs), NEW k \in 1 .. Len(txs), txs[k].cmds # <<>>
  PROVE  TxCmdJson(Serialize(txs), GetTxCmd(Serialize(txs))[k]) = JsonArray(txs[k].cmds)
<1> DEFINE bytes == Serialize(txs)
           range == GetTxCmd(bytes)[k]
           tx == txs[k]
<1>1. bytes \in Seq(Cells) /\ RangesAt(bytes, GetTxCmd(bytes), txs, Len(txs))
  BY GetTxCmdIs
<1>2. CommandsAt(bytes, range, tx)
  BY <1>1 DEF RangesAt
<1>3. tx \in Txs /\ tx.cmds # <<>>
  OBVIOUS
<1> HIDE DEF bytes, range, tx
<1>4. TxCmdJson(bytes, range) = JsonArray(tx.cmds)
  BY <1>1, <1>2, <1>3, TxCmdJsonIs
<1> QED
  BY <1>4 DEF bytes, range, tx
=============================================================================

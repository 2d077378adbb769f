------------------------ MODULE DeploymentQueueProofs ------------------------
(***************************************************************************)
(* Theorems about DeploymentQueue, for every number of processes and       *)
(* calls, every limit and every length of the window.                      *)
(*                                                                         *)
(* The slots in the file are the last slots granted.  A slot's true time   *)
(* is at most what the clock has been set back later than the time the     *)
(* file has of it, so a slot that the file has dropped is outside every    *)
(* window of true time that is still to come.  What the file counts is     *)
(* therefore never less than what a window holds.                          *)
(***************************************************************************)
EXTENDS DeploymentQueue, FiniteLemmas, TLAPS

Slots == [time : Int, tokens : Nat]
WorkerRows == [pc : {"new", "refused", "waiting", "locking", "granted", "censored",
                     "stopped", "raised", "dead"},
               tokens : Nat, deadline : Nat]

TypeOK ==
    /\ clock \in Nat /\ back \in Nat
    /\ file \in [whole : BOOLEAN, reservations : Seq(Slots), notBefore : Nat]
    /\ worker \in [Workers -> WorkerRows]
    /\ granted \in Seq(Slots)
    /\ announced \in Nat

\* A request that waits fits into a window.
RequestsFit ==
    \A w \in Workers : worker[w].pc \in {"waiting", "locking"} => worker[w].tokens <= Tpm

\* The file has the granted slots after the first k, each with a time that
\* the clock showed and that it may have been set back from since.
Remembered(k) ==
    /\ Len(granted) = k + Len(file.reservations)
    /\ \A i \in 1 .. Len(file.reservations) :
          /\ granted[k + i].tokens = file.reservations[i].tokens
          /\ granted[k + i].time <= file.reservations[i].time + back
    /\ \A j \in 1 .. k : granted[j].time <= clock + back - Window

FileIsTail == \E k \in 0 .. Len(granted) : Remembered(k)

IInv ==
    /\ TypeOK
    /\ RequestsFit
    /\ FileIsTail
    /\ WindowRespected
    /\ announced = file.notBefore

-----------------------------------------------------------------------------
(* Lemmas about the operators of the model                                 *)

\* The number of expired slots is itself expired, and it is the largest.
LEMMA ExpiredIsLargest ==
    ASSUME TypeOK, NEW time \in Int
    PROVE  /\ Expired(time) \in 0 .. Len(file.reservations)
           /\ \A i \in 1 .. Expired(time) : file.reservations[i].time <= time
           /\ Expired(time) < Len(file.reservations)
                 => file.reservations[Expired(time) + 1].time > time
<1> DEFINE slots == file.reservations
           n == Len(slots)
           S == {m \in 0 .. n : \A i \in 1 .. m : slots[i].time <= time}
<1>1. slots \in Seq(Slots) /\ n \in Nat
  BY DEF TypeOK
<1>2. 0 \in S /\ S \subseteq 0 .. n
  BY <1>1
<1>3. Expired(time) = Max(S)
  BY DEF Expired
<1>4. Max(S) \in S /\ \A m \in S : m <= Max(S)
  <2> HIDE DEF S, n
  <2> QED
    BY <1>1, <1>2, GreatestOf
<1>5. Expired(time) \in S /\ \A m \in S : m <= Expired(time)
  BY <1>3, <1>4
<1>6. ASSUME Expired(time) < n
      PROVE  slots[Expired(time) + 1].time > time
  <2> DEFINE e == Expired(time)
  <2>1. e \in Nat /\ e + 1 \in 0 .. n /\ e + 1 \notin S
    BY <1>1, <1>5, <1>6
  <2>2. PICK i \in 1 .. e + 1 : ~(slots[i].time <= time)
    BY <2>1
  <2>3. i = e + 1
    BY <1>5, <2>1, <2>2
  <2>4. slots[i].time \in Int
    <3>1. slots[i] \in Slots
      BY <1>1, <2>1, <2>3
    <3> QED
      BY <3>1 DEF Slots
  <2> QED
    BY <2>2, <2>3, <2>4
<1> QED
  BY <1>5, <1>6

\* The sum of a sequence's tokens is a natural number.
LEMMA TokensType ==
    ASSUME NEW slots \in Seq(Slots), NEW S, S \subseteq DOMAIN slots
    PROVE  /\ IsFiniteSet(S)
           /\ \A x \in DOMAIN slots : TokensOf(slots)[x] = slots[x].tokens /\ slots[x].tokens \in Nat
           /\ SumOver(S, TokensOf(slots)) = Total(TokensOf(slots), S)
           /\ SumOver(S, TokensOf(slots)) \in Nat
<1>1. DOMAIN slots = 1 .. Len(slots) /\ Len(slots) \in Nat
  OBVIOUS
<1>2. IsFiniteSet(1 .. Len(slots))
  BY <1>1, FS_Interval
<1>3. IsFiniteSet(S)
  BY <1>1, <1>2, FS_Subset
<1>4. \A x \in DOMAIN slots : TokensOf(slots)[x] = slots[x].tokens /\ slots[x].tokens \in Nat
  <2>1. \A x \in DOMAIN slots : slots[x] \in Slots
    OBVIOUS
  <2> QED
    BY <2>1 DEF TokensOf, Slots
<1>5. SumOver(S, TokensOf(slots)) = Total(TokensOf(slots), S)
  BY DEF SumOver, Total
<1>6. \A x \in S : TokensOf(slots)[x] \in Nat
  BY <1>4
<1> QED
  BY <1>3, <1>4, <1>5, <1>6, TotalType

\* The sum depends on the tokens of the slots alone, wherever they stand.
LEMMA TokensShift ==
    ASSUME NEW a \in Seq(Slots), NEW b \in Seq(Slots), NEW k \in Nat, Len(a) = k + Len(b),
           \A i \in 1 .. Len(b) : a[k + i].tokens = b[i].tokens
    PROVE  SumOver((k + 1) .. Len(a), TokensOf(a)) = Tokens(b)
<1> DEFINE p == [i \in 1 .. Len(b) |-> k + i]
<1>1. DOMAIN b = 1 .. Len(b) /\ Len(b) \in Nat /\ Len(a) \in Nat /\ DOMAIN a = 1 .. Len(a)
  OBVIOUS
<1>2. {p[i] : i \in DOMAIN b} = (k + 1) .. Len(a)
  <2>1. \A j \in (k + 1) .. Len(a) : j - k \in DOMAIN b /\ p[j - k] = j
    BY <1>1
  <2>2. \A i \in DOMAIN b : p[i] \in (k + 1) .. Len(a)
    BY <1>1
  <2> HIDE DEF p
  <2> QED
    BY <2>1, <2>2
<1>3. IsFiniteSet(DOMAIN b) /\ Tokens(b) = Total(TokensOf(b), DOMAIN b)
  BY TokensType DEF Tokens
<1>4. SumOver((k + 1) .. Len(a), TokensOf(a)) = Total(TokensOf(a), (k + 1) .. Len(a))
  <2>1. (k + 1) .. Len(a) \subseteq DOMAIN a
    BY <1>1
  <2> QED
    BY <2>1, TokensType
<1>5. \A i \in DOMAIN b : TokensOf(b)[i] \in Nat /\ TokensOf(a)[p[i]] = TokensOf(b)[i]
  <2>1. \A i \in DOMAIN b : TokensOf(b)[i] = b[i].tokens /\ b[i].tokens \in Nat
    BY TokensType
  <2>2. \A i \in DOMAIN a : TokensOf(a)[i] = a[i].tokens
    BY TokensType
  <2> QED
    BY <1>1, <2>1, <2>2
<1>6. \A i, j \in DOMAIN b : p[i] = p[j] => i = j
  BY <1>1
<1> DEFINE f == TokensOf(a)
           g == TokensOf(b)
           S == DOMAIN b
<1>7. Total(f, {p[i] : i \in S}) = Total(g, S)
  <2>1. IsFiniteSet(S) /\ (\A x \in S : g[x] \in Nat /\ f[p[x]] = g[x])
        /\ (\A x, y \in S : p[x] = p[y] => x = y)
    BY <1>3, <1>5, <1>6
  <2> HIDE DEF p, f, g, S
  <2> QED
    BY <2>1, TotalRenamed
<1> HIDE DEF p
<1> QED
  BY <1>2, <1>3, <1>4, <1>7

\* One more slot adds its tokens.
LEMMA TokensAppend ==
    ASSUME NEW a \in Seq(Slots), NEW slot \in Slots
    PROVE  Tokens(Append(a, slot)) = Tokens(a) + slot.tokens
<1> DEFINE b == Append(a, slot)
           n == Len(a)
<1>1. /\ n \in Nat /\ b \in Seq(Slots) /\ DOMAIN a = 1 .. n /\ DOMAIN b = 1 .. (n + 1)
      /\ b[n + 1] = slot /\ \A i \in 1 .. n : b[i] = a[i]
  OBVIOUS
<1> HIDE DEF b
<1>2. /\ Tokens(a) = Total(TokensOf(a), 1 .. n) /\ Tokens(a) \in Nat /\ IsFiniteSet(1 .. n)
      /\ \A x \in 1 .. n : TokensOf(a)[x] = a[x].tokens /\ a[x].tokens \in Nat
  BY <1>1, TokensType DEF Tokens
<1>3. /\ Tokens(b) = Total(TokensOf(b), 1 .. (n + 1)) /\ IsFiniteSet(1 .. (n + 1))
      /\ \A x \in 1 .. (n + 1) : TokensOf(b)[x] = b[x].tokens /\ b[x].tokens \in Nat
  BY <1>1, TokensType DEF Tokens
<1>4. (1 .. (n + 1)) \ {n + 1} = 1 .. n /\ n + 1 \in 1 .. (n + 1)
  BY <1>1
<1>5. \A x \in 1 .. (n + 1) : TokensOf(b)[x] \in Nat
  BY <1>3
<1>6. Total(TokensOf(b), 1 .. (n + 1)) =
         TokensOf(b)[n + 1] + Total(TokensOf(b), (1 .. (n + 1)) \ {n + 1})
  <2> DEFINE S == 1 .. (n + 1)
             f == TokensOf(b)
  <2>1. IsFiniteSet(S) /\ (\A x \in S : f[x] \in Nat) /\ n + 1 \in S
    BY <1>3, <1>4, <1>5
  <2> HIDE DEF S, f
  <2>2. Total(f, S) = f[n + 1] + Total(f, S \ {n + 1})
    BY <2>1, TotalRemove
  <2> QED
    BY <2>2 DEF S, f
<1>7. \A x \in 1 .. n : TokensOf(a)[x] \in Nat /\ TokensOf(b)[x] = TokensOf(a)[x]
  BY <1>1, <1>2, <1>3
<1>8. Total(TokensOf(a), 1 .. n) = Total(TokensOf(b), 1 .. n)
  BY <1>2, <1>7, TotalEqual
<1>9. TokensOf(b)[n + 1] = slot.tokens /\ slot.tokens \in Nat
  BY <1>1, <1>3, <1>4
<1>10. Tokens(b) = slot.tokens + Tokens(a)
  BY <1>2, <1>3, <1>4, <1>6, <1>8, <1>9
<1> QED
  BY <1>2, <1>9, <1>10 DEF b

-----------------------------------------------------------------------------
(* The initial state                                                       *)

LEMMA InitInvariant == Init => IInv
<1> SUFFICES ASSUME Init PROVE IInv
  OBVIOUS
<1>1. TypeOK /\ RequestsFit
  BY DEF Init, TypeOK, RequestsFit, WorkerRows, Slots
<1>2. Remembered(0) /\ 0 \in 0 .. Len(granted)
  BY DEF Init, Remembered
<1>3. FileIsTail
  BY <1>2 DEF FileIsTail
<1>4. WindowRespected
  BY DEF Init, WindowRespected
<1>5. announced = file.notBefore
  BY DEF Init
<1> QED
  BY <1>1, <1>3, <1>4, <1>5 DEF IInv

-----------------------------------------------------------------------------
(* Steps that grant nothing                                                *)

\* The true time never runs backwards.
LEMMA QuietStep ==
    IInv /\ TypeOK' /\ RequestsFit' /\ UNCHANGED granted
      /\ file'.reservations = file.reservations
      /\ back <= back' /\ clock + back <= clock' + back' /\ announced' = file'.notBefore
    => IInv'
<1>1. ASSUME IInv, TypeOK', RequestsFit', UNCHANGED granted,
             file'.reservations = file.reservations,
             back <= back', clock + back <= clock' + back', announced' = file'.notBefore
      PROVE  IInv'
  <2>1. PICK k \in 0 .. Len(granted) : Remembered(k)
    BY <1>1 DEF IInv, FileIsTail
  <2>2. granted \in Seq(Slots) /\ file.reservations \in Seq(Slots)
    BY <1>1 DEF IInv, TypeOK
  <2> DEFINE time == clock + back
             later == clock' + back'
             more == back'
  <2>3. time \in Int /\ later \in Int /\ back \in Int /\ more \in Int /\ Window \in Int
    BY <1>1, QueueAssumption DEF IInv, TypeOK
  <2>4. back <= more
    BY <1>1
  <2>5. time <= later
    BY <1>1
  <2> HIDE DEF time, later, more
  <2>6. Len(granted) = k + Len(file.reservations) /\ k \in Nat
    BY <2>1, <2>2 DEF Remembered
  <2>7. ASSUME NEW i \in 1 .. Len(file.reservations)
        PROVE  granted[k + i].time <= file.reservations[i].time + more
    <3> DEFINE x == granted[k + i].time
               y == file.reservations[i].time
    <3>1. k + i \in 1 .. Len(granted)
      BY <2>2, <2>6
    <3>2. granted[k + i] \in Slots /\ file.reservations[i] \in Slots
      BY <2>2, <3>1
    <3>3. x \in Int /\ y \in Int
      BY <3>2 DEF Slots
    <3>4. x <= y + back
      BY <2>1 DEF Remembered
    <3> HIDE DEF x, y
    <3>5. x <= y + more
      BY <2>3, <2>4, <3>3, <3>4
    <3> QED
      BY <3>5 DEF x, y
  <2>8. ASSUME NEW j \in 1 .. k
        PROVE  granted[j].time <= later - Window
    <3> DEFINE x == granted[j].time
    <3>1. granted[j] \in Slots
      BY <2>2, <2>6
    <3>2. x \in Int
      BY <3>1 DEF Slots
    <3>3. x <= clock + back - Window
      BY <2>1 DEF Remembered
    <3>4. x <= time - Window
      BY <1>1, <3>2, <3>3, QueueAssumption DEF IInv, TypeOK, time
    <3> HIDE DEF x
    <3>5. x <= later - Window
      BY <2>3, <2>5, <3>2, <3>4
    <3> QED
      BY <3>5 DEF x
  <2>9. Remembered(k)'
    <3>1. \A j \in 1 .. k : granted[j].time <= clock' + back' - Window
      <4> TAKE j \in 1 .. k
      <4>1. granted[j].time <= later - Window
        BY <2>8
      <4>2. granted[j] \in Slots
        BY <2>2, <2>6
      <4> QED
        BY <1>1, <4>1, <4>2, QueueAssumption DEF TypeOK, Slots, later
    <3>2. \A i \in 1 .. Len(file.reservations) :
             granted[k + i].time <= file.reservations[i].time + back'
      BY <2>7 DEF more
    <3> QED
      BY <1>1, <2>1, <3>1, <3>2 DEF Remembered
  <2>10. FileIsTail'
    BY <1>1, <2>9 DEF FileIsTail
  <2>11. WindowRespected'
    BY <1>1 DEF IInv, WindowRespected
  <2> QED
    BY <1>1, <2>10, <2>11 DEF IInv
<1> QED
  BY <1>1

-----------------------------------------------------------------------------
(* A slot is granted                                                       *)

\* A request is granted only where the slots that count leave room for it.
LEMMA GrantedFits ==
    ASSUME IInv, NEW w \in Workers, worker[w].pc = "locking", Ready(worker[w].tokens) <= clock
    PROVE  /\ Len(Counting) + 1 <= Rpm
           /\ Tokens(Counting) + worker[w].tokens <= Tpm
           /\ file.notBefore <= clock
<1> DEFINE tokens == worker[w].tokens
           e == Expired(clock - Window)
           slots == file.reservations
<1>1. /\ slots \in Seq(Slots) /\ Len(slots) \in Nat /\ clock \in Nat /\ file.notBefore \in Nat
      /\ tokens \in Nat /\ tokens <= Tpm
      /\ Window \in Nat \ {0} /\ Rpm \in Nat \ {0} /\ Tpm \in Nat \ {0}
  BY QueueAssumption DEF IInv, TypeOK, RequestsFit, WorkerRows
<1>2. /\ e \in 0 .. Len(slots)
      /\ e < Len(slots) => slots[e + 1].time > clock - Window
  <2>1. clock - Window \in Int /\ TypeOK
    BY <1>1 DEF IInv
  <2> QED
    BY <2>1, ExpiredIsLargest
<1> HIDE DEF e
<1>3. Counting = SubSeq(slots, e + 1, Len(slots))
  BY DEF Counting, e
<1>4. /\ Counting \in Seq(Slots) /\ Len(Counting) = Len(slots) - e
      /\ \A i \in 1 .. Len(Counting) : Counting[i] = slots[e + i]
  BY <1>1, <1>2, <1>3
<1>5. Tokens(Counting) \in Nat
  BY <1>4, TokensType DEF Tokens
<1>6. Limited(tokens) => Len(Counting) > 0
  <2> SUFFICES ASSUME Len(Counting) = 0, Limited(tokens) PROVE FALSE
    BY <1>4
  <2>1. DOMAIN Counting = {}
    BY <1>4
  <2>2. Tokens(Counting) = Total(TokensOf(Counting), {})
    BY <1>4, <2>1, TokensType DEF Tokens
  <2>3. Tokens(Counting) = 0
    BY <2>2, TotalEmpty
  <2> QED
    BY <1>1, <2>3 DEF Limited
<1>7. ~Limited(tokens)
  <2> SUFFICES ASSUME Limited(tokens) PROVE FALSE
    OBVIOUS
  <2>1. Head(Counting) = slots[e + 1] /\ e < Len(slots) /\ slots[e + 1] \in Slots
    BY <1>1, <1>2, <1>4, <1>6
  <2>2. Head(Counting).time \in Int /\ Head(Counting).time + Window > clock
    BY <1>1, <1>2, <2>1 DEF Slots
  <2>3. Ready(tokens) = LatestOf(file.notBefore, Head(Counting).time + Window)
    BY DEF Ready
  <2>4. Ready(tokens) >= Head(Counting).time + Window
    BY <1>1, <2>2, <2>3 DEF LatestOf
  <2>5. Ready(tokens) \in Int
    BY <1>1, <2>2, <2>3 DEF LatestOf
  <2> QED
    BY <1>1, <2>2, <2>4, <2>5
<1>8. file.notBefore <= clock
  <2>1. Ready(tokens) = LatestOf(file.notBefore, clock)
    BY <1>7 DEF Ready
  <2> QED
    BY <1>1, <2>1 DEF LatestOf
<1> QED
  BY <1>1, <1>4, <1>5, <1>7, <1>8 DEF Limited

LEMMA GrantStep ==
    ASSUME IInv, NEW w \in Workers, Grant(w)
    PROVE  IInv'
<1> DEFINE slots == file.reservations
           e == Expired(clock - Window)
           slot == [time |-> clock, tokens |-> worker[w].tokens]
           true == [time |-> clock + back, tokens |-> worker[w].tokens]
           n == Len(granted)
<1>1. /\ slots \in Seq(Slots) /\ granted \in Seq(Slots) /\ Len(slots) \in Nat /\ n \in Nat
      /\ clock \in Nat /\ back \in Nat /\ worker[w].tokens \in Nat
      /\ Window \in Nat \ {0} /\ Rpm \in Nat \ {0} /\ Tpm \in Nat \ {0}
  BY QueueAssumption DEF IInv, TypeOK, WorkerRows
<1>2. /\ e \in 0 .. Len(slots)
      /\ \A i \in 1 .. e : slots[i].time <= clock - Window
  <2>1. clock - Window \in Int /\ TypeOK
    BY <1>1 DEF IInv
  <2> QED
    BY <2>1, ExpiredIsLargest
<1> HIDE DEF e
<1>3. /\ Counting = SubSeq(slots, e + 1, Len(slots))
      /\ Counting \in Seq(Slots) /\ Len(Counting) = Len(slots) - e
      /\ \A i \in 1 .. Len(Counting) : Counting[i] = slots[e + i]
  <2>1. Counting = SubSeq(slots, e + 1, Len(slots))
    BY DEF Counting, e
  <2> QED
    BY <1>1, <1>2, <2>1
<1>4. slot \in Slots /\ true \in Slots
  BY <1>1 DEF Slots
<1>5. /\ file' = [file EXCEPT !.reservations = Append(Counting, slot)]
      /\ granted' = Append(granted, true)
      /\ worker' = [worker EXCEPT ![w].pc = "granted"]
      /\ UNCHANGED <<clock, back, announced>>
  BY DEF Grant, Becomes
<1>6. /\ Append(Counting, slot) \in Seq(Slots) /\ file'.reservations = Append(Counting, slot)
      /\ file'.notBefore = file.notBefore
      /\ file' \in [whole : BOOLEAN, reservations : Seq(Slots), notBefore : Nat]
  <2>1. Append(Counting, slot) \in Seq(Slots)
    BY <1>3, <1>4
  <2>2. file \in [whole : BOOLEAN, reservations : Seq(Slots), notBefore : Nat]
    BY DEF IInv, TypeOK
  <2> HIDE DEF slot
  <2> QED
    BY <1>5, <2>1, <2>2
<1>7. /\ granted' \in Seq(Slots) /\ Len(granted') = n + 1
      /\ granted'[n + 1] = true /\ \A i \in 1 .. n : granted'[i] = granted[i]
  BY <1>1, <1>4, <1>5
<1>8. TypeOK' /\ RequestsFit'
  <2>1. worker' \in [Workers -> WorkerRows] /\ RequestsFit'
    BY <1>5 DEF IInv, TypeOK, WorkerRows, RequestsFit
  <2> QED
    BY <1>5, <1>6, <1>7, <2>1 DEF IInv, TypeOK
<1>9. PICK k \in 0 .. n : Remembered(k)
  BY DEF IInv, FileIsTail
<1>10. n = k + Len(slots)
  BY <1>9 DEF Remembered
<1>11. PICK m \in Nat : m = k + e
  <2>1. k \in Nat /\ e \in Nat
    BY <1>1, <1>2
  <2> QED
    BY <2>1
<1> DEFINE c == Len(Counting)
<1>12. /\ k \in Nat /\ e \in Nat /\ m \in Nat /\ c \in Nat /\ n \in Nat
       /\ n = m + c /\ m = k + e /\ e + c = Len(slots)
  <2>1. Len(slots) \in Nat /\ n \in Nat /\ e \in 0 .. Len(slots) /\ c = Len(slots) - e
    BY <1>1, <1>2, <1>3
  <2>2. n = k + Len(slots) /\ k \in 0 .. n /\ m = k + e
    BY <1>9, <1>10, <1>11
  <2> HIDE DEF n, c, slots
  <2> QED
    BY <2>1, <2>2
<1> HIDE DEF n, c, slots, slot, true
<1>13. \A i \in 1 .. e : granted[k + i].time <= clock + back - Window
  <2> TAKE i \in 1 .. e
  <2>1. i \in 1 .. Len(slots) /\ k + i \in 1 .. Len(granted)
    BY <1>12 DEF n
  <2>2. granted[k + i] \in Slots /\ slots[i] \in Slots
    BY <1>1, <2>1
  <2>3. granted[k + i].time \in Int /\ slots[i].time \in Int
    BY <2>2 DEF Slots
  <2>4. granted[k + i].time <= slots[i].time + back
    BY <1>9, <2>1 DEF Remembered, slots
  <2>5. slots[i].time <= clock - Window
    BY <1>2
  <2> QED
    BY <1>1, <2>3, <2>4, <2>5
<1>14. \A j \in 1 .. m : granted[j].time <= clock + back - Window
  <2> TAKE j \in 1 .. m
  <2>1. CASE j \in 1 .. k
    BY <1>9, <2>1 DEF Remembered
  <2>2. CASE j \notin 1 .. k
    <3>1. j - k \in 1 .. e /\ j = k + (j - k)
      BY <1>12, <2>2
    <3> QED
      BY <1>13, <3>1
  <2> QED
    BY <2>1, <2>2
<1>15. ASSUME NEW i \in 1 .. c
       PROVE  /\ granted[m + i].tokens = Counting[i].tokens
              /\ granted[m + i].time <= Counting[i].time + back
  <2>1. e + i \in 1 .. Len(slots) /\ m + i = k + (e + i)
    BY <1>12
  <2>2. /\ granted[k + (e + i)].tokens = slots[e + i].tokens
        /\ granted[k + (e + i)].time <= slots[e + i].time + back
    BY <1>9, <2>1 DEF Remembered, slots
  <2>3. Counting[i] = slots[e + i]
    BY <1>3 DEF c
  <2> QED
    BY <2>1, <2>2, <2>3
<1>16. /\ Len(file'.reservations) = c + 1
       /\ file'.reservations[c + 1] = slot
       /\ \A i \in 1 .. c : file'.reservations[i] = Counting[i]
  <2> DEFINE q == Counting
  <2>1. q \in Seq(Slots) /\ slot \in Slots /\ file'.reservations = Append(q, slot)
    BY <1>3, <1>4, <1>6
  <2> HIDE DEF q
  <2>2. /\ Len(Append(q, slot)) = Len(q) + 1 /\ Append(q, slot)[Len(q) + 1] = slot
        /\ \A i \in 1 .. Len(q) : Append(q, slot)[i] = q[i]
    BY <2>1
  <2> QED
    BY <2>1, <2>2 DEF c, q
<1>17. Remembered(m)'
  <2>1. Len(granted') = m + Len(file'.reservations)
    BY <1>7, <1>12, <1>16
  <2>2. ASSUME NEW i \in 1 .. c + 1
        PROVE  /\ granted'[m + i].tokens = file'.reservations[i].tokens
               /\ granted'[m + i].time <= file'.reservations[i].time + back
    <3>1. CASE i \in 1 .. c
      <4>1. m + i \in 1 .. n
        BY <1>12, <3>1
      <4>2. file'.reservations[i] = Counting[i] /\ granted'[m + i] = granted[m + i]
        BY <1>7, <1>16, <3>1, <4>1
      <4> QED
        BY <1>15, <3>1, <4>2
    <3>2. CASE i \notin 1 .. c
      <4>1. i = c + 1 /\ m + i = n + 1
        BY <1>12, <3>2
      <4>2. file'.reservations[i] = slot /\ granted'[m + i] = true
        BY <1>7, <1>16, <4>1
      <4> QED
        BY <1>1, <4>2 DEF slot, true
    <3> QED
      BY <3>1, <3>2
  <2>3. ASSUME NEW j \in 1 .. m
        PROVE  granted'[j].time <= clock + back - Window
    <3>1. j \in 1 .. n
      BY <1>12
    <3>2. granted'[j] = granted[j]
      BY <1>7, <3>1
    <3> QED
      BY <1>14, <3>2
  <2>4. \A i \in 1 .. Len(file'.reservations) :
           /\ granted'[m + i].tokens = file'.reservations[i].tokens
           /\ granted'[m + i].time <= file'.reservations[i].time + back'
    BY <1>5, <1>16, <2>2
  <2>5. \A j \in 1 .. m : granted'[j].time <= clock' + back' - Window
    BY <1>5, <2>3
  <2> QED
    BY <2>1, <2>4, <2>5 DEF Remembered
<1>18. FileIsTail'
  <2>1. m \in 0 .. Len(granted')
    BY <1>7, <1>12
  <2> QED
    BY <1>17, <2>1 DEF FileIsTail
<1>19. /\ c + 1 <= Rpm
       /\ Tokens(Counting) + worker[w].tokens <= Tpm
  BY GrantedFits DEF Grant, c
<1>20. WindowRespected'
  <2> DEFINE Recent(i) == {j \in 1 .. i : granted'[j].time > granted'[i].time - Window}
  <2>1. ASSUME NEW i \in 1 .. n
        PROVE  Cardinality(Recent(i)) <= Rpm /\ SumOver(Recent(i), TokensOf(granted')) <= Tpm
    <3> DEFINE recent == {j \in 1 .. i : granted[j].time > granted[i].time - Window}
    <3>1. \A j \in 1 .. i : j \in 1 .. n
      BY <1>12
    <3>2. Recent(i) = recent
      BY <1>7, <3>1
    <3>3. DOMAIN granted = 1 .. n /\ DOMAIN granted' = 1 .. n + 1
      BY <1>1, <1>7 DEF n
    <3>4. Cardinality(recent) <= Rpm /\ SumOver(recent, TokensOf(granted)) <= Tpm
      BY <3>3 DEF IInv, WindowRespected
    <3>5. SumOver(recent, TokensOf(granted')) = SumOver(recent, TokensOf(granted))
      <4>1. recent \subseteq 1 .. n /\ recent \subseteq DOMAIN granted /\ recent \subseteq DOMAIN granted'
        BY <1>12, <3>1, <3>3
      <4> HIDE DEF recent
      <4>2. /\ SumOver(recent, TokensOf(granted)) = Total(TokensOf(granted), recent)
            /\ IsFiniteSet(recent)
            /\ \A x \in DOMAIN granted : TokensOf(granted)[x] = granted[x].tokens /\ granted[x].tokens \in Nat
        BY <1>1, <4>1, TokensType
      <4>3. /\ SumOver(recent, TokensOf(granted')) = Total(TokensOf(granted'), recent)
            /\ \A x \in DOMAIN granted' : TokensOf(granted')[x] = granted'[x].tokens
        BY <1>7, <4>1, TokensType
      <4>4. \A x \in recent : /\ TokensOf(granted)[x] \in Nat
                              /\ TokensOf(granted')[x] = TokensOf(granted)[x]
        BY <1>7, <4>1, <4>2, <4>3
      <4> QED
        BY <4>2, <4>3, <4>4, TotalEqual
    <3> QED
      BY <3>2, <3>4, <3>5
  <2>2. Cardinality(Recent(n + 1)) <= Rpm /\ SumOver(Recent(n + 1), TokensOf(granted')) <= Tpm
    <3> DEFINE recent == Recent(n + 1)
               held == (m + 1) .. (n + 1)
    <3>1. recent \subseteq held
      <4> SUFFICES ASSUME NEW j \in recent, j \notin held PROVE FALSE
        OBVIOUS
      <4>1. j \in 1 .. n + 1 /\ granted'[j].time > granted'[n + 1].time - Window
        OBVIOUS
      <4>2. j \in 1 .. m /\ j \in 1 .. n
        BY <1>12, <4>1
      <4>3. granted'[j] = granted[j] /\ granted[j] \in Slots
        BY <1>1, <1>7, <4>2 DEF n
      <4>4. granted'[j].time \in Int /\ granted'[j].time <= clock + back - Window
        BY <1>14, <4>2, <4>3 DEF Slots
      <4>5. granted'[n + 1].time = clock + back
        BY <1>7 DEF true
      <4> QED
        BY <1>1, <4>1, <4>4, <4>5
    <3>2. held \subseteq DOMAIN granted' /\ IsFiniteSet(held) /\ Cardinality(held) = c + 1
      <4>1. m + 1 \in Int /\ n + 1 \in Int /\ m + 1 <= n + 1 /\ (n + 1) - (m + 1) + 1 = c + 1
        BY <1>12
      <4>2. IsFiniteSet(held) /\ Cardinality(held) = (n + 1) - (m + 1) + 1
        BY <4>1, FS_Interval
      <4>3. held \subseteq DOMAIN granted'
        BY <1>7, <1>12
      <4> QED
        BY <4>1, <4>2, <4>3
    <3>3. Tokens(Append(Counting, slot)) = SumOver(held, TokensOf(granted'))
      <4> DEFINE b == Append(Counting, slot)
      <4>1. /\ m \in Nat /\ b \in Seq(Slots) /\ granted' \in Seq(Slots)
            /\ Len(granted') = m + Len(b) /\ Len(granted') = n + 1
        BY <1>6, <1>7, <1>12, <1>16
      <4>2. \A i \in 1 .. Len(b) : granted'[m + i].tokens = b[i].tokens
        BY <1>6, <1>17 DEF Remembered
      <4> HIDE DEF b
      <4>3. SumOver((m + 1) .. Len(granted'), TokensOf(granted')) = Tokens(b)
        BY <4>1, <4>2, TokensShift
      <4> QED
        BY <4>1, <4>3 DEF b
    <3>4. Tokens(Append(Counting, slot)) = Tokens(Counting) + worker[w].tokens
      <4>1. Tokens(Append(Counting, slot)) = Tokens(Counting) + slot.tokens
        BY <1>3, <1>4, TokensAppend
      <4> QED
        BY <4>1 DEF slot
    <3>5. held = (m + 1) .. (n + 1)
      OBVIOUS
    <3> HIDE DEF recent, held
    <3>6. IsFiniteSet(recent) /\ Cardinality(recent) \in Nat /\ Cardinality(recent) <= Cardinality(held)
      BY <3>1, <3>2, FS_Subset, FS_CardinalityType
    <3>7. SumOver(recent, TokensOf(granted')) <= SumOver(held, TokensOf(granted'))
          /\ SumOver(recent, TokensOf(granted')) \in Nat /\ SumOver(held, TokensOf(granted')) \in Nat
      <4>1. recent \subseteq DOMAIN granted' /\ held \subseteq DOMAIN granted'
        BY <3>1, <3>2
      <4>2. /\ SumOver(recent, TokensOf(granted')) = Total(TokensOf(granted'), recent)
            /\ SumOver(recent, TokensOf(granted')) \in Nat
        BY <1>7, <4>1, TokensType
      <4>3. /\ SumOver(held, TokensOf(granted')) = Total(TokensOf(granted'), held)
            /\ SumOver(held, TokensOf(granted')) \in Nat
            /\ \A x \in held : TokensOf(granted')[x] \in Nat
        BY <1>7, <4>1, TokensType
      <4> QED
        BY <3>1, <3>2, <4>2, <4>3, TotalSubset
    <3>8. Cardinality(recent) <= Rpm
      BY <1>1, <1>12, <1>19, <3>2, <3>6
    <3>9. SumOver(recent, TokensOf(granted')) <= Tpm
      BY <1>1, <1>19, <3>3, <3>4, <3>7
    <3> QED
      BY <3>8, <3>9 DEF recent
  <2>3. ASSUME NEW i \in DOMAIN granted'
        PROVE  Cardinality(Recent(i)) <= Rpm /\ SumOver(Recent(i), TokensOf(granted')) <= Tpm
    <3>1. i \in 1 .. n \/ i = n + 1
      BY <1>7, <1>12
    <3> HIDE DEF Recent
    <3> QED
      BY <2>1, <2>2, <3>1
  <2> QED
    BY <2>3 DEF WindowRespected
<1> QED
  BY <1>5, <1>6, <1>8, <1>18, <1>20 DEF IInv

-----------------------------------------------------------------------------
(* Every step                                                              *)

\* Time that passes and a clock set back leave the true time at least as late.
LEMMA ClockStep ==
    ASSUME IInv, Tick \/ SetBack
    PROVE  IInv'
<1>1. clock \in Nat /\ back \in Nat /\ MaxClock \in Nat /\ MaxBack \in Nat
  BY QueueAssumption DEF IInv, TypeOK
<1>2. /\ clock' \in Nat /\ back' \in Nat /\ back <= back' /\ clock + back <= clock' + back'
      /\ UNCHANGED <<file, worker, granted, announced>>
  BY <1>1 DEF Tick, SetBack
<1>3. TypeOK' /\ RequestsFit' /\ (announced = file.notBefore)'
  BY <1>2 DEF IInv, TypeOK, RequestsFit
<1> QED
  BY <1>2, <1>3, QuietStep

\* A step that only moves calls between the states of reserve, or only the
\* processes, or only damages the file.
LEMMA CallStep ==
    ASSUME IInv, UNCHANGED <<clock, back, granted, announced>>,
           UNCHANGED file \/ file' = [file EXCEPT !.whole = FALSE],
           worker' \in [Workers -> WorkerRows], RequestsFit'
    PROVE  IInv'
<1>1. /\ file'.reservations = file.reservations /\ file'.notBefore = file.notBefore
      /\ file' \in [whole : BOOLEAN, reservations : Seq(Slots), notBefore : Nat]
  BY DEF IInv, TypeOK
<1>2. TypeOK' /\ (announced = file.notBefore)'
  BY <1>1 DEF IInv, TypeOK
<1>3. clock \in Nat /\ back \in Nat
  BY DEF IInv, TypeOK
<1> QED
  BY <1>1, <1>2, <1>3, QuietStep

\* The end of a process leaves none of its calls waiting.
LEMMA EndedFits ==
    ASSUME IInv, NEW p, worker' = Ended(p, worker)
    PROVE  worker' \in [Workers -> WorkerRows] /\ RequestsFit'
BY DEF IInv, TypeOK, RequestsFit, WorkerRows, Ended

LEMMA CooldownStep ==
    ASSUME IInv, NEW p \in Processes, NEW seconds \in Cooldowns, Cooldown(p, seconds)
    PROVE  IInv'
<1>1. clock \in Nat /\ back \in Nat /\ seconds \in Nat /\ announced = file.notBefore /\ announced \in Nat
  BY QueueAssumption DEF IInv, TypeOK
<1>2. LatestOf(announced, clock + seconds) \in Nat
  BY <1>1 DEF LatestOf
<1>3. /\ UNCHANGED <<clock, back, worker, granted>>
      /\ file' = [file EXCEPT !.notBefore = LatestOf(announced, clock + seconds)]
      /\ announced' = LatestOf(announced, clock + seconds)
  BY <1>1 DEF Cooldown
<1>4. /\ file'.reservations = file.reservations /\ file'.notBefore = announced'
      /\ file' \in [whole : BOOLEAN, reservations : Seq(Slots), notBefore : Nat]
  BY <1>2, <1>3 DEF IInv, TypeOK
<1>5. TypeOK' /\ RequestsFit'
  BY <1>2, <1>3, <1>4 DEF IInv, TypeOK, RequestsFit
<1> QED
  BY <1>1, <1>3, <1>4, <1>5, QuietStep

\* A call asks, and a request that no window could hold does not wait.
LEMMA AskStep ==
    ASSUME IInv, NEW w \in Workers, NEW tokens \in Estimates, NEW deadline \in Deadlines,
           Ask(w, tokens, deadline)
    PROVE  IInv'
<1> DEFINE row == [pc |-> IF tokens > Tpm THEN "refused" ELSE "waiting",
                   tokens |-> tokens, deadline |-> deadline]
<1>1. tokens \in Nat /\ deadline \in Nat /\ Tpm \in Nat
  BY QueueAssumption
<1>2. row \in WorkerRows /\ (row.pc \in {"waiting", "locking"} => row.tokens <= Tpm)
  BY <1>1 DEF WorkerRows
<1>3. worker' = [worker EXCEPT ![w] = row] /\ UNCHANGED <<clock, back, file, granted, announced>>
  BY DEF Ask
<1> HIDE DEF row
<1>4. worker' \in [Workers -> WorkerRows] /\ RequestsFit'
  BY <1>2, <1>3 DEF IInv, TypeOK, RequestsFit
<1> QED
  BY <1>3, <1>4, CallStep

\* A waiting call goes on to another state and brings the same request.
LEMMA BecomesFits ==
    ASSUME IInv, NEW w \in Workers, worker[w].pc \in {"waiting", "locking"}, NEW pc,
           pc \in {"waiting", "locking", "granted", "censored", "stopped", "raised"},
           Becomes(w, pc)
    PROVE  worker' \in [Workers -> WorkerRows] /\ RequestsFit'
BY DEF IInv, TypeOK, RequestsFit, WorkerRows, Becomes

LEMMA WorkerStep ==
    ASSUME IInv, NEW w \in Workers, Step(w)
    PROVE  IInv'
<1>1. CASE Look(w)
  <2>1. worker' \in [Workers -> WorkerRows] /\ RequestsFit'
    BY <1>1, BecomesFits DEF Look
  <2> QED
    BY <1>1, <2>1, CallStep DEF Look
<1>2. CASE Grant(w)
  BY <1>2, GrantStep
<1>3. CASE Retry(w)
  <2>1. worker' \in [Workers -> WorkerRows] /\ RequestsFit'
    BY <1>3, BecomesFits DEF Retry
  <2> QED
    BY <1>3, <2>1, CallStep DEF Retry
<1>4. CASE Refuse(w)
  <2>1. worker' \in [Workers -> WorkerRows] /\ RequestsFit'
    BY <1>4, BecomesFits DEF Refuse
  <2> QED
    BY <1>4, <2>1, CallStep DEF Refuse
<1>5. CASE WriteInterrupted(w)
  <2>1. worker' \in [Workers -> WorkerRows] /\ RequestsFit'
    BY <1>5, BecomesFits, EndedFits DEF WriteInterrupted
  <2> QED
    BY <1>5, <2>1, CallStep DEF WriteInterrupted
<1> QED
  BY <1>1, <1>2, <1>3, <1>4, <1>5 DEF Step

LEMMA ProcessStep ==
    ASSUME IInv, NEW p \in Processes, Open(p) \/ Crash(p) \/ Stop(p)
    PROVE  IInv'
<1>1. worker' \in [Workers -> WorkerRows] /\ RequestsFit'
  <2>1. CASE UNCHANGED worker
    BY <2>1 DEF IInv, TypeOK, RequestsFit
  <2>2. CASE worker' = Ended(p, worker)
    BY <2>2, EndedFits
  <2> QED
    BY <2>1, <2>2 DEF Open, Crash, Stop
<1>2. UNCHANGED <<clock, back, file, granted, announced>>
  BY DEF Open, Crash, Stop
<1> QED
  BY <1>1, <1>2, CallStep

LEMMA StutterStep ==
    ASSUME IInv, UNCHANGED vars
    PROVE  IInv'
BY DEF IInv, TypeOK, RequestsFit, FileIsTail, Remembered, WindowRespected, vars

LEMMA NextInvariant == IInv /\ [Next]_vars => IInv'
<1> SUFFICES ASSUME IInv, [Next]_vars PROVE IInv'
  OBVIOUS
<1>1. CASE UNCHANGED vars
  BY <1>1, StutterStep
<1>2. CASE Tick \/ SetBack
  BY <1>2, ClockStep
<1>3. ASSUME NEW p \in Processes, Open(p) \/ Crash(p) \/ Stop(p)
      PROVE  IInv'
  BY <1>3, ProcessStep
<1>4. ASSUME NEW p \in Processes, NEW seconds \in Cooldowns, Cooldown(p, seconds)
      PROVE  IInv'
  BY <1>4, CooldownStep
<1>5. ASSUME NEW w \in Workers, NEW tokens \in Estimates, NEW deadline \in Deadlines,
             Ask(w, tokens, deadline)
      PROVE  IInv'
  BY <1>5, AskStep
<1>6. ASSUME NEW w \in Workers, Step(w)
      PROVE  IInv'
  BY <1>6, WorkerStep
<1> QED
  BY <1>1, <1>2, <1>3, <1>4, <1>5, <1>6 DEF Next

-----------------------------------------------------------------------------
(* The theorems                                                            *)

\* The types, the waiting requests fit a window, the file has the last slots
\* granted, and the window and the cooldowns are kept: together they are
\* inductive over the steps of reserve, cooldown, the processes and the clock.
THEOREM QueueInvariant == Spec => []IInv
<1>1. Init => IInv
  BY InitInvariant
<1>2. IInv /\ [Next]_vars => IInv'
  BY NextInvariant
<1> QED
  BY <1>1, <1>2, PTL DEF Spec

\* All processes together are never granted more slots or tokens within a
\* window of true time than the deployment allows, whatever crashes, however
\* far the clock is set back, and whichever order reserve is called in.
THEOREM WindowAlwaysRespected == Spec => []WindowRespected
<1>1. IInv => WindowRespected
  BY DEF IInv
<1> QED
  BY <1>1, QueueInvariant, PTL

\* A slot is granted only where the condition of reserve on notBefore held.
LEMMA GrantAfterCooldown ==
    IInv /\ [Next]_vars => (granted' # granted => clock >= announced)
<1> SUFFICES ASSUME IInv, [Next]_vars, granted' # granted
             PROVE  clock >= announced
  OBVIOUS
<1>1. PICK w \in Workers : Grant(w)
  BY DEF Next, vars, Tick, SetBack, Open, Crash, Stop, Cooldown, Ask, Step, Look, Retry,
         Refuse, WriteInterrupted
<1>2. file.notBefore <= clock
  BY <1>1, GrantedFits DEF Grant
<1>3. announced = file.notBefore /\ announced \in Nat /\ clock \in Nat
  BY DEF IInv, TypeOK
<1> QED
  BY <1>2, <1>3

\* No call is granted a slot before the end of any cooldown that any process
\* has announced: a later, shorter announcement does not end a longer one.
THEOREM CooldownAlwaysHonoured == Spec => CooldownHonoured
<1>1. IInv /\ [Next]_vars => [granted' # granted => clock >= announced]_vars
  BY GrantAfterCooldown
<1> QED
  BY <1>1, QueueInvariant, PTL DEF Spec, CooldownHonoured

=============================================================================

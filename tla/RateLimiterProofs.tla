-------------------------- MODULE RateLimiterProofs -------------------------
(***************************************************************************)
(* The rate limiter keeps its promise for every number of handlers, every  *)
(* rate, burst and window.  RateBounded is not inductive: a bucket that    *)
(* has been idle may hold tokens for admissions still to come.  Ledger     *)
(* balances both: for every window that reaches back to the bucket's       *)
(* lastTime, admissions and tokens together stay below what the window may *)
(* have; a shorter window has seen no admission at all.                    *)
(***************************************************************************)
EXTENDS RateLimiter, TLAPS

\* The only Limiter a caller may use is the one in the map.
Held ==
  \A c \in Callers :
    /\ call[c].pc # "idle" => call[c].queue \in Queues
    /\ call[c].pc = "take" => /\ call[c].lim \in Creators
                              /\ call[c].lim = limiters[call[c].queue]

Balanced(b, p, q, n) ==
  IF n < b.age THEN p = 0
  ELSE p * Unit + b.tokens <= Burst[q] * Unit + (n - b.age) * Rate[q]

\* The books of every queue.
Ledger ==
  \A q \in Queues, n \in 0..Window :
    IF limiters[q] = None THEN passed[q][n] = 0
    ELSE Balanced(bucket[q][limiters[q]], passed[q][n], q, n)

IInv == TypeOK /\ Held /\ Ledger

-----------------------------------------------------------------------------
(* Arithmetic.                                                             *)

(* Products of naturals are naturals, and distribute (what the linear      *)
(* solver does not see).                                                   *)
LEMMA Products ==
  ASSUME NEW a \in Int, NEW b \in Int, NEW r \in Int
  PROVE  (a + b) * r = a * r + b * r /\ (a - b) * r = a * r - b * r /\ a * r \in Int
  OBVIOUS

(* A product with a natural grows with the other factor.                   *)
LEMMA Grows ==
  ASSUME NEW a \in Nat, NEW b \in Nat, NEW r \in Nat, a <= b
  PROVE  a * r <= b * r /\ a * r \in Nat
<1>1. PICK d \in Nat : b = a + d
  <2>1. b - a \in Nat /\ b = a + (b - a)
    OBVIOUS
  <2>2. QED
    BY <2>1
<1>2. b * r = a * r + d * r
  BY <1>1, Products
<1>3. d * r \in Nat /\ a * r \in Nat
  OBVIOUS
<1>4. QED
  BY <1>2, <1>3

(* The constants of a queue.                                               *)
LEMMA Constants ==
  ASSUME NEW q \in Queues
  PROVE  /\ Rate[q] \in Nat /\ Burst[q] \in Nat /\ Unit \in Nat /\ Unit > 0
         /\ Burst[q] * Unit \in Nat
  BY LimiterAssumption

(* A new Limiter is full.                                                   *)
LEMMA NewLimiterType ==
  ASSUME NEW q \in Queues
  PROVE  /\ NewLimiter(q) \in [tokens : Nat, age : 0..MaxAge]
         /\ NewLimiter(q).tokens <= Burst[q] * Unit
<1>1. Burst[q] * Unit \in Nat /\ 0 \in 0..MaxAge
  BY Constants, LimiterAssumption
<1>2. QED
  BY <1>1 DEF NewLimiter

(* A fresh bucket balances a queue that has admitted nobody.               *)
LEMMA FreshBalanced ==
  ASSUME NEW q \in Queues, NEW n \in 0..Window
  PROVE  Balanced(NewLimiter(q), 0, q, n)
<1>1. n \in Nat /\ n * Rate[q] \in Nat /\ Burst[q] * Unit \in Nat
  BY Constants, LimiterAssumption
<1>2. 0 * Unit = 0 /\ n - 0 = n
  BY Constants, <1>1
<1>3. QED
  BY <1>1, <1>2 DEF Balanced, NewLimiter

(* What refill() returns is a legal number of tokens.                      *)
LEMMA RefillType ==
  ASSUME NEW q \in Queues, NEW b \in [tokens : Nat, age : 0..MaxAge]
  PROVE  Refill(q, b) \in Nat /\ Refill(q, b) <= Burst[q] * Unit
<1>1. b.tokens \in Nat /\ b.age \in Nat /\ b.age * Rate[q] \in Nat
  BY Constants, LimiterAssumption
<1>2. QED
  BY <1>1, Constants DEF Refill

(* refill() keeps the books: what it adds is what the windows gained.      *)
LEMMA RefillBalanced ==
  ASSUME NEW q \in Queues, NEW n \in 0..Window, NEW p \in Nat,
         NEW b \in [tokens : Nat, age : 0..MaxAge],
         b.tokens <= Burst[q] * Unit, Balanced(b, p, q, n)
  PROVE  p * Unit + Refill(q, b) <= Burst[q] * Unit + n * Rate[q]
<1>1. /\ b.tokens \in Nat /\ b.age \in Nat /\ n \in Nat
      /\ n * Rate[q] \in Nat /\ p * Unit \in Nat /\ b.age * Rate[q] \in Nat
  BY Constants, LimiterAssumption
<1>2. Refill(q, b) \in Nat /\ Refill(q, b) <= Burst[q] * Unit
  BY RefillType
<1>3. CASE n < b.age
  <2>1. p = 0 /\ 0 * Unit = 0
    BY <1>3, Constants DEF Balanced
  <2>2. QED
    BY <2>1, <1>1, <1>2, Constants
<1>4. CASE ~(n < b.age)
  <2>1. p * Unit + b.tokens <= Burst[q] * Unit + (n - b.age) * Rate[q]
    BY <1>4 DEF Balanced
  <2>2. (n - b.age) * Rate[q] = n * Rate[q] - b.age * Rate[q]
    BY <1>1, Constants, Products
  <2>3. Refill(q, b) <= b.tokens + b.age * Rate[q]
    BY <1>1, Constants DEF Refill
  <2>4. QED
    BY <2>1, <2>2, <2>3, <1>1, <1>2, Constants
<1>5. QED
  BY <1>3, <1>4

-----------------------------------------------------------------------------
(* The types alone, without the arithmetic of IInv.                        *)
LEMMA Typed ==
  ASSUME IInv
  PROVE  /\ limiters \in [Queues -> Creators \cup {None}]
         /\ bucket \in [Queues -> [Creators -> [tokens : Nat, age : 0..MaxAge]]]
         /\ call \in [Callers -> [pc : {"idle", "lookup", "create", "take"},
                                  queue : Queues \cup {None}, lim : Creators \cup {None}]]
         /\ passed \in [Queues -> [0..Window -> Nat]]
  BY DEF IInv, TypeOK

(* The bounds of ages and windows.                                         *)
LEMMA Bounds == MaxAge \in Nat /\ Window \in Nat /\ 0 \in 0..MaxAge /\ 0 \in 0..Window
  BY LimiterAssumption

-----------------------------------------------------------------------------
(* The initial state.                                                      *)
LEMMA InitInv == Init => IInv
<1> SUFFICES ASSUME Init PROVE IInv
  OBVIOUS
<1>1. \A q \in Queues : NewLimiter(q) \in [tokens : Nat, age : 0..MaxAge]
  BY NewLimiterType
<1>2. TypeOK
  <2>1. limiters \in [Queues -> Creators \cup {None}]
    BY DEF Init, Creators
  <2>2. bucket \in [Queues -> [Creators -> [tokens : Nat, age : 0..MaxAge]]]
    BY <1>1 DEF Init
  <2>3. \A q \in Queues, c \in Creators : bucket[q][c].tokens <= Burst[q] * Unit
    BY Constants DEF Init, NewLimiter
  <2>4. call \in [Callers -> [pc : {"idle", "lookup", "create", "take"},
                              queue : Queues \cup {None}, lim : Creators \cup {None}]]
    BY DEF Init, Idle
  <2>5. passed \in [Queues -> [0..Window -> Nat]]
    BY DEF Init
  <2>6. QED
    BY <2>1, <2>2, <2>3, <2>4, <2>5 DEF TypeOK
<1>3. Held
  BY DEF Held, Init, Idle
<1>4. Ledger
  <2> SUFFICES ASSUME NEW q \in Queues, NEW n \in 0..Window
               PROVE  IF limiters[q] = None THEN passed[q][n] = 0
                      ELSE Balanced(bucket[q][limiters[q]], passed[q][n], q, n)
    BY DEF Ledger
  <2>1. passed[q][n] = 0
    BY DEF Init
  <2>2. CASE limiters[q] # None
    <3>1. bucket[q][limiters[q]] = NewLimiter(q)
      BY <2>2 DEF Init, Creators
    <3>2. QED
      BY <3>1, <2>1, <2>2, FreshBalanced
  <2>3. QED
    BY <2>1, <2>2
<1>5. QED
  BY <1>2, <1>3, <1>4 DEF IInv

(* Starting a call touches no bucket.                                      *)
LEMMA SubmitInv ==
  ASSUME IInv, NEW c \in Callers, NEW q \in Queues, Submit(c, q)
  PROVE  IInv'
<1>1. TypeOK'
  BY DEF IInv, TypeOK, Submit, Idle
<1>2. Held'
  BY DEF IInv, TypeOK, Held, Submit
<1>3. Ledger'
  BY DEF IInv, Ledger, Submit
<1>4. QED
  BY <1>1, <1>2, <1>3 DEF IInv

(* The pointer read under RLock stays the one in the map.                  *)
LEMMA LookupInv ==
  ASSUME IInv, NEW c \in Callers, Lookup(c)
  PROVE  IInv'
<1>1. call[c].queue \in Queues
  BY DEF IInv, Held, Lookup
<1>2. TypeOK'
  BY <1>1 DEF IInv, TypeOK, Lookup
<1>3. Held'
  BY <1>1 DEF IInv, TypeOK, Held, Lookup
<1>4. Ledger'
  BY DEF IInv, Ledger, Lookup
<1>5. QED
  BY <1>2, <1>3, <1>4 DEF IInv

(* Two handlers that both missed the Limiter create one.                   *)
LEMMA CreateInv ==
  ASSUME IInv, NEW c \in Callers, Create(c)
  PROVE  IInv'
<1> DEFINE q == call[c].queue
<1>1. q \in Queues /\ c \in Creators /\ c # None
  BY LimiterAssumption DEF IInv, Held, Create, Creators
<1>2. NewLimiter(q) \in [tokens : Nat, age : 0..MaxAge] /\ NewLimiter(q).tokens <= Burst[q] * Unit
  BY <1>1, NewLimiterType
<1>3. CASE limiters[q] = None
  <2>1. /\ limiters' = [limiters EXCEPT ![q] = c]
        /\ bucket' = [bucket EXCEPT ![q][c] = NewLimiter(q)]
        /\ call' = [call EXCEPT ![c].lim = c, ![c].pc = "take"]
        /\ passed' = passed
    BY <1>3 DEF Create
  <2>2. TypeOK'
    <3>1. bucket' \in [Queues -> [Creators -> [tokens : Nat, age : 0..MaxAge]]]
      BY <1>1, <1>2, <2>1 DEF IInv, TypeOK
    <3>2. \A r \in Queues, d \in Creators : bucket'[r][d].tokens <= Burst[r] * Unit
      BY <1>1, <1>2, <2>1 DEF IInv, TypeOK
    <3>3. limiters' \in [Queues -> Creators \cup {None}] /\ passed' \in [Queues -> [0..Window -> Nat]]
      BY <1>1, <2>1 DEF IInv, TypeOK
    <3>4. call' \in [Callers -> [pc : {"idle", "lookup", "create", "take"},
                                queue : Queues \cup {None}, lim : Creators \cup {None}]]
      <4>1. call' = [call EXCEPT ![c].lim = c, ![c].pc = "take"] /\ c \in Creators
        BY <1>1, <2>1
      <4>2. QED
        BY <4>1, Typed
    <3>5. QED
      BY <3>1, <3>2, <3>3, <3>4 DEF TypeOK
  <2>3. Held'
    <3> SUFFICES ASSUME NEW d \in Callers
                 PROVE  /\ call'[d].pc # "idle" => call'[d].queue \in Queues
                        /\ call'[d].pc = "take" => /\ call'[d].lim \in Creators
                                                   /\ call'[d].lim = limiters'[call'[d].queue]
      BY DEF Held
    <3>1. CASE d = c
      BY <3>1, <2>1, <1>1 DEF IInv, TypeOK
    <3>2. CASE d # c
      BY <3>2, <2>1, <1>1, <1>3, LimiterAssumption DEF IInv, TypeOK, Held, Creators
    <3>3. QED
      BY <3>1, <3>2
  <2>4. Ledger'
    <3> SUFFICES ASSUME NEW r \in Queues, NEW n \in 0..Window
                 PROVE  IF limiters'[r] = None THEN passed'[r][n] = 0
                        ELSE Balanced(bucket'[r][limiters'[r]], passed'[r][n], r, n)
      BY DEF Ledger, Balanced
    <3>1. CASE r = q
      <4>1. limiters'[r] = c /\ bucket'[r][c] = NewLimiter(q) /\ passed'[r][n] = 0
        BY <3>1, <2>1, <1>1, <1>3 DEF IInv, TypeOK, Ledger
      <4>2. QED
        BY <4>1, <3>1, <1>1, FreshBalanced
    <3>2. CASE r # q
      BY <3>2, <2>1, <1>1 DEF IInv, TypeOK, Ledger
    <3>3. QED
      BY <3>1, <3>2
  <2>5. QED
    BY <2>2, <2>3, <2>4 DEF IInv
<1>4. CASE limiters[q] # None
  <2>1. /\ limiters' = limiters /\ bucket' = bucket /\ passed' = passed
        /\ call' = [call EXCEPT ![c].lim = limiters[q], ![c].pc = "take"]
    BY <1>1, <1>4 DEF Create, IInv, TypeOK
  <2>2. limiters[q] \in Creators
    BY <1>1, <1>4 DEF IInv, TypeOK
  <2>3. TypeOK'
    BY <1>1, <2>1, <2>2 DEF IInv, TypeOK
  <2>4. Held'
    BY <1>1, <2>1, <2>2 DEF IInv, TypeOK, Held
  <2>5. Ledger'
    BY <2>1 DEF IInv, Ledger
  <2>6. QED
    BY <2>3, <2>4, <2>5 DEF IInv
<1>5. QED
  BY <1>3, <1>4

(* An admission takes a token from the books, a refusal only refills.      *)
LEMMA TakeInv ==
  ASSUME IInv, NEW c \in Callers, Take(c)
  PROVE  IInv'
<1> DEFINE q == call[c].queue
           l == call[c].lim
           b == bucket[q][l]
           tokens == Refill(q, b)
           yes == tokens >= Unit
           rest == IF yes THEN tokens - Unit ELSE tokens
<1>1. q \in Queues /\ l \in Creators /\ l = limiters[q] /\ l # None
  BY LimiterAssumption DEF IInv, Held, Take, Creators
<1>2. b \in [tokens : Nat, age : 0..MaxAge] /\ b.tokens <= Burst[q] * Unit
  BY <1>1 DEF IInv, TypeOK
<1>3. tokens \in Nat /\ tokens <= Burst[q] * Unit
  BY <1>1, <1>2, RefillType
<1>4. rest \in Nat /\ rest <= Burst[q] * Unit
  <2> HIDE DEF tokens
  <2>1. QED
    BY <1>1, <1>3, Constants
<1>5. /\ bucket' = [bucket EXCEPT ![q][l] = [tokens |-> rest, age |-> 0]]
      /\ passed' = [passed EXCEPT ![q] =
           [n \in 0..Window |-> IF yes THEN passed[q][n] + 1 ELSE passed[q][n]]]
      /\ call' = [call EXCEPT ![c] = Idle]
      /\ limiters' = limiters
  BY <1>1 DEF Take, IInv, TypeOK
<1> HIDE DEF tokens, rest
<1>6. TypeOK'
  <2>1. bucket' \in [Queues -> [Creators -> [tokens : Nat, age : 0..MaxAge]]]
    BY <1>1, <1>4, <1>5, LimiterAssumption DEF IInv, TypeOK
  <2>2. \A r \in Queues, d \in Creators : bucket'[r][d].tokens <= Burst[r] * Unit
    BY <1>1, <1>4, <1>5 DEF IInv, TypeOK
  <2>3. passed' \in [Queues -> [0..Window -> Nat]]
    <3> DEFINE row == [n \in 0..Window |-> IF yes THEN passed[q][n] + 1 ELSE passed[q][n]]
    <3>1. passed \in [Queues -> [0..Window -> Nat]]
      BY DEF IInv, TypeOK
    <3>2. row \in [0..Window -> Nat]
      <4>1. \A n \in 0..Window : passed[q][n] \in Nat /\ passed[q][n] + 1 \in Nat
        <5>1. passed[q] \in [0..Window -> Nat]
          BY <3>1, <1>1
        <5> DEFINE f == passed[q]
        <5>2. f \in [0..Window -> Nat]
          BY <5>1
        <5> HIDE DEF f
        <5>3. \A n \in 0..Window : f[n] \in Nat /\ f[n] + 1 \in Nat
          BY <5>2
        <5>4. QED
          BY <5>3 DEF f
      <4> HIDE DEF q, yes
      <4>2. QED
        BY <4>1
    <3>3. passed' = [passed EXCEPT ![q] = row]
      BY <1>5
    <3> HIDE DEF row
    <3>4. QED
      BY <3>1, <3>2, <3>3
  <2>4. call' \in [Callers -> [pc : {"idle", "lookup", "create", "take"},
                              queue : Queues \cup {None}, lim : Creators \cup {None}]]
    BY <1>5 DEF IInv, TypeOK, Idle
  <2>5. limiters' \in [Queues -> Creators \cup {None}]
    BY <1>5 DEF IInv, TypeOK
  <2>6. QED
    BY <2>1, <2>2, <2>3, <2>4, <2>5 DEF TypeOK
<1>7. Held'
  BY <1>5 DEF IInv, TypeOK, Held, Idle
<1>8. Ledger'
  <2> SUFFICES ASSUME NEW r \in Queues, NEW n \in 0..Window
               PROVE  IF limiters'[r] = None THEN passed'[r][n] = 0
                      ELSE Balanced(bucket'[r][limiters'[r]], passed'[r][n], r, n)
    BY DEF Ledger, Balanced
  <2>1. CASE r # q
    BY <2>1, <1>1, <1>5 DEF IInv, TypeOK, Ledger
  <2>2. CASE r = q
    <3> DEFINE p == passed[q][n]
    <3>1. p \in Nat /\ n \in Nat /\ p * Unit \in Nat /\ n * Rate[q] \in Nat
      <4>1. passed \in [Queues -> [0..Window -> Nat]]
        BY DEF IInv, TypeOK
      <4>2. p \in Nat /\ n \in Nat
        <5> HIDE DEF q
        <5>1. QED
          BY <4>1, <1>1, LimiterAssumption
      <4>3. Unit \in Nat /\ Rate[q] \in Nat
        BY <1>1, Constants
      <4> HIDE DEF p
      <4>4. QED
        BY <4>2, <4>3
    <3>2. Balanced(b, p, q, n)
      BY <1>1 DEF IInv, Ledger
    <3>3. p * Unit + tokens <= Burst[q] * Unit + n * Rate[q]
      BY <1>1, <1>2, <3>1, <3>2, RefillBalanced DEF tokens
    <3>4. (p + 1) * Unit = p * Unit + Unit
      BY <3>1, Constants, <1>1
    <3>5. passed'[q][n] = IF yes THEN p + 1 ELSE p
      BY <1>1, <1>5 DEF IInv, TypeOK
    <3>6. bucket'[q][l] = [tokens |-> rest, age |-> 0]
      BY <1>1, <1>5 DEF IInv, TypeOK
    <3>7. passed'[q][n] * Unit + rest <= Burst[q] * Unit + n * Rate[q]
      <4> HIDE DEF p
      <4>1. CASE yes
        <5>1. passed'[q][n] * Unit = p * Unit + Unit /\ rest = tokens - Unit
          BY <4>1, <3>4, <3>5 DEF rest
        <5>2. QED
          BY <5>1, <3>1, <3>3, <1>1, <1>3, Constants
      <4>2. CASE ~yes
        <5>1. passed'[q][n] = p /\ rest = tokens
          BY <4>2, <3>5 DEF rest
        <5>2. QED
          BY <5>1, <3>3
      <4>3. QED
        BY <4>1, <4>2
    <3>8. Balanced(bucket'[q][l], passed'[q][n], q, n)
      <4>1. ~(n < 0) /\ n - 0 = n
        BY <3>1
      <4>2. QED
        BY <3>6, <3>7, <4>1 DEF Balanced
    <3>9. QED
      BY <3>8, <2>2, <1>1, <1>5
  <2>3. QED
    BY <2>1, <2>2
<1>9. QED
  BY <1>6, <1>7, <1>8 DEF IInv

(* A tick shifts the windows and ages the buckets by the same amount; a    *)
(* saturated age only makes the books more careful.                        *)
LEMMA TickInv ==
  ASSUME IInv, Tick
  PROVE  IInv'
<1>1. TypeOK'
  <2>1. ASSUME NEW r \in Queues, NEW d \in Creators
        PROVE  /\ bucket'[r][d] \in [tokens : Nat, age : 0..MaxAge]
               /\ bucket'[r][d].tokens = bucket[r][d].tokens
    <3> DEFINE b == bucket[r][d]
    <3>1. b \in [tokens : Nat, age : 0..MaxAge]
      BY Typed
    <3>2. bucket'[r][d] = [b EXCEPT !.age = IF @ < MaxAge THEN @ + 1 ELSE @]
      BY DEF Tick
    <3> HIDE DEF b
    <3>3. [b EXCEPT !.age = IF @ < MaxAge THEN @ + 1 ELSE @]
            \in [tokens : Nat, age : 0..MaxAge]
      BY <3>1, Bounds
    <3>4. [b EXCEPT !.age = IF @ < MaxAge THEN @ + 1 ELSE @].tokens = b.tokens
      BY <3>1
    <3>5. QED
      BY <3>2, <3>3, <3>4 DEF b
  <2>2. bucket' \in [Queues -> [Creators -> [tokens : Nat, age : 0..MaxAge]]]
    <3> DEFINE aged(r, d) == [bucket[r][d] EXCEPT !.age = IF @ < MaxAge THEN @ + 1 ELSE @]
    <3>1. bucket' = [r \in Queues |-> [d \in Creators |-> aged(r, d)]]
      BY DEF Tick
    <3>2. \A r \in Queues, d \in Creators : aged(r, d) \in [tokens : Nat, age : 0..MaxAge]
      BY <3>1, <2>1
    <3> HIDE DEF aged
    <3>3. QED
      BY <3>1, <3>2
  <2>3. \A r \in Queues, d \in Creators : bucket'[r][d].tokens <= Burst[r] * Unit
    BY <2>1 DEF IInv, TypeOK
  <2>4. passed' \in [Queues -> [0..Window -> Nat]]
    <3>1. passed' = [r \in Queues |-> [n \in 0..Window |-> IF n = 0 THEN 0 ELSE passed[r][n - 1]]]
      BY DEF Tick
    <3>2. \A n \in 0..Window : n # 0 => n - 1 \in 0..Window
      BY Bounds
    <3>3. QED
      BY <3>1, <3>2, Typed
  <2>5. UNCHANGED <<limiters, call>>
    BY DEF Tick
  <2>6. QED
    BY <2>2, <2>3, <2>4, <2>5, Typed DEF TypeOK
<1>2. Held'
  BY DEF IInv, Held, Tick
<1>3. Ledger'
  <2> SUFFICES ASSUME NEW q \in Queues, NEW n \in 0..Window
               PROVE  IF limiters'[q] = None THEN passed'[q][n] = 0
                      ELSE Balanced(bucket'[q][limiters'[q]], passed'[q][n], q, n)
    BY DEF Ledger, Balanced
  <2>1. limiters' = limiters
    BY DEF Tick
  <2>2. passed'[q][n] = IF n = 0 THEN 0 ELSE passed[q][n - 1]
    BY DEF Tick
  <2>3. n # 0 => n - 1 \in 0..Window
    BY LimiterAssumption
  <2>4. CASE limiters[q] = None
    BY <2>1, <2>2, <2>3, <2>4 DEF IInv, Ledger
  <2>5. CASE limiters[q] # None
    <3> DEFINE l == limiters[q]
               b == bucket[q][l]
               d == bucket'[q][l]
    <3>1. l \in Creators
      BY <2>5 DEF IInv, TypeOK
    <3>2. b \in [tokens : Nat, age : 0..MaxAge] /\ b.tokens <= Burst[q] * Unit
      BY <3>1 DEF IInv, TypeOK
    <3>3. d = [b EXCEPT !.age = IF @ < MaxAge THEN @ + 1 ELSE @]
      BY <3>1 DEF Tick
    <3>4. d.tokens = b.tokens /\ d.age = IF b.age < MaxAge THEN b.age + 1 ELSE b.age
      BY <3>2, <3>3
    <3>5. b.tokens \in Nat /\ b.age \in Nat /\ d.age \in Nat /\ n \in Nat
      BY <3>2, <3>4, LimiterAssumption
    <3> HIDE DEF b, d, l
    <3>6. CASE n < d.age
      <4>1. passed'[q][n] = 0
        <5>1. CASE n = 0
          BY <5>1, <2>2
        <5>2. CASE n # 0
          <6>1. n - 1 < b.age
            BY <3>4, <3>5, <3>6
          <6>2. passed[q][n - 1] = 0
            BY <6>1, <5>2, <2>3, <2>5 DEF IInv, Ledger, Balanced, b, l
          <6>3. QED
            BY <6>2, <5>2, <2>2
        <5>3. QED
          BY <5>1, <5>2
      <4>2. QED
        BY <4>1, <3>6, <2>1, <2>5 DEF Balanced, d, l
    <3>7. CASE ~(n < d.age)
      <4> DEFINE p == passed'[q][n]
      <4>1. (n - d.age) * Rate[q] \in Nat /\ Burst[q] * Unit \in Nat
        <5>1. n - d.age \in Nat
          BY <3>5, <3>7
        <5>2. QED
          BY <5>1, Constants
      <4>2. p * Unit + b.tokens <= Burst[q] * Unit + (n - d.age) * Rate[q]
        <5>1. CASE n = 0
          <6>1. p = 0 /\ 0 * Unit = 0
            BY <5>1, <2>2, Constants
          <6>2. QED
            BY <6>1, <4>1, <3>2, <3>5
        <5>2. CASE n # 0 /\ n - 1 < b.age
          <6>1. p = 0 /\ 0 * Unit = 0
            BY <5>2, <2>2, <2>3, <2>5, Constants DEF IInv, Ledger, Balanced, b, l
          <6>2. QED
            BY <6>1, <4>1, <3>2, <3>5
        <5>3. CASE n # 0 /\ ~(n - 1 < b.age)
          <6>1. p = passed[q][n - 1]
            BY <5>3, <2>2
          <6>2. p * Unit + b.tokens <= Burst[q] * Unit + ((n - 1) - b.age) * Rate[q]
            BY <6>1, <5>3, <2>3, <2>5 DEF IInv, Ledger, Balanced, b, l
          <6>3. (n - 1) - b.age \in Nat /\ n - d.age \in Nat /\ (n - 1) - b.age <= n - d.age
            BY <5>3, <3>4, <3>5, <3>7
          <6>4. /\ ((n - 1) - b.age) * Rate[q] <= (n - d.age) * Rate[q]
                /\ ((n - 1) - b.age) * Rate[q] \in Nat
            BY <6>3, Grows, Constants
          <6>5. p \in Nat /\ p * Unit \in Nat
            <7>1. n - 1 \in 0..Window
              BY <2>3, <5>3
            <7>2. p \in Nat
              BY <6>1, <7>1, Typed
            <7> HIDE DEF p
            <7>3. QED
              BY <7>2, Constants
          <6>6. QED
            BY <6>2, <6>4, <6>5, <4>1, <3>5
        <5>4. QED
          BY <5>1, <5>2, <5>3
      <4>3. QED
        BY <4>2, <3>4, <3>7, <2>1, <2>5 DEF Balanced, d, l
    <3>8. QED
      BY <3>6, <3>7
  <2>6. QED
    BY <2>4, <2>5
<1>4. QED
  BY <1>1, <1>2, <1>3 DEF IInv

(* Every step keeps the inductive invariant.                               *)
LEMMA StepInv == IInv /\ [Next]_vars => IInv'
<1> SUFFICES ASSUME IInv, [Next]_vars PROVE IInv'
  OBVIOUS
<1>1. CASE UNCHANGED vars
  BY <1>1 DEF vars, IInv, TypeOK, Held, Ledger
<1>2. ASSUME NEW c \in Callers, NEW q \in Queues, Submit(c, q) PROVE IInv'
  BY <1>2, SubmitInv
<1>3. ASSUME NEW c \in Callers, Lookup(c) PROVE IInv'
  BY <1>3, LookupInv
<1>4. ASSUME NEW c \in Callers, Create(c) PROVE IInv'
  BY <1>4, CreateInv
<1>5. ASSUME NEW c \in Callers, Take(c) PROVE IInv'
  BY <1>5, TakeInv
<1>6. CASE Tick
  BY <1>6, TickInv
<1>7. QED
  BY <1>1, <1>2, <1>3, <1>4, <1>5, <1>6 DEF Next

(* The books imply the bound.                                              *)
LEMMA BooksBound == IInv => RateBounded
<1> SUFFICES ASSUME IInv, NEW q \in Queues, NEW n \in 0..Window
             PROVE  passed[q][n] * Unit <= Burst[q] * Unit + n * Rate[q]
  BY DEF RateBounded
<1> DEFINE p == passed[q][n]
<1>1. p \in Nat /\ n \in Nat /\ p * Unit \in Nat /\ n * Rate[q] \in Nat /\ Burst[q] * Unit \in Nat
  BY Constants, LimiterAssumption DEF IInv, TypeOK
<1>2. CASE limiters[q] = None
  <2>1. p = 0 /\ 0 * Unit = 0
    BY <1>2, Constants DEF IInv, Ledger
  <2>2. QED
    BY <2>1, <1>1
<1>3. CASE limiters[q] # None
  <2> DEFINE b == bucket[q][limiters[q]]
  <2>1. b \in [tokens : Nat, age : 0..MaxAge] /\ b.tokens <= Burst[q] * Unit /\ Balanced(b, p, q, n)
    BY <1>3 DEF IInv, TypeOK, Ledger
  <2>2. p * Unit + Refill(q, b) <= Burst[q] * Unit + n * Rate[q] /\ Refill(q, b) \in Nat
    BY <2>1, <1>1, RefillBalanced, RefillType
  <2>3. QED
    BY <2>2, <1>1
<1>4. QED
  BY <1>2, <1>3

(* The types hold, and so does the bound of the token bucket: in any       *)
(* window of n ticks at most Burst + n * Rate submissions of a queue pass, *)
(* for any number of concurrent callers of MultiQueueLimiter.Allow.        *)
THEOREM LimiterSafe == Spec => [](TypeOK /\ RateBounded)
<1>1. Init => IInv
  BY InitInv
<1>2. IInv /\ [Next]_vars => IInv'
  BY StepInv
<1>3. IInv => TypeOK /\ RateBounded
  BY BooksBound DEF IInv
<1>4. QED
  BY <1>1, <1>2, <1>3, PTL DEF Spec

(* No bucket exceeds its burst, however long its queue was idle, and every *)
(* call of Allow holds a limiter that some caller created.                 *)
THEOREM LimiterTypes == Spec => []TypeOK
  BY LimiterSafe, PTL
=============================================================================

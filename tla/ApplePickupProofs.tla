-------------------------- MODULE ApplePickupProofs --------------------------
(***************************************************************************)
(* Proofs about ApplePickup, for any SKUs, stores, targets and catalogues. *)
(*                                                                         *)
(* The rotation: how many questions a store has waited is bounded by its   *)
(* distance from the cursor that the next question of the sequence uses,   *)
(* which is the process's or the saved one, and a cycle for every turn     *)
(* that it may have lost.  The events: what a row says of a store is what  *)
(* that store last said, and the SKUs and scopes in the table are those    *)
(* that were ever observed.                                                *)
(***************************************************************************)
EXTENDS ApplePickup, FunctionTheorems, FiniteSetTheorems, TLAPS

(* In a finite set of numbers there is one with i - 1 others before it. *)
LEMMA Ranked ==
  ASSUME NEW T \in SUBSET Nat, IsFiniteSet(T), NEW i \in 1 .. Cardinality(T)
  PROVE  \E s \in T : Cardinality({x \in T : x < s}) = i - 1
  <1> DEFINE n == Cardinality(T)
             Before(s) == {x \in T : x < s}
             f == [s \in T |-> Cardinality(Before(s)) + 1]
  <1>1. n \in Nat
    BY FS_CardinalityType
  <1>2. ASSUME NEW s \in T
        PROVE  IsFiniteSet(Before(s)) /\ Cardinality(Before(s)) \in 0 .. n - 1
    <2>1. Before(s) \in SUBSET T /\ Before(s) # T
      OBVIOUS
    <2> HIDE DEF Before
    <2> DEFINE B == Before(s)
    <2>2. IsFiniteSet(B) /\ Cardinality(B) <= n /\ Cardinality(B) # n
      <3> HIDE DEF B, n
      <3> QED
        BY <2>1, FS_Subset DEF B, n
    <2> QED
      BY <1>1, <2>2, FS_CardinalityType
  <1>3. ASSUME NEW s \in T, NEW t \in T, s < t
        PROVE  Cardinality(Before(s)) < Cardinality(Before(t))
    <2>1. Before(s) \in SUBSET Before(t) /\ s \in Before(t) /\ s \notin Before(s)
      <3>1. s \in Nat /\ t \in Nat /\ \A x \in T : x \in Nat
        OBVIOUS
      <3>2. \A x \in T : x < s => x < t
        BY <1>3, <3>1
      <3>3. ~(s < s)
        BY <3>1
      <3> QED
        BY <1>3, <3>2, <3>3
    <2>2. IsFiniteSet(Before(t)) /\ Cardinality(Before(t)) \in Nat /\ Cardinality(Before(s)) \in Nat
      BY <1>2
    <2> HIDE DEF Before
    <2>3. Cardinality(Before(s)) <= Cardinality(Before(t)) /\ Cardinality(Before(s)) # Cardinality(Before(t))
      BY <2>1, <2>2, FS_Subset
    <2> QED
      BY <2>2, <2>3
  <1>4. f \in [T -> 1 .. n]
    BY <1>1, <1>2
  <1>5. \A s, t \in T : f[s] = f[t] => s = t
    <2>1. ASSUME NEW s \in T, NEW t \in T, s # t
          PROVE  f[s] # f[t]
      <3>1. s < t \/ t < s
        BY <2>1
      <3>2. /\ f[s] = Cardinality(Before(s)) + 1 /\ f[t] = Cardinality(Before(t)) + 1
            /\ Cardinality(Before(s)) \in Nat /\ Cardinality(Before(t)) \in Nat
        BY <1>2
      <3>3. Cardinality(Before(s)) < Cardinality(Before(t)) \/ Cardinality(Before(t)) < Cardinality(Before(s))
        BY <1>3, <3>1
      <3> HIDE DEF f, Before
      <3> QED
        BY <3>2, <3>3
    <2> HIDE DEF f
    <2> QED
      BY <2>1
  <1>6. f \in Injection(T, 1 .. n)
    <2> HIDE DEF f
    <2> QED
      BY <1>4, <1>5 DEF Injection, IsInjective
  <1>7. IsFiniteSet(1 .. n) /\ Cardinality(1 .. n) = n
    BY <1>1, FS_Interval
  <1>8. f \in Surjection(T, 1 .. n)
    <2> HIDE DEF f, n
    <2> QED
      BY <1>6, <1>7, FS_Injection DEF n
  <1>9. PICK s \in T : f[s] = i
    BY <1>8 DEF Surjection
  <1>10. Cardinality(Before(s)) = i - 1
    <2>1. f[s] = Cardinality(Before(s)) + 1
      OBVIOUS
    <2>2. Cardinality(Before(s)) \in 0 .. n - 1
      BY <1>2
    <2> HIDE DEF f, Before
    <2> QED
      BY <1>1, <1>9, <2>1, <2>2
  <1> QED
    BY <1>10, Zenon
(* The stores of a configuration, in turn: each of them comes, and nothing   *)
(* else.                                                                    *)
LEMMA StoresTyped ==
  ASSUME NEW config \in Configs
  PROVE  /\ Asked(config) \subseteq Store
         /\ Len(Stores(config)) \in Nat \ {0}
         /\ Len(Stores(config)) = Cardinality(Asked(config))
         /\ \A j \in 1 .. Len(Stores(config)) : Stores(config)[j] \in Asked(config)
         /\ \A s \in Asked(config) : \E j \in 1 .. Len(Stores(config)) : Stores(config)[j] = s
  <1> DEFINE A == Asked(config)
             n == Cardinality(A)
             Of(i) == CHOOSE s \in A : Cardinality({x \in A : x < s}) = i - 1
             st == [i \in 1 .. n |-> Of(i)]
  <1>1. A \in SUBSET Store /\ A # {} /\ A \in SUBSET Nat
    <2>1. config \in [Sku -> SUBSET Store] /\ \E k \in Sku : config[k] # {}
      BY AppleAssumption
    <2>2. A \subseteq Store
      BY <2>1 DEF Asked
    <2>3. A # {}
      BY <2>1 DEF Asked
    <2> QED
      BY <2>2, <2>3, AppleAssumption
  <1>2. IsFiniteSet(A) /\ n \in Nat /\ n # 0
    <2> HIDE DEF A
    <2> QED
      BY <1>1, AppleAssumption, FS_Subset, FS_CardinalityType, FS_EmptySet
  <1>3. ASSUME NEW i \in 1 .. n
        PROVE  Of(i) \in A /\ Cardinality({x \in A : x < Of(i)}) = i - 1
    <2> HIDE DEF A
    <2>1. \E s \in A : Cardinality({x \in A : x < s}) = i - 1
      BY <1>1, <1>2, Ranked
    <2> QED
      BY <2>1
  <1>4. Stores(config) = st
    BY DEF Stores
  <1> HIDE DEF Of
  <1>5. st \in Seq(A) /\ Len(st) = n /\ \A j \in 1 .. n : st[j] = Of(j) /\ st[j] \in A
    <2> HIDE DEF A, n
    <2>1. \A j \in 1 .. n : Of(j) \in A
      BY <1>3
    <2>2. st \in [1 .. n -> A] /\ \A j \in 1 .. n : st[j] = Of(j)
      BY <2>1
    <2> HIDE DEF st
    <2>3. st \in Seq(A) /\ Len(st) = n
      BY <1>2, <2>2
    <2> QED
      BY <2>1, <2>2, <2>3
  <1>6. ASSUME NEW i \in 1 .. n, NEW j \in 1 .. n, st[i] = st[j]
        PROVE  i = j
    <2>1. Of(i) = Of(j)
      BY <1>5, <1>6
    <2>2. i - 1 = j - 1
      BY <1>3, <2>1
    <2> QED
      BY <1>2, <2>2
  <1>7. st \in Injection(1 .. n, A)
    <2>1. st \in [1 .. n -> A]
      BY <1>3
    <2> HIDE DEF st
    <2> QED
      BY <1>6, <2>1 DEF Injection, IsInjective
  <1>8. Cardinality(1 .. n) = n /\ IsFiniteSet(1 .. n)
    BY <1>2, FS_Interval
  <1>9. st \in Surjection(1 .. n, A)
    <2> HIDE DEF st, A
    <2> QED
      BY <1>2, <1>7, <1>8, FS_Injection
  <1>10. \A s \in A : \E j \in 1 .. n : st[j] = s
    <2> HIDE DEF st
    <2> QED
      BY <1>9 DEF Surjection
  <1> HIDE DEF st, A, n
  <1>11. Len(Stores(config)) = n /\ Asked(config) = A
    BY <1>4, <1>5 DEF A
  <1> QED
    BY <1>1, <1>2, <1>4, <1>5, <1>10, <1>11 DEF n


-----------------------------------------------------------------------------
(* The rotation. *)

LEMMA Remainder ==
  \A n \in Nat \ {0} : \A q \in Nat : \A r \in 0 .. n - 1 : (n * q + r) % n = r
  OBVIOUS

(* The next place in a cycle of n. *)
LEMMA NextPlace ==
  ASSUME NEW n \in Nat \ {0}, NEW c \in Nat
  PROVE  /\ c % n \in 0 .. n - 1
         /\ (c + 1) % n = IF c % n = n - 1 THEN 0 ELSE (c % n) + 1
  <1> DEFINE q == c \div n
             r == c % n
  <1>1. c = n * q + r
    BY Z3
  <1>2. r \in 0 .. n - 1
    OBVIOUS
  <1>3. q \in Nat
    BY Z3
  <1> HIDE DEF q, r
  <1>4. CASE r = n - 1
    <2>1. c + 1 = n * (q + 1) + 0
      BY <1>1, <1>2, <1>3, <1>4
    <2>2. (n * (q + 1) + 0) % n = 0
      BY <1>3, Remainder
    <2> QED
      BY <1>2, <1>4, <2>1, <2>2 DEF r
  <1>5. CASE r # n - 1
    <2>1. c + 1 = n * q + (r + 1) /\ r + 1 \in 0 .. n - 1
      BY <1>1, <1>2, <1>3, <1>5
    <2>2. (n * q + (r + 1)) % n = r + 1
      BY <1>3, <2>1, Remainder
    <2> QED
      BY <1>2, <1>5, <2>1, <2>2 DEF r
  <1> QED
    BY <1>4, <1>5

(* A lost turn is worth a whole cycle. *)
LEMMA Cycles ==
  ASSUME NEW n \in Nat, NEW l \in Nat
  PROVE  n * l \in Nat /\ n * (l + 1) = n * l + n /\ n * (1 + l) = n * l + n
  OBVIOUS

(* How many questions ago store j of n was asked at most, when the next     *)
(* question goes to the store after p others, and no turn was lost.         *)
Age(p, j, n) == IF j <= p THEN p - j ELSE p - j + n

(* Every turn that was lost may have cost a cycle. *)
Turn(ages, losses, st, c) ==
  \A j \in 1 .. Len(st) :
    ages[st[j]] <= Age(c % Len(st), j, Len(st)) + Len(st) * losses[st[j]]

LEMMA TurnFresh ==
  ASSUME NEW st, Len(st) \in Nat \ {0}, NEW c \in Nat, NEW ages, NEW losses,
         \A j \in 1 .. Len(st) : ages[st[j]] = 0 /\ losses[st[j]] \in Nat
  PROVE  Turn(ages, losses, st, c)
  <1> SUFFICES ASSUME NEW j \in 1 .. Len(st)
               PROVE  ages[st[j]] <= Age(c % Len(st), j, Len(st)) + Len(st) * losses[st[j]]
    BY DEF Turn
  <1>1. c % Len(st) \in 0 .. Len(st) - 1
    BY NextPlace
  <1>2. Len(st) * losses[st[j]] \in Nat
    BY Cycles
  <1>3. Age(c % Len(st), j, Len(st)) \in Nat
    BY <1>1 DEF Age
  <1> QED
    BY <1>2, <1>3

LEMMA TurnBound ==
  ASSUME NEW st, Len(st) \in Nat \ {0}, NEW c \in Nat, NEW ages, NEW losses,
         Turn(ages, losses, st, c), NEW j \in 1 .. Len(st),
         ages[st[j]] \in Nat, losses[st[j]] \in Nat
  PROVE  ages[st[j]] < Len(st) * (1 + losses[st[j]])
  <1> DEFINE product == Len(st) * losses[st[j]]
             age == Age(c % Len(st), j, Len(st))
  <1>1. c % Len(st) \in 0 .. Len(st) - 1
    BY NextPlace
  <1>2. product \in Nat /\ Len(st) * (1 + losses[st[j]]) = product + Len(st)
    BY Cycles
  <1>3. age \in Nat /\ age < Len(st)
    BY <1>1 DEF Age
  <1>4. ages[st[j]] <= age + product
    BY DEF Turn
  <1> HIDE DEF product, age
  <1> QED
    BY <1>2, <1>3, <1>4

(* The cursor moves on: the store whose turn it is was asked or has lost its *)
(* turn; another one has waited once more, or lost a turn as well.          *)
LEMMA TurnMoves ==
  ASSUME NEW st, Len(st) \in Nat \ {0}, NEW c \in Nat, NEW ages, NEW losses,
         Turn(ages, losses, st, c),
         \A j \in 1 .. Len(st) : ages[st[j]] \in Nat /\ losses[st[j]] \in Nat,
         NEW ages2, NEW losses2,
         \A j \in 1 .. Len(st) :
           \/ ages2[st[j]] = 0 /\ losses2[st[j]] \in Nat
           \/ ages2[st[j]] \in {ages[st[j]], ages[st[j]] + 1} /\ losses2[st[j]] = losses[st[j]] + 1
           \/ /\ ages2[st[j]] \in {ages[st[j]], ages[st[j]] + 1} /\ losses2[st[j]] = losses[st[j]]
              /\ st[j] # st[1 + (c % Len(st))]
  PROVE  Turn(ages2, losses2, st, c + 1)
  <1> DEFINE n == Len(st)
             p == c % n
             q == (c + 1) % n
  <1>1. p \in 0 .. n - 1 /\ q = IF p = n - 1 THEN 0 ELSE p + 1
    BY NextPlace
  <1> SUFFICES ASSUME NEW j \in 1 .. n
               PROVE  ages2[st[j]] <= Age(q, j, n) + n * losses2[st[j]]
    BY DEF Turn
  <1> DEFINE a == ages[st[j]]
             l == losses[st[j]]
             a2 == ages2[st[j]]
             l2 == losses2[st[j]]
             age == Age(p, j, n)
             age2 == Age(q, j, n)
  <1>2. a <= age + n * l /\ a \in Nat /\ l \in Nat
    BY DEF Turn
  <1>3. \/ a2 = 0 /\ l2 \in Nat
        \/ a2 \in {a, a + 1} /\ l2 = l + 1
        \/ a2 \in {a, a + 1} /\ l2 = l /\ st[j] # st[1 + p]
    OBVIOUS
  <1>4. n \in Nat \ {0} /\ j \in 1 .. n
    OBVIOUS
  <1> HIDE DEF p, q, n, a, l, a2, l2
  <1>5. q \in 0 .. n - 1
    BY <1>1, <1>4
  <1>6. age \in 0 .. n - 1 /\ age2 \in 0 .. n - 1
    BY <1>1, <1>4, <1>5 DEF Age
  <1>7. j # 1 + p => age2 = age + 1
    BY <1>1, <1>4 DEF Age
  <1> HIDE DEF age, age2
  <1>8. ASSUME a2 = 0, l2 \in Nat
        PROVE  a2 <= age2 + n * l2
    <2>1. n * l2 \in Nat
      BY <1>4, <1>8, Cycles
    <2> QED
      BY <1>6, <1>8, <2>1
  <1>9. ASSUME a2 \in {a, a + 1}, l2 = l + 1
        PROVE  a2 <= age2 + n * l2
    <2> DEFINE product == n * l
    <2>1. product \in Nat /\ n * l2 = product + n /\ a <= age + product
      BY <1>2, <1>4, <1>9, Cycles
    <2> HIDE DEF product
    <2>2. a2 <= age2 + (product + n)
      BY <1>2, <1>4, <1>6, <1>9, <2>1
    <2> QED
      BY <2>1, <2>2
  <1>10. ASSUME a2 \in {a, a + 1}, l2 = l, st[j] # st[1 + p]
         PROVE  a2 <= age2 + n * l2
    <2> DEFINE product == n * l
    <2>1. product \in Nat /\ n * l2 = product /\ a <= age + product
      BY <1>2, <1>4, <1>10, Cycles
    <2>2. j # 1 + p
      BY <1>10
    <2> HIDE DEF product
    <2>3. a2 <= age2 + product
      BY <1>2, <1>6, <1>7, <1>10, <2>1, <2>2
    <2> QED
      BY <2>1, <2>3
  <1>11. a2 <= age2 + n * l2
    BY <1>3, <1>8, <1>9, <1>10
  <1> QED
    BY <1>11 DEF a2, l2, age2


-----------------------------------------------------------------------------
(* The invariant. *)

Kinds == {"script", "monitor", "configure", "refresh", "launch"}
Places == {"idle", "claim", "asking", "answered", "polled", "ingest", "events"}
Fields == {"kind", "pc", "targets", "cursor", "store", "status", "answer", "shown"}

ProcTyped ==
  /\ DOMAIN proc = Fields
  /\ proc.kind \in Kinds /\ proc.pc \in Places
  /\ proc.pc # "idle" => proc.targets \in Configs
  /\ proc.cursor \in Nat
  /\ proc.shown \subseteq Sku
  /\ \A k \in DOMAIN proc.answer : proc.answer[k] \in Availability

SettingsTyped == targets \in served /\ served \subseteq Configs

Types ==
  /\ ProcTyped
  /\ SettingsTyped
  /\ saved \in Nat \cup {None}
  /\ passed \in [Store -> Nat] /\ lost \in [Store -> Nat]

(* A launch that sleeps has settings. *)
LaunchTyped ==
  /\ DOMAIN launch = {"state", "targets", "wake", "deadline"}
  /\ launch.state = "asleep" => launch.targets \in Configs

(* The place in the rotation that the next question of the sequence takes;   *)
(* what a script has saved is its successor's.                               *)
Cursor ==
  IF proc.pc = "idle" \/ proc.kind = "refresh" \/ (Script /\ proc.pc \in {"ingest", "events"})
  THEN SavedCursor
  ELSE IF proc.pc = "asking" THEN proc.cursor - 1 ELSE proc.cursor

TurnOK == Turn(passed, lost, Stores(targets), Cursor)

(* The store that a question with settings config goes to at a cursor. *)
InTurn(config, cursor) == Stores(config)[1 + (cursor % Len(Stores(config)))]

(* Events are there only while they are worked on, and the store that is     *)
(* asked is the one before the cursor in the settings of the process.        *)
PlaceOK ==
  /\ proc.kind = "refresh" => proc.pc \in {"ingest", "events"}
  /\ proc.pc # "events" => news = {}
  /\ proc.pc = "asking" =>
       /\ proc.cursor > 0
       /\ proc.store = InTurn(proc.targets, proc.cursor - 1)

RotationInv == Types /\ PlaceOK /\ TurnOK

(* What the row of a SKU says is what each store last said; it carries the   *)
(* scope of the SKU once a catalogue showed it.                              *)
RowOK(k) ==
  IF shelf[k] = None THEN DOMAIN sighted[k] = {}
  ELSE /\ shelf[k] \in Row /\ shelf[k].scope \in {None, Scope[k]}
       /\ DOMAIN sighted[k] \subseteq DOMAIN shelf[k].inv
       /\ \A s \in DOMAIN shelf[k].inv :
            shelf[k].inv[s] = IF s \in DOMAIN sighted[k] THEN sighted[k][s] ELSE "UNKNOWN"

(* The table holds what was ever observed. *)
MetOK == met.skus = KnownRows /\ met.scopes = KnownScopes

BookInv == MetOK /\ \A k \in Sku : RowOK(k)

Inv == RotationInv /\ LaunchTyped /\ BookInv

-----------------------------------------------------------------------------
LEMMA TargetsTyped == SettingsTyped => targets \in Configs
  BY DEF SettingsTyped

LEMMA SavedTyped == saved \in Nat \cup {None} => SavedCursor \in Nat
  BY DEF SavedCursor

LEMMA CursorTyped ==
  ASSUME Types, PlaceOK
  PROVE  Cursor \in Nat
  BY SavedTyped DEF Types, ProcTyped, PlaceOK, Cursor

(* The rotation is as it was, or starts anew. *)
LEMMA TurnKept ==
  ASSUME TurnOK, UNCHANGED <<targets, rotation>>, Cursor' = Cursor
  PROVE  TurnOK'
  <1>1. Stores(targets)' = Stores(targets)
    BY DEF Stores, Asked
  <1> QED
    BY <1>1 DEF TurnOK, rotation

CursorOK == Types /\ PlaceOK => Cursor \in Nat

LEMMA CursorThere == CursorOK
  BY CursorTyped DEF CursorOK

Fresh == passed = [s \in Store |-> 0] /\ lost = [s \in Store |-> 0]

LEMMA FreshAfter ==
  ASSUME FreshRotation
  PROVE  Fresh' /\ passed' \in [Store -> Nat] /\ lost' \in [Store -> Nat]
  BY DEF FreshRotation, Fresh

LEMMA TurnBegins ==
  ASSUME Fresh, Types, PlaceOK
  PROVE  TurnOK
  <1>1. Cursor \in Nat /\ targets \in Configs
    BY CursorTyped, TargetsTyped DEF Types
  <1>2. /\ Len(Stores(targets)) \in Nat \ {0}
        /\ \A j \in 1 .. Len(Stores(targets)) : Stores(targets)[j] \in Store
    BY <1>1, StoresTyped
  <1>3. \A j \in 1 .. Len(Stores(targets)) :
          passed[Stores(targets)[j]] = 0 /\ lost[Stores(targets)[j]] \in Nat
    BY <1>2 DEF Fresh
  <1>4. Turn(passed, lost, Stores(targets), Cursor)
    BY <1>1, <1>2, <1>3, TurnFresh
  <1> QED
    BY <1>4 DEF TurnOK

TurnBeginsOK == Fresh /\ Types /\ PlaceOK => TurnOK

LEMMA TurnBeginsThere == TurnBeginsOK
  BY TurnBegins DEF TurnBeginsOK

LEMMA TurnAnew ==
  ASSUME FreshRotation, Types', PlaceOK'
  PROVE  TurnOK'
  <1>1. TurnBeginsOK'
    BY TurnBeginsThere, PTL
  <1> QED
    BY <1>1, FreshAfter DEF TurnBeginsOK

-----------------------------------------------------------------------------
(* Every step keeps the rotation. *)

LEMMA IdleTyped ==
  /\ DOMAIN Idle = Fields
  /\ Idle.kind = "script" /\ Idle.pc = "idle" /\ Idle.cursor = 0 /\ Idle.shown = {}
  /\ DOMAIN Idle.answer = {}
  BY DEF Idle, Fields

LEMMA TakesOK ==
  ASSUME RotationInv, NEW kind \in Kinds \ {"refresh"}, NEW config \in Configs,
         NEW cursor \in Nat, NEW shown \in SUBSET Sku,
         Takes(kind, config, cursor, shown), SettingsTyped',
         passed' \in [Store -> Nat], lost' \in [Store -> Nat]
  PROVE  Types' /\ PlaceOK' /\ Cursor = SavedCursor /\ Cursor' = cursor
  <1>1. /\ proc.pc = "idle" /\ UNCHANGED <<saved, news>>
        /\ proc' = [Idle EXCEPT !.kind = kind, !.pc = "claim", !.targets = config,
                                !.cursor = cursor, !.shown = shown]
    BY DEF Takes
  <1>2. /\ DOMAIN proc' = Fields
        /\ proc'.kind = kind /\ proc'.pc = "claim" /\ proc'.targets = config
        /\ proc'.cursor = cursor /\ proc'.shown = shown /\ DOMAIN proc'.answer = {}
    BY <1>1, IdleTyped DEF Fields
  <1>3. Types'
    BY <1>1, <1>2 DEF RotationInv, Types, ProcTyped, Places
  <1>4. PlaceOK'
    BY <1>1, <1>2 DEF RotationInv, PlaceOK
  <1>5. Cursor = SavedCursor /\ Cursor' = cursor
    BY <1>1, <1>2 DEF Cursor, Script
  <1> QED
    BY <1>3, <1>4, <1>5

(* A script, or the round of a launch, goes on where the last one left off. *)
LEMMA GoesOnOK ==
  ASSUME RotationInv, NEW kind \in {"script", "launch"}, NEW config \in Configs,
         Takes(kind, config, SavedCursor, {}), UNCHANGED <<settings, rotation>>
  PROVE  RotationInv'
  <1>1. SavedCursor \in Nat /\ kind \in Kinds \ {"refresh"} /\ {} \in SUBSET Sku
    BY SavedTyped DEF RotationInv, Types, Kinds
  <1>2. SettingsTyped' /\ passed' \in [Store -> Nat] /\ lost' \in [Store -> Nat]
    BY DEF RotationInv, Types, SettingsTyped, settings, rotation
  <1>3. Types' /\ PlaceOK' /\ Cursor = SavedCursor /\ Cursor' = SavedCursor
    BY <1>1, <1>2, TakesOK
  <1>4. TurnOK'
    BY <1>3, TurnKept DEF RotationInv, settings
  <1> QED
    BY <1>3, <1>4 DEF RotationInv

LEMMA StartScriptOK ==
  ASSUME RotationInv, StartScript
  PROVE  RotationInv'
  <1>1. PICK config \in served : Takes("script", config, SavedCursor, {})
    BY DEF StartScript
  <1>2. config \in Configs /\ UNCHANGED <<settings, rotation>>
    BY DEF StartScript, RotationInv, Types, SettingsTyped
  <1> QED
    BY <1>1, <1>2, GoesOnOK

LEMMA StartMonitorOK ==
  ASSUME RotationInv, StartMonitor
  PROVE  RotationInv'
  <1>1. PICK config \in served : Takes("monitor", config, 0, {})
    BY DEF StartMonitor
  <1>2. UNCHANGED settings /\ FreshRotation
    BY DEF StartMonitor
  <1>3. config \in Configs /\ SettingsTyped'
    BY <1>2 DEF RotationInv, Types, SettingsTyped, settings
  <1>4. 0 \in Nat /\ "monitor" \in Kinds \ {"refresh"} /\ {} \in SUBSET Sku
    BY DEF Kinds
  <1>5. Types' /\ PlaceOK'
    BY <1>1, <1>2, <1>3, <1>4, TakesOK, FreshAfter
  <1>6. TurnOK'
    BY <1>2, <1>5, TurnAnew
  <1> QED
    BY <1>5, <1>6 DEF RotationInv

LEMMA ConfigureOK ==
  ASSUME RotationInv, Configure
  PROVE  RotationInv'
  <1>1. PICK shown \in Catalogues : Takes("configure", targets', 0, shown)
    BY DEF Configure
  <1>2. targets' \in Configs /\ served' = served \cup {targets'} /\ FreshRotation
    BY DEF Configure
  <1>3. SettingsTyped'
    BY <1>2 DEF RotationInv, Types, SettingsTyped
  <1>4. "configure" \in Kinds \ {"refresh"} /\ shown \in SUBSET Sku /\ 0 \in Nat
    BY AppleAssumption DEF Kinds
  <1>5. Types' /\ PlaceOK'
    BY <1>1, <1>2, <1>3, <1>4, TakesOK, FreshAfter
  <1>6. TurnOK'
    BY <1>2, <1>5, TurnAnew
  <1> QED
    BY <1>5, <1>6 DEF RotationInv

LEMMA RefreshOK ==
  ASSUME RotationInv, Refresh
  PROVE  RotationInv'
  <1>1. PICK shown \in Catalogues :
           proc' = [Idle EXCEPT !.kind = "refresh", !.pc = "ingest", !.targets = targets, !.shown = shown]
    BY DEF Refresh
  <1>2. proc.pc = "idle" /\ UNCHANGED <<settings, saved, news, rotation>>
    BY DEF Refresh
  <1>3. /\ DOMAIN proc' = Fields
        /\ proc'.kind = "refresh" /\ proc'.pc = "ingest" /\ proc'.targets = targets
        /\ proc'.cursor = 0 /\ proc'.shown = shown /\ DOMAIN proc'.answer = {}
    BY <1>1, IdleTyped DEF Fields
  <1>4. targets \in Configs
    BY TargetsTyped DEF RotationInv, Types
  <1>5. Types'
    BY <1>2, <1>3, <1>4, AppleAssumption
    DEF RotationInv, Types, ProcTyped, SettingsTyped, settings, rotation, Kinds, Places
  <1>6. PlaceOK'
    BY <1>2, <1>3 DEF RotationInv, PlaceOK
  <1>7. Cursor' = Cursor
    BY <1>2, <1>3 DEF Cursor, SavedCursor
  <1>8. TurnOK'
    BY <1>2, <1>7, TurnKept DEF RotationInv, settings
  <1> QED
    BY <1>5, <1>6, <1>8 DEF RotationInv

(* The process moves on with its cursor and its settings. *)
LEMMA MovesOn ==
  ASSUME RotationInv, UNCHANGED <<settings, saved, rotation>>,
         DOMAIN proc' = Fields, proc'.pc \in Places \ {"idle"}, proc.pc # "idle",
         proc'.kind = proc.kind, proc'.targets = proc.targets, proc'.cursor = proc.cursor,
         proc'.shown \subseteq Sku,
         \A k \in DOMAIN proc'.answer : proc'.answer[k] \in Availability,
         proc'.pc # "asking", proc'.pc # "events" => news' = {},
         proc.kind = "refresh" => proc'.pc = "events",
         Cursor' = Cursor
  PROVE  RotationInv'
  <1>1. Types'
    BY DEF RotationInv, Types, ProcTyped, SettingsTyped, settings, rotation
  <1>2. PlaceOK'
    BY DEF PlaceOK
  <1>3. TurnOK'
    BY TurnKept DEF RotationInv, settings
  <1> QED
    BY <1>1, <1>2, <1>3 DEF RotationInv

LEMMA ClaimOK ==
  ASSUME RotationInv, Claim
  PROVE  RotationInv'
  <1>1. proc.pc = "claim" /\ UNCHANGED <<settings, saved, news, rotation>>
    BY DEF Claim
  <1>2. ProcTyped /\ PlaceOK /\ proc.kind # "refresh" /\ news = {}
    BY <1>1 DEF RotationInv, Types, PlaceOK
  <1>3. CASE proc' = [proc EXCEPT !.pc = "asking", !.cursor = @ + 1,
               !.store = Stores(proc.targets)[1 + (proc.cursor % Len(Stores(proc.targets)))]]
    <2> DEFINE at == InTurn(proc.targets, proc.cursor)
    <2>1. /\ DOMAIN proc' = Fields
          /\ proc'.kind = proc.kind /\ proc'.pc = "asking" /\ proc'.targets = proc.targets
          /\ proc'.cursor = proc.cursor + 1 /\ proc'.store = at
          /\ proc'.answer = proc.answer /\ proc'.shown = proc.shown
      <3>1. proc' = [proc EXCEPT !.pc = "asking", !.cursor = @ + 1, !.store = at]
        BY <1>3 DEF InTurn
      <3> HIDE DEF at
      <3> QED
        BY <1>2, <3>1 DEF ProcTyped, Fields
    <2>2. proc'.cursor \in Nat /\ proc'.cursor > 0 /\ proc'.cursor - 1 = proc.cursor
      BY <1>2, <2>1 DEF ProcTyped
    <2>3. Types'
      <3> HIDE DEF at
      <3> QED
        BY <1>1, <1>2, <2>1, <2>2
        DEF RotationInv, Types, ProcTyped, SettingsTyped, settings, rotation, Places
    <2>4. proc'.store = InTurn(proc'.targets, proc'.cursor - 1)
      BY <2>1, <2>2
    <2>5. PlaceOK'
      <3> HIDE DEF at
      <3> QED
        BY <1>1, <1>2, <2>1, <2>2, <2>4 DEF PlaceOK
    <2>6. Cursor' = Cursor
      <3> HIDE DEF at
      <3> QED
        BY <1>1, <1>2, <2>1, <2>2 DEF Cursor, Script
    <2>7. TurnOK'
      BY <1>1, <2>6, TurnKept DEF RotationInv, settings
    <2> QED
      BY <2>3, <2>5, <2>7 DEF RotationInv
  <1>4. CASE proc' = [proc EXCEPT !.pc = "polled", !.status = "RATE_LIMIT_WAIT"]
    <2>1. /\ DOMAIN proc' = Fields
          /\ proc'.kind = proc.kind /\ proc'.pc = "polled" /\ proc'.targets = proc.targets
          /\ proc'.cursor = proc.cursor /\ proc'.answer = proc.answer /\ proc'.shown = proc.shown
      BY <1>2, <1>4 DEF ProcTyped, Fields
    <2>2. Cursor' = Cursor
      BY <1>1, <1>2, <2>1 DEF Cursor, Script
    <2> QED
      BY <1>1, <1>2, <2>1, <2>2, MovesOn DEF ProcTyped, Places
  <1> QED
    BY <1>3, <1>4 DEF Claim

LEMMA EmptyInventory == <<>> \in [{} -> Availability] /\ DOMAIN <<>> = {}
  OBVIOUS

(* What is heard of a store is an answer about the SKUs asked for there, or  *)
(* nothing.                                                                 *)
LEMMA HeardOK ==
  ASSUME RotationInv, proc.pc = "asking", NEW status, NEW answer,
         \A k \in DOMAIN answer : answer[k] \in Availability,
         Heard(status, answer), passed' \in [Store -> Nat], lost' \in [Store -> Nat]
  PROVE  /\ Types' /\ PlaceOK' /\ UNCHANGED settings
         /\ Cursor = proc.cursor - 1 /\ Cursor' = proc.cursor
  <1>1. /\ proc' = [proc EXCEPT !.pc = "answered", !.status = status, !.answer = answer]
        /\ UNCHANGED <<settings, saved, news>>
    BY DEF Heard
  <1>2. ProcTyped /\ PlaceOK /\ proc.kind # "refresh"
    BY DEF RotationInv, Types, PlaceOK
  <1>3. /\ DOMAIN proc' = Fields
        /\ proc'.kind = proc.kind /\ proc'.pc = "answered" /\ proc'.targets = proc.targets
        /\ proc'.cursor = proc.cursor /\ proc'.answer = answer /\ proc'.shown = proc.shown
    BY <1>1, <1>2 DEF ProcTyped, Fields
  <1>4. Types'
    BY <1>1, <1>2, <1>3 DEF RotationInv, Types, ProcTyped, SettingsTyped, settings, Places
  <1>5. PlaceOK'
    BY <1>1, <1>2, <1>3 DEF PlaceOK
  <1>6. Cursor = proc.cursor - 1 /\ Cursor' = proc.cursor
    BY <1>2, <1>3 DEF Cursor, Script
  <1> QED
    BY <1>1, <1>4, <1>5, <1>6

(* The store that is asked is a store, and the one in turn unless the        *)
(* question comes from other settings.                                      *)
LEMMA AskedInTurn ==
  ASSUME RotationInv, proc.pc = "asking"
  PROVE  /\ targets \in Configs
         /\ proc.cursor - 1 \in Nat /\ (proc.cursor - 1) + 1 = proc.cursor
         /\ ~Foreign => proc.store = InTurn(targets, proc.cursor - 1)
  <1>1. PlaceOK /\ ProcTyped /\ targets \in Configs
    BY TargetsTyped DEF RotationInv, Types
  <1>2. proc.cursor - 1 \in Nat /\ (proc.cursor - 1) + 1 = proc.cursor
    BY <1>1 DEF PlaceOK, ProcTyped
  <1>3. proc.store = InTurn(proc.targets, proc.cursor - 1)
    BY <1>1 DEF PlaceOK
  <1>4. ASSUME ~Foreign PROVE Stores(proc.targets) = Stores(targets)
    <2> DEFINE Ranks(A) == [i \in 1 .. Cardinality(A) |->
                            CHOOSE s \in A : Cardinality({x \in A : x < s}) = i - 1]
    <2>1. Stores(proc.targets) = Ranks(Asked(proc.targets)) /\ Stores(targets) = Ranks(Asked(targets))
      BY DEF Stores
    <2>2. Asked(proc.targets) = Asked(targets)
      BY <1>4 DEF Foreign
    <2> HIDE DEF Ranks
    <2> QED
      BY <2>1, <2>2
  <1> QED
    BY <1>1, <1>2, <1>3, <1>4 DEF InTurn

(* The cursor has moved on: the store in turn was asked, or has lost its     *)
(* turn; the others have waited once more, or have lost a turn as well.     *)
LEMMA CursorMoved ==
  ASSUME RotationInv, proc.pc = "asking", Types', PlaceOK', UNCHANGED settings,
         Cursor = proc.cursor - 1, Cursor' = proc.cursor,
         \A s \in Store :
           \/ passed'[s] = 0 /\ lost'[s] \in Nat
           \/ passed'[s] \in {passed[s], passed[s] + 1} /\ lost'[s] = lost[s] + 1
           \/ /\ passed'[s] \in {passed[s], passed[s] + 1} /\ lost'[s] = lost[s]
              /\ ~Foreign /\ s # proc.store
  PROVE  RotationInv'
  <1> DEFINE st == Stores(targets)
             c == proc.cursor - 1
  <1>1. /\ targets \in Configs /\ c \in Nat /\ c + 1 = proc.cursor
        /\ ~Foreign => proc.store = st[1 + (c % Len(st))]
    BY AskedInTurn DEF InTurn
  <1>2. /\ Len(st) \in Nat \ {0}
        /\ \A j \in 1 .. Len(st) : st[j] \in Store
    BY <1>1, StoresTyped
  <1>3. Turn(passed, lost, st, c)
    BY DEF RotationInv, TurnOK
  <1>4. passed \in [Store -> Nat] /\ lost \in [Store -> Nat]
    BY DEF RotationInv, Types
  <1>5. st' = st
    BY DEF Stores, Asked, settings
  <1> HIDE DEF st, c
  <1>6. \A j \in 1 .. Len(st) : passed[st[j]] \in Nat /\ lost[st[j]] \in Nat
    BY <1>2, <1>4
  <1>7. \A j \in 1 .. Len(st) :
          \/ passed'[st[j]] = 0 /\ lost'[st[j]] \in Nat
          \/ passed'[st[j]] \in {passed[st[j]], passed[st[j]] + 1} /\ lost'[st[j]] = lost[st[j]] + 1
          \/ /\ passed'[st[j]] \in {passed[st[j]], passed[st[j]] + 1} /\ lost'[st[j]] = lost[st[j]]
             /\ st[j] # st[1 + (c % Len(st))]
    BY <1>1, <1>2
  <1>8. Turn(passed', lost', st, c + 1)
    BY <1>1, <1>2, <1>3, <1>6, <1>7, TurnMoves
  <1>9. Turn(passed', lost', st', Cursor')
    BY <1>1, <1>5, <1>8
  <1>10. TurnOK'
    BY <1>9 DEF TurnOK, st
  <1> QED
    BY <1>10 DEF RotationInv

LEMMA HearsOK ==
  ASSUME RotationInv, Hears
  PROVE  RotationInv'
  <1>1. /\ proc.pc = "asking"
        /\ passed' = [s \in Store |-> IF s = proc.store THEN 0 ELSE passed[s] + 1]
        /\ lost' = [s \in Store |-> IF s = proc.store THEN 0
                                    ELSE IF Foreign THEN lost[s] + 1 ELSE lost[s]]
    BY DEF Hears
  <1>2. PICK status, answer : Heard(status, answer) /\ \A k \in DOMAIN answer : answer[k] \in Availability
    <2>1. CASE \E answer \in [Batch(proc.store) -> Availability] : Heard("OBSERVED", answer)
      BY <2>1
    <2>2. CASE Heard("HTTP_BLOCKED", <<>>) \/ Heard("NETWORK_ERROR", <<>>)
      BY <2>2, EmptyInventory
    <2> QED
      BY <2>1, <2>2 DEF Hears
  <1>3. passed \in [Store -> Nat] /\ lost \in [Store -> Nat]
    BY DEF RotationInv, Types
  <1>4. passed' \in [Store -> Nat] /\ lost' \in [Store -> Nat]
    BY <1>1, <1>3
  <1>5. /\ Types' /\ PlaceOK' /\ UNCHANGED settings
        /\ Cursor = proc.cursor - 1 /\ Cursor' = proc.cursor
    BY <1>1, <1>2, <1>4, HeardOK
  <1>6. \A s \in Store :
          \/ passed'[s] = 0 /\ lost'[s] \in Nat
          \/ passed'[s] \in {passed[s], passed[s] + 1} /\ lost'[s] = lost[s] + 1
          \/ /\ passed'[s] \in {passed[s], passed[s] + 1} /\ lost'[s] = lost[s]
             /\ ~Foreign /\ s # proc.store
    BY <1>1, <1>3
  <1> QED
    BY <1>1, <1>5, <1>6, CursorMoved

LEMMA WindowEndedOK ==
  ASSUME RotationInv, WindowEnded
  PROVE  RotationInv'
  <1>1. /\ proc.pc = "asking" /\ UNCHANGED passed /\ Heard("NETWORK_ERROR", <<>>)
        /\ lost' = [s \in Store |-> IF Foreign \/ s = proc.store THEN lost[s] + 1 ELSE lost[s]]
    BY DEF WindowEnded
  <1>2. passed \in [Store -> Nat] /\ lost \in [Store -> Nat]
    BY DEF RotationInv, Types
  <1>3. passed' \in [Store -> Nat] /\ lost' \in [Store -> Nat]
    BY <1>1, <1>2
  <1>4. /\ Types' /\ PlaceOK' /\ UNCHANGED settings
        /\ Cursor = proc.cursor - 1 /\ Cursor' = proc.cursor
    BY <1>1, <1>3, EmptyInventory, HeardOK
  <1>5. \A s \in Store :
          \/ passed'[s] = 0 /\ lost'[s] \in Nat
          \/ passed'[s] \in {passed[s], passed[s] + 1} /\ lost'[s] = lost[s] + 1
          \/ /\ passed'[s] \in {passed[s], passed[s] + 1} /\ lost'[s] = lost[s]
             /\ ~Foreign /\ s # proc.store
    BY <1>1, <1>2
  <1> QED
    BY <1>1, <1>4, <1>5, CursorMoved

LEMMA ReportOK ==
  ASSUME RotationInv, Report
  PROVE  RotationInv'
  <1>1. proc.pc = "answered" /\ UNCHANGED <<settings, saved, news, rotation>>
    BY DEF Report
  <1>2. ProcTyped /\ PlaceOK /\ proc.kind # "refresh"
    BY <1>1 DEF RotationInv, Types, PlaceOK
  <1>3. \/ proc' = [proc EXCEPT !.pc = "polled"]
        \/ proc' = [proc EXCEPT !.pc = "polled", !.status = "RATE_PROBE_EXPIRED", !.answer = <<>>]
    BY DEF Report
  <1>4. /\ DOMAIN proc' = Fields
        /\ proc'.kind = proc.kind /\ proc'.pc = "polled" /\ proc'.targets = proc.targets
        /\ proc'.cursor = proc.cursor /\ proc'.shown = proc.shown
        /\ proc'.answer \in {proc.answer, <<>>}
    BY <1>2, <1>3 DEF ProcTyped, Fields
  <1>5. \A k \in DOMAIN proc'.answer : proc'.answer[k] \in Availability
    BY <1>2, <1>4, EmptyInventory DEF ProcTyped
  <1>6. Cursor' = Cursor
    BY <1>1, <1>2, <1>4 DEF Cursor, Script
  <1> QED
    BY <1>1, <1>2, <1>4, <1>5, <1>6, MovesOn DEF ProcTyped, PlaceOK, Places

LEMMA SaveCursorOK ==
  ASSUME RotationInv, SaveCursor
  PROVE  RotationInv'
  <1>1. /\ proc.pc = "polled" /\ Script /\ saved' = proc.cursor
        /\ UNCHANGED <<settings, news, rotation>>
    BY DEF SaveCursor
  <1>2. ProcTyped /\ PlaceOK /\ proc.cursor \in Nat /\ news = {}
    BY <1>1 DEF RotationInv, Types, PlaceOK, ProcTyped
  <1>3. Cursor = proc.cursor /\ SavedCursor' = proc.cursor
    BY <1>1, <1>2, AppleAssumption DEF Cursor, SavedCursor, Script
  <1>4. \/ proc' = [proc EXCEPT !.pc = "ingest"]
        \/ proc' = Idle
    BY DEF SaveCursor
  <1>5. CASE proc' = [proc EXCEPT !.pc = "ingest"]
    <2>1. /\ DOMAIN proc' = Fields
          /\ proc'.kind = proc.kind /\ proc'.pc = "ingest" /\ proc'.targets = proc.targets
          /\ proc'.cursor = proc.cursor /\ proc'.answer = proc.answer /\ proc'.shown = proc.shown
      BY <1>2, <1>5 DEF ProcTyped, Fields
    <2>2. Types'
      BY <1>1, <1>2, <2>1
      DEF RotationInv, Types, ProcTyped, SettingsTyped, settings, rotation, Places
    <2>3. PlaceOK'
      BY <1>1, <1>2, <2>1 DEF PlaceOK
    <2>4. Cursor' = SavedCursor'
      BY <1>1, <2>1 DEF Cursor, Script
    <2>5. TurnOK'
      BY <1>1, <1>3, <2>4, TurnKept DEF RotationInv, settings
    <2> QED
      BY <2>2, <2>3, <2>5 DEF RotationInv
  <1>6. CASE proc' = Idle
    <2>1. Types'
      BY <1>1, <1>2, <1>6, IdleTyped
      DEF RotationInv, Types, ProcTyped, SettingsTyped, settings, rotation, Kinds, Places
    <2>2. PlaceOK'
      BY <1>1, <1>2, <1>6, IdleTyped DEF PlaceOK
    <2>3. Cursor' = SavedCursor'
      BY <1>6, IdleTyped DEF Cursor
    <2>4. TurnOK'
      BY <1>1, <1>3, <2>3, TurnKept DEF RotationInv, settings
    <2> QED
      BY <2>1, <2>2, <2>4 DEF RotationInv
  <1> QED
    BY <1>4, <1>5, <1>6

LEMMA GoOnOK ==
  ASSUME RotationInv, GoOn
  PROVE  RotationInv'
  <1>1. proc.pc = "polled" /\ ~Script /\ UNCHANGED <<settings, saved, news, rotation>>
    BY DEF GoOn
  <1>2. ProcTyped /\ PlaceOK /\ proc.kind # "refresh"
    BY <1>1 DEF RotationInv, Types, PlaceOK
  <1>3. PICK shown \in IF proc.kind = "monitor" THEN Catalogues \cup {{}} ELSE {proc.shown} :
          proc' = [proc EXCEPT !.pc = "ingest", !.status = None, !.shown = shown]
    BY DEF GoOn
  <1>4. shown \subseteq Sku
    BY <1>2, <1>3, AppleAssumption DEF ProcTyped
  <1>5. /\ DOMAIN proc' = Fields
        /\ proc'.kind = proc.kind /\ proc'.pc = "ingest" /\ proc'.targets = proc.targets
        /\ proc'.cursor = proc.cursor /\ proc'.answer = proc.answer /\ proc'.shown = shown
    BY <1>2, <1>3 DEF ProcTyped, Fields
  <1>6. Cursor' = Cursor
    BY <1>1, <1>2, <1>5 DEF Cursor, Script
  <1> QED
    BY <1>1, <1>2, <1>4, <1>5, <1>6, MovesOn DEF ProcTyped, PlaceOK, Places

LEMMA IngestOK ==
  ASSUME RotationInv, Ingest
  PROVE  RotationInv'
  <1>1. /\ proc.pc = "ingest" /\ UNCHANGED <<settings, saved, rotation>>
        /\ proc' = [Idle EXCEPT !.kind = proc.kind, !.pc = "events", !.targets = proc.targets,
                                !.cursor = proc.cursor]
    BY DEF Ingest
  <1>2. ProcTyped
    BY DEF RotationInv, Types
  <1>3. /\ DOMAIN proc' = Fields
        /\ proc'.kind = proc.kind /\ proc'.pc = "events" /\ proc'.targets = proc.targets
        /\ proc'.cursor = proc.cursor /\ DOMAIN proc'.answer = {} /\ proc'.shown = {}
    BY <1>1, IdleTyped DEF Fields
  <1>4. Cursor' = Cursor
    BY <1>1, <1>3 DEF Cursor, Script, SavedCursor
  <1> QED
    BY <1>1, <1>2, <1>3, <1>4, MovesOn DEF ProcTyped, Places

LEMMA GoesIdle ==
  ASSUME RotationInv, proc' = Idle, news' = {}, UNCHANGED settings,
         saved' \in Nat \cup {None}, passed' \in [Store -> Nat], lost' \in [Store -> Nat]
  PROVE  Types' /\ PlaceOK' /\ Cursor' = SavedCursor'
  <1>1. Types'
    BY IdleTyped DEF RotationInv, Types, ProcTyped, SettingsTyped, settings, Kinds, Places
  <1>2. PlaceOK'
    BY IdleTyped DEF PlaceOK
  <1> QED
    BY <1>1, <1>2, IdleTyped DEF Cursor

LEMMA WorksOnEventsOK ==
  ASSUME RotationInv, WorksOnEvents
  PROVE  RotationInv'
  <1>1. proc.pc = "events" /\ news' = {} /\ UNCHANGED <<settings, saved>>
    BY DEF WorksOnEvents
  <1>2. /\ ProcTyped /\ PlaceOK
        /\ saved \in Nat \cup {None} /\ passed \in [Store -> Nat] /\ lost \in [Store -> Nat]
    BY DEF RotationInv, Types
  <1>3. CASE proc' = Idle /\ proc.kind \in {"monitor", "configure"} /\ FreshRotation
    <2>1. Types' /\ PlaceOK'
      BY <1>1, <1>2, <1>3, FreshAfter, GoesIdle
    <2>2. TurnOK'
      BY <1>3, <2>1, TurnAnew
    <2> QED
      BY <2>1, <2>2 DEF RotationInv
  <1>4. CASE proc' = Idle /\ proc.kind \notin {"monitor", "configure"} /\ UNCHANGED rotation
    <2>1. passed' \in [Store -> Nat] /\ lost' \in [Store -> Nat]
      BY <1>2, <1>4 DEF rotation
    <2>2. Types' /\ PlaceOK' /\ Cursor' = SavedCursor'
      BY <1>1, <1>2, <1>4, <2>1, GoesIdle
    <2>3. Cursor = SavedCursor
      BY <1>1, <1>2, <1>4 DEF Cursor, Script, ProcTyped, Kinds
    <2>4. SavedCursor' = SavedCursor
      BY <1>1 DEF SavedCursor
    <2>5. TurnOK'
      BY <1>1, <1>4, <2>2, <2>3, <2>4, TurnKept DEF RotationInv, settings
    <2> QED
      BY <2>2, <2>5 DEF RotationInv
  <1>5. CASE /\ proc.kind = "monitor"
             /\ proc' = [Idle EXCEPT !.kind = "monitor", !.pc = "claim", !.targets = proc.targets,
                                     !.cursor = proc.cursor]
             /\ UNCHANGED rotation
    <2>1. /\ DOMAIN proc' = Fields
          /\ proc'.kind = proc.kind /\ proc'.pc = "claim" /\ proc'.targets = proc.targets
          /\ proc'.cursor = proc.cursor /\ proc'.shown = {} /\ DOMAIN proc'.answer = {}
      BY <1>5, IdleTyped DEF Fields
    <2>2. Cursor' = Cursor
      BY <1>1, <1>5, <2>1 DEF Cursor, Script
    <2> QED
      BY <1>1, <1>2, <1>5, <2>1, <2>2, MovesOn DEF ProcTyped, Places
  <1> QED
    BY <1>3, <1>4, <1>5 DEF WorksOnEvents

LEMMA DiesOK ==
  ASSUME RotationInv, Dies
  PROVE  RotationInv'
  <1>1. proc' = Idle /\ news' = {} /\ UNCHANGED <<settings, saved>> /\ FreshRotation
    BY DEF Dies
  <1>2. Types' /\ PlaceOK'
    BY <1>1, FreshAfter, GoesIdle DEF RotationInv, Types
  <1>3. TurnOK'
    BY <1>1, <1>2, TurnAnew
  <1> QED
    BY <1>2, <1>3 DEF RotationInv

LEMMA CursorExpiresOK ==
  ASSUME RotationInv, CursorExpires
  PROVE  RotationInv'
  <1>1. saved' = None /\ FreshRotation /\ UNCHANGED <<settings, proc, news>>
    BY DEF CursorExpires
  <1>2. Types' /\ PlaceOK'
    BY <1>1, FreshAfter DEF RotationInv, Types, ProcTyped, SettingsTyped, settings, PlaceOK, InTurn
  <1>3. TurnOK'
    BY <1>1, <1>2, TurnAnew
  <1> QED
    BY <1>2, <1>3 DEF RotationInv

LEMMA RotationStutters ==
  ASSUME RotationInv, UNCHANGED <<settings, saved, proc, news, rotation>>
  PROVE  RotationInv'
  <1>1. Types' /\ PlaceOK'
    BY DEF RotationInv, Types, ProcTyped, SettingsTyped, settings, rotation, PlaceOK, InTurn
  <1>2. Cursor' = Cursor
    BY DEF Cursor, Script, SavedCursor
  <1>3. TurnOK'
    BY <1>2, TurnKept DEF RotationInv, settings
  <1> QED
    BY <1>1, <1>3 DEF RotationInv

LEMMA LaunchRoundOK ==
  ASSUME RotationInv, LaunchTyped, LaunchRound
  PROVE  RotationInv'
  <1>1. launch.targets \in Configs
    BY DEF LaunchRound, LaunchTyped
  <1>2. CASE Takes("launch", launch.targets, SavedCursor, {}) /\ UNCHANGED <<settings, rotation>>
    BY <1>1, <1>2, GoesOnOK
  <1>3. CASE UNCHANGED <<settings, saved, proc, news, rotation>>
    BY <1>3, RotationStutters
  <1> QED
    BY <1>2, <1>3 DEF LaunchRound

LEMMA RotationInit == Init => RotationInv
  <1> SUFFICES ASSUME Init PROVE RotationInv
    OBVIOUS
  <1>1. /\ targets \in Configs /\ served = {targets} /\ saved = None /\ proc = Idle /\ news = {}
        /\ Fresh
    BY DEF Init, Fresh
  <1>2. passed \in [Store -> Nat] /\ lost \in [Store -> Nat]
    BY <1>1 DEF Fresh
  <1>3. Types
    BY <1>1, <1>2, IdleTyped DEF Types, ProcTyped, SettingsTyped, Kinds, Places
  <1>4. PlaceOK
    BY <1>1, IdleTyped DEF PlaceOK
  <1>5. TurnOK
    BY <1>1, <1>3, <1>4, TurnBegins
  <1> QED
    BY <1>3, <1>4, <1>5 DEF RotationInv

LEMMA RotationStep == RotationInv /\ LaunchTyped /\ [Next]_vars => RotationInv'
  <1> SUFFICES ASSUME RotationInv, LaunchTyped, [Next]_vars PROVE RotationInv'
    OBVIOUS
  <1>1. CASE StartScript
    BY <1>1, StartScriptOK
  <1>2. CASE StartMonitor
    BY <1>2, StartMonitorOK
  <1>3. CASE Configure
    BY <1>3, ConfigureOK
  <1>4. CASE Refresh
    BY <1>4, RefreshOK
  <1>5. CASE Claim
    BY <1>5, ClaimOK
  <1>6. CASE Hears
    BY <1>6, HearsOK
  <1>7. CASE WindowEnded
    BY <1>7, WindowEndedOK
  <1>8. CASE Report
    BY <1>8, ReportOK
  <1>9. CASE SaveCursor
    BY <1>9, SaveCursorOK
  <1>10. CASE GoOn
    BY <1>10, GoOnOK
  <1>11. CASE Ingest
    BY <1>11, IngestOK
  <1>12. CASE WorksOnEvents
    BY <1>12, WorksOnEventsOK
  <1>13. CASE LaunchBegins
    BY <1>13, RotationStutters DEF LaunchBegins
  <1>14. CASE LaunchRound
    BY <1>14, LaunchRoundOK
  <1>15. CASE Dies
    BY <1>15, DiesOK
  <1>16. CASE CursorExpires
    BY <1>16, CursorExpiresOK
  <1>17. CASE Tick
    BY <1>17, RotationStutters DEF Tick
  <1>18. CASE UNCHANGED vars
    BY <1>18, RotationStutters DEF vars
  <1> QED
    BY <1>1, <1>2, <1>3, <1>4, <1>5, <1>6, <1>7, <1>8, <1>9, <1>10, <1>11, <1>12,
       <1>13, <1>14, <1>15, <1>16, <1>17, <1>18 DEF Next, Work

(* A launch keeps the settings that it has read at its start. *)
LaunchMoves ==
  \/ UNCHANGED launch
  \/ launch' = Over
  \/ \E target : launch' = [launch EXCEPT !.wake = target]

LEMMA RoundsMove ==
  ASSUME NEW blocked, EndRound(blocked)
  PROVE  LaunchMoves
  <1>1. CASE UNCHANGED launch
    BY <1>1 DEF LaunchMoves
  <1>2. CASE EndLaunchRound(blocked)
    BY <1>2 DEF EndLaunchRound, Sleep, LaunchMoves
  <1> QED
    BY <1>1, <1>2 DEF EndRound

LEMMA LaunchKept ==
  ASSUME LaunchTyped, LaunchMoves
  PROVE  LaunchTyped'
  <1>1. CASE UNCHANGED launch
    BY <1>1 DEF LaunchTyped
  <1>2. CASE launch' = Over
    <2>1. DOMAIN launch' = {"state", "targets", "wake", "deadline"} /\ launch'.state = "over"
      BY <1>2 DEF Over, NoLaunch
    <2> QED
      BY <2>1 DEF LaunchTyped
  <1>3. CASE \E target : launch' = [launch EXCEPT !.wake = target]
    <2>1. PICK target : launch' = [launch EXCEPT !.wake = target]
      BY <1>3
    <2>2. DOMAIN launch' = DOMAIN launch /\ launch'.state = launch.state /\ launch'.targets = launch.targets
      BY <2>1 DEF LaunchTyped
    <2> QED
      BY <2>2 DEF LaunchTyped
  <1> QED
    BY <1>1, <1>2, <1>3 DEF LaunchMoves

LEMMA LaunchStep == RotationInv /\ LaunchTyped /\ [Next]_vars => LaunchTyped'
  <1> SUFFICES ASSUME RotationInv, LaunchTyped, [Next]_vars PROVE LaunchTyped'
    OBVIOUS
  <1>1. CASE LaunchBegins
    <2>1. PICK start \in {now - 1, now} \cap Nat :
            launch' = [state |-> "asleep", targets |-> targets, wake |-> start,
                       deadline |-> start + Window]
      BY <1>1 DEF LaunchBegins
    <2>2. targets \in Configs
      BY TargetsTyped DEF RotationInv, Types
    <2> QED
      BY <2>1, <2>2 DEF LaunchTyped
  <1>2. CASE ~LaunchBegins
    <2> SUFFICES LaunchMoves
      BY LaunchKept
    <2>1. CASE SaveCursor
      BY <2>1, RoundsMove DEF SaveCursor, LaunchMoves
    <2>2. CASE WorksOnEvents
      BY <2>2, RoundsMove DEF WorksOnEvents
    <2>3. CASE LaunchRound
      BY <2>3 DEF LaunchRound, Sleep, LaunchMoves
    <2>4. CASE Dies
      BY <2>4 DEF Dies, LaunchMoves
    <2>5. CASE StartScript \/ StartMonitor \/ Configure \/ Refresh
      BY <2>5 DEF StartScript, StartMonitor, Configure, Refresh, LaunchMoves
    <2>6. CASE Claim \/ Hears \/ WindowEnded \/ Report \/ GoOn \/ Ingest
      BY <2>6 DEF Claim, Hears, WindowEnded, Heard, Report, GoOn, Ingest, LaunchMoves
    <2>7. CASE CursorExpires \/ Tick \/ UNCHANGED vars
      BY <2>7 DEF CursorExpires, Tick, vars, LaunchMoves
    <2> QED
      BY <1>2, <2>1, <2>2, <2>3, <2>4, <2>5, <2>6, <2>7 DEF Next, Work
  <1> QED
    BY <1>1, <1>2

(* No store of the settings waits for more questions than there are stores,  *)
(* whatever the answers and whoever asks them, but for as many more as often *)
(* as it may have lost its turn: it has waited no longer than its distance   *)
(* from the cursor, which every question moves on by one, and a cycle for    *)
(* every turn that was lost to the window of a launch, or to a question that *)
(* moved the same cursor with other settings.                               *)
THEOREM StoresTurn == Spec => []StoresTakeTurns
  <1>1. RotationInv => StoresTakeTurns
    <2> SUFFICES ASSUME RotationInv, NEW s \in Asked(targets)
                 PROVE  passed[s] < Cardinality(Asked(targets)) * (1 + lost[s])
      BY DEF StoresTakeTurns
    <2>1. /\ targets \in Configs /\ passed \in [Store -> Nat] /\ lost \in [Store -> Nat]
          /\ Turn(passed, lost, Stores(targets), Cursor)
      BY TargetsTyped DEF RotationInv, Types, TurnOK
    <2>2. Cursor \in Nat
      BY CursorTyped DEF RotationInv
    <2>3. /\ Len(Stores(targets)) \in Nat \ {0}
          /\ Len(Stores(targets)) = Cardinality(Asked(targets))
          /\ s \in Store
      BY <2>1, StoresTyped
    <2>4. PICK j \in 1 .. Len(Stores(targets)) : Stores(targets)[j] = s
      BY <2>1, StoresTyped
    <2>5. passed[s] \in Nat /\ lost[s] \in Nat
      BY <2>1, <2>3
    <2>6. passed[s] < Len(Stores(targets)) * (1 + lost[s])
      BY <2>1, <2>2, <2>3, <2>4, <2>5, TurnBound
    <2> QED
      BY <2>3, <2>6
  <1>2. Init => RotationInv /\ LaunchTyped
    BY RotationInit DEF Init, NoLaunch, LaunchTyped
  <1>3. RotationInv /\ LaunchTyped /\ [Next]_vars => (RotationInv /\ LaunchTyped)'
    BY RotationStep, LaunchStep
  <1> QED
    BY <1>1, <1>2, <1>3, PTL DEF Spec

-----------------------------------------------------------------------------
(* The rows.  Only Ingest changes them, and what was seen. *)

Quiet == UNCHANGED <<shelf, sighted, met>> /\ news' \in {news, {}}

LEMMA OthersAreQuiet == [Next]_vars => Ingest \/ Quiet
  <1> SUFFICES ASSUME [Next]_vars PROVE Ingest \/ Quiet
    OBVIOUS
  <1>1. CASE StartScript \/ StartMonitor \/ Configure \/ Refresh
    BY <1>1 DEF StartScript, StartMonitor, Configure, Refresh, Takes, Quiet
  <1>2. CASE Claim
    BY <1>2 DEF Claim, Quiet
  <1>3. CASE Hears \/ WindowEnded
    BY <1>3 DEF Hears, WindowEnded, Heard, Quiet
  <1>4. CASE Report
    BY <1>4 DEF Report, Quiet
  <1>5. CASE SaveCursor \/ GoOn
    BY <1>5 DEF SaveCursor, GoOn, Quiet
  <1>6. CASE WorksOnEvents
    BY <1>6 DEF WorksOnEvents, Quiet
  <1>7. CASE LaunchBegins \/ LaunchRound
    BY <1>7 DEF LaunchBegins, LaunchRound, Takes, Quiet
  <1>8. CASE Dies \/ CursorExpires \/ Tick
    BY <1>8 DEF Dies, CursorExpires, Tick, Quiet
  <1>9. CASE UNCHANGED vars
    BY <1>9 DEF vars, Quiet
  <1> QED
    BY <1>1, <1>2, <1>3, <1>4, <1>5, <1>6, <1>7, <1>8, <1>9 DEF Next, Work

LEMMA RowMade ==
  ASSUME NEW inv, NEW scope \in {Scope[k] : k \in Sku} \cup {None},
         NEW S \in SUBSET Store, inv \in [S -> Availability]
  PROVE  [inv |-> inv, scope |-> scope] \in Row
  BY DEF Row

LEMMA RowFields ==
  ASSUME NEW r \in Row
  PROVE  /\ r.inv \in [DOMAIN r.inv -> Availability] /\ DOMAIN r.inv \subseteq Store
         /\ r.scope \in {Scope[k] : k \in Sku} \cup {None}
  BY DEF Row

LEMMA ToldTyped ==
  ASSUME ProcTyped, NEW k, NEW store
  PROVE  Told(k, store) \in Availability
  BY DEF ProcTyped, Told, Availability

(* What the row of k says of its stores, before and after a scan. *)
LEMMA InventoryTyped ==
  ASSUME RotationInv, proc.pc = "ingest", NEW k \in Sku, RowOK(k)
  PROVE  \E S \in SUBSET Store : Inventory(k) \in [S -> Availability]
  <1> DEFINE old == IF shelf[k] = None THEN <<>> ELSE shelf[k].inv
  <1>1. /\ old \in [DOMAIN old -> Availability] /\ DOMAIN old \in SUBSET Store
    BY EmptyInventory, RowFields DEF RowOK
  <1>2. Polled(k) => proc.targets[k] \in SUBSET Store
    BY AppleAssumption DEF RotationInv, Types, ProcTyped
  <1>3. \A store : Told(k, store) \in Availability
    BY ToldTyped DEF RotationInv, Types
  <1> DEFINE S == proc.targets[k]
  <1>4. Inventory(k) = IF ~Polled(k) THEN old
          ELSE [store \in S |->
                  IF store \in DOMAIN old THEN Kept(old[store], Told(k, store)) ELSE Told(k, store)]
    BY DEF Inventory
  <1> HIDE DEF old, S
  <1>5. CASE ~Polled(k)
    BY <1>1, <1>4, <1>5
  <1>6. CASE Polled(k)
    <2>1. \A store \in DOMAIN old : Kept(old[store], Told(k, store)) \in Availability
      BY <1>1, <1>3 DEF Kept
    <2>2. Inventory(k) \in [S -> Availability]
      BY <1>3, <1>4, <1>6, <2>1
    <2> QED
      BY <1>2, <1>6, <2>2 DEF S
  <1> QED
    BY <1>5, <1>6

LEMMA ScopeMerged ==
  ASSUME NEW k \in Sku, RowOK(k)
  PROVE  MergedScope(k) \in {None, Scope[k]}
  BY DEF MergedScope, RowOK

LEMMA NewRowTyped ==
  ASSUME RotationInv, proc.pc = "ingest", NEW k \in Sku, RowOK(k)
  PROVE  NewRow(k) \in Row /\ NewRow(k) # None
  <1>1. PICK S \in SUBSET Store : Inventory(k) \in [S -> Availability]
    BY InventoryTyped
  <1>2. MergedScope(k) \in {Scope[j] : j \in Sku} \cup {None}
    BY ScopeMerged
  <1>3. NewRow(k) \in Row
    BY <1>1, <1>2, RowMade DEF NewRow
  <1> QED
    BY <1>3, AppleAssumption

(* A scan changes what is said of a store and what was heard of it alike. *)
LEMMA ScanKeepsRow ==
  ASSUME NEW k \in Sku, RowOK(k)
  PROVE  /\ DOMAIN Sighted(k) \subseteq DOMAIN Inventory(k)
         /\ \A s \in DOMAIN Inventory(k) :
              Inventory(k)[s] = IF s \in DOMAIN Sighted(k) THEN Sighted(k)[s] ELSE "UNKNOWN"
  <1> DEFINE old == IF shelf[k] = None THEN <<>> ELSE shelf[k].inv
  <1>1. /\ DOMAIN sighted[k] \subseteq DOMAIN old
        /\ \A s \in DOMAIN old :
             old[s] = IF s \in DOMAIN sighted[k] THEN sighted[k][s] ELSE "UNKNOWN"
    BY EmptyInventory DEF RowOK
  <1>2. Inventory(k) = IF ~Polled(k) THEN old
          ELSE [store \in proc.targets[k] |->
                  IF store \in DOMAIN old THEN Kept(old[store], Told(k, store)) ELSE Told(k, store)]
    BY DEF Inventory
  <1> HIDE DEF old
  <1>3. CASE ~Polled(k)
    BY <1>1, <1>2, <1>3 DEF Sighted
  <1>4. CASE Polled(k)
    <2>1. /\ DOMAIN Inventory(k) = proc.targets[k]
          /\ \A s \in proc.targets[k] : Inventory(k)[s] =
               IF s \in DOMAIN old THEN Kept(old[s], Told(k, s)) ELSE Told(k, s)
      BY <1>2, <1>4
    <2>2. /\ DOMAIN Sighted(k) = {x \in proc.targets[k] : x \in DOMAIN sighted[k] \/ Definite(k, x)}
          /\ \A s \in DOMAIN Sighted(k) : Sighted(k)[s] =
               IF Definite(k, s) THEN Told(k, s) ELSE sighted[k][s]
      BY <1>4 DEF Sighted
    <2>3. ASSUME NEW s \in proc.targets[k]
          PROVE  Inventory(k)[s] = IF s \in DOMAIN Sighted(k) THEN Sighted(k)[s] ELSE "UNKNOWN"
      <3>1. CASE Definite(k, s)
        BY <2>1, <2>2, <3>1 DEF Definite, Kept
      <3>2. CASE ~Definite(k, s)
        <4>1. Told(k, s) = "UNKNOWN"
          BY <3>2 DEF Definite
        <4>2. CASE s \in DOMAIN old
          BY <1>1, <2>1, <2>2, <3>2, <4>1, <4>2 DEF Kept
        <4>3. CASE s \notin DOMAIN old
          BY <1>1, <2>1, <2>2, <3>2, <4>1, <4>3
        <4> QED
          BY <4>2, <4>3
      <3> QED
        BY <3>1, <3>2
    <2> QED
      BY <2>1, <2>2, <2>3
  <1> QED
    BY <1>3, <1>4

LEMMA IngestKeepsRow ==
  ASSUME RotationInv, NEW k \in Sku, RowOK(k), Ingest
  PROVE  RowOK(k)'
  <1>1. /\ shelf'[k] = IF k \in Scanned THEN NewRow(k) ELSE shelf[k]
        /\ sighted'[k] = Sighted(k)
    BY DEF Ingest
  <1>2. CASE k \in Scanned
    <2>1. /\ shelf'[k] \in Row /\ shelf'[k] # None
          /\ shelf'[k].inv = Inventory(k) /\ shelf'[k].scope = MergedScope(k)
      BY <1>1, <1>2, NewRowTyped DEF NewRow, Ingest
    <2>2. shelf'[k].scope \in {None, Scope[k]}
      BY <2>1, ScopeMerged
    <2> QED
      BY <1>1, <2>1, <2>2, ScanKeepsRow DEF RowOK
  <1>3. CASE k \notin Scanned
    <2>1. ~Polled(k)
      BY <1>3 DEF Scanned
    <2>2. shelf'[k] = shelf[k] /\ sighted'[k] = sighted[k]
      BY <1>1, <1>3, <2>1 DEF Sighted
    <2> QED
      BY <2>2 DEF RowOK
  <1> QED
    BY <1>2, <1>3

LEMMA IngestMeets ==
  ASSUME RotationInv, BookInv, Ingest
  PROVE  MetOK'
  <1>1. /\ \A k \in Sku : shelf'[k] = IF k \in Scanned THEN NewRow(k) ELSE shelf[k]
        /\ met'.skus = met.skus \cup Scanned
        /\ met'.scopes = met.scopes \cup {Scope[k] : k \in proc.shown}
    BY DEF Ingest
  <1>2. Scanned \subseteq Sku /\ proc.shown \subseteq Scanned
    BY DEF Scanned, RotationInv, Types, ProcTyped
  <1>3. \A k \in Sku : NewRow(k) # None /\ NewRow(k).scope = MergedScope(k)
    BY NewRowTyped DEF NewRow, BookInv, Ingest
  <1>4. KnownRows' = KnownRows \cup Scanned
    BY <1>1, <1>2, <1>3 DEF KnownRows
  <1>5. \A k \in Sku : Scope[k] # None /\ (k \in KnownRows => shelf[k].scope \in {None, Scope[k]})
    BY AppleAssumption DEF BookInv, RowOK, KnownRows
  <1>6. ASSUME NEW x \in KnownScopes'
        PROVE  x \in KnownScopes \/ \E k \in proc.shown : x = Scope[k]
    <2>1. x # None
      BY DEF KnownScopes
    <2>2. PICK k \in KnownRows' : x = shelf'[k].scope
      BY DEF KnownScopes
    <2>3. k \in Sku
      BY DEF KnownRows
    <2>4. CASE k \in Scanned
      <3>1. x = MergedScope(k)
        BY <1>1, <1>3, <2>2, <2>3, <2>4
      <3> QED
        BY <2>1, <2>3, <3>1 DEF MergedScope, KnownScopes, KnownRows
    <2>5. CASE k \notin Scanned
      BY <1>1, <1>4, <2>1, <2>2, <2>3, <2>5 DEF KnownScopes
    <2> QED
      BY <2>4, <2>5
  <1>7. ASSUME NEW x \in KnownScopes
        PROVE  x \in KnownScopes'
    <2>1. PICK k \in KnownRows : x = shelf[k].scope /\ x # None
      BY DEF KnownScopes
    <2>2. k \in Sku /\ shelf[k] # None /\ k \in KnownRows'
      BY <1>4 DEF KnownRows
    <2>3. shelf'[k].scope = x
      <3>1. CASE k \in Scanned
        BY <1>1, <1>3, <1>5, <2>1, <2>2, <3>1 DEF MergedScope
      <3>2. CASE k \notin Scanned
        BY <1>1, <2>1, <2>2, <3>2
      <3> QED
        BY <3>1, <3>2
    <2> QED
      BY <2>1, <2>2, <2>3 DEF KnownScopes
  <1>8. ASSUME NEW k \in proc.shown
        PROVE  Scope[k] \in KnownScopes'
    <2>1. k \in Sku /\ k \in Scanned /\ k \in KnownRows'
      BY <1>2, <1>4
    <2>2. shelf'[k].scope = Scope[k]
      BY <1>1, <1>3, <2>1 DEF MergedScope
    <2> QED
      BY <1>5, <2>1, <2>2 DEF KnownScopes
  <1>9. KnownScopes' = KnownScopes \cup {Scope[k] : k \in proc.shown}
    BY <1>6, <1>7, <1>8
  <1> QED
    BY <1>1, <1>4, <1>9 DEF MetOK, BookInv

LEMMA BookInit == Init => BookInv
  <1> SUFFICES ASSUME Init PROVE BookInv
    OBVIOUS
  <1>1. /\ shelf = [k \in Sku |-> None] /\ sighted = [k \in Sku |-> <<>>]
        /\ met = [skus |-> {}, scopes |-> {}]
    BY DEF Init
  <1>2. \A k \in Sku : RowOK(k)
    BY <1>1, EmptyInventory DEF RowOK
  <1>3. KnownRows = {}
    BY <1>1 DEF KnownRows
  <1>4. KnownScopes = {}
    BY <1>3 DEF KnownScopes
  <1> QED
    BY <1>1, <1>2, <1>3, <1>4 DEF BookInv, MetOK

LEMMA BookStep == Inv /\ [Next]_vars => BookInv'
  <1> SUFFICES ASSUME Inv, [Next]_vars PROVE BookInv'
    OBVIOUS
  <1>1. CASE Ingest
    BY <1>1, IngestKeepsRow, IngestMeets DEF Inv, BookInv
  <1>2. CASE Quiet
    <2>1. UNCHANGED <<shelf, sighted, met>>
      BY <1>2 DEF Quiet
    <2> QED
      BY <2>1 DEF Inv, BookInv, MetOK, RowOK, KnownRows, KnownScopes
  <1> QED
    BY <1>1, <1>2, OthersAreQuiet

LEMMA Invariant == Spec => []Inv
  <1>1. Init => Inv
    BY RotationInit, BookInit DEF Inv, Init, NoLaunch, LaunchTyped
  <1>2. Inv /\ [Next]_vars => Inv'
    BY RotationStep, LaunchStep, BookStep DEF Inv
  <1> QED
    BY <1>1, <1>2, PTL DEF Spec

-----------------------------------------------------------------------------
(* What is announced. *)

LEMMA AnnouncedNow ==
  ASSUME Inv, Ingest, NEW k \in Sku, NEW o \in {"NEW_SKU", "PICKUP_AVAILABLE"}
  PROVE  Announced(k, o) <=> k \in Scanned /\ Eventful(k) /\ o \in Opportunities(k)
  <1>1. /\ news = {}
        /\ news' = {NewEvent(x) : x \in {y \in Scanned : Eventful(y)}}
    BY DEF Inv, RotationInv, PlaceOK, Ingest
  <1>2. \A x : NewEvent(x).sku = x /\ NewEvent(x).opportunities = Opportunities(x)
    BY DEF NewEvent
  <1>3. ASSUME k \in Scanned, Eventful(k), o \in Opportunities(k)
        PROVE  Announced(k, o)
    <2>1. NewEvent(k) \in news'
      BY <1>1, <1>3
    <2> QED
      BY <1>1, <1>2, <1>3, <2>1 DEF Announced
  <1>4. ASSUME Announced(k, o)
        PROVE  k \in Scanned /\ Eventful(k) /\ o \in Opportunities(k)
    <2>1. PICK e \in news' : e.sku = k /\ o \in e.opportunities
      BY <1>4 DEF Announced
    <2>2. PICK x \in Scanned : Eventful(x) /\ e = NewEvent(x)
      BY <1>1, <2>1
    <2>3. x = k
      BY <1>2, <2>1, <2>2
    <2> QED
      BY <1>2, <2>1, <2>2, <2>3
  <1> QED
    BY <1>3, <1>4

LEMMA NothingAnnounced ==
  ASSUME Quiet, NEW k, NEW o
  PROVE  ~Announced(k, o)
  BY DEF Quiet, Announced

(* A store that has it again is a change of the row. *)
LEMMA BackIsEventful ==
  ASSUME NEW k \in Sku, BackInStock(k)
  PROVE  k \in Scanned /\ Eventful(k)
  <1>1. k \in KnownRows /\ Polled(k)
    BY DEF BackInStock
  <1>2. PICK s \in proc.targets[k] \cap DOMAIN shelf[k].inv :
          Told(k, s) = "AVAILABLE" /\ shelf[k].inv[s] = "SOLD_OUT"
    BY DEF BackInStock
  <1>3. shelf[k] # None
    BY <1>1 DEF KnownRows
  <1>4. Inventory(k)[s] = "AVAILABLE"
    BY <1>1, <1>2, <1>3 DEF Inventory, Kept
  <1>5. Inventory(k) # shelf[k].inv
    BY <1>2, <1>4
  <1> QED
    BY <1>1, <1>5 DEF Eventful, Scanned

LEMMA BackWasHeard ==
  ASSUME NEW k \in Sku, RowOK(k), Ingest
  PROVE  BackInStock(k) <=>
           \E s \in DOMAIN sighted[k] \cap DOMAIN sighted'[k] :
             sighted[k][s] = "SOLD_OUT" /\ sighted'[k][s] = "AVAILABLE"
  <1>1. sighted'[k] = Sighted(k)
    BY DEF Ingest
  <1>2. ASSUME BackInStock(k)
        PROVE  \E s \in DOMAIN sighted[k] \cap DOMAIN sighted'[k] :
                 sighted[k][s] = "SOLD_OUT" /\ sighted'[k][s] = "AVAILABLE"
    <2>1. shelf[k] # None /\ Polled(k)
      BY <1>2 DEF BackInStock, KnownRows
    <2>2. PICK s \in proc.targets[k] \cap DOMAIN shelf[k].inv :
            Told(k, s) = "AVAILABLE" /\ shelf[k].inv[s] = "SOLD_OUT"
      BY <1>2 DEF BackInStock
    <2>3. s \in DOMAIN sighted[k] /\ sighted[k][s] = "SOLD_OUT"
      BY <2>1, <2>2 DEF RowOK
    <2>4. Definite(k, s)
      BY <2>2 DEF Definite
    <2>5. s \in DOMAIN Sighted(k) /\ Sighted(k)[s] = "AVAILABLE"
      BY <2>1, <2>2, <2>4 DEF Sighted
    <2> QED
      BY <1>1, <2>3, <2>5
  <1>3. ASSUME NEW s \in DOMAIN sighted[k] \cap DOMAIN sighted'[k],
               sighted[k][s] = "SOLD_OUT", sighted'[k][s] = "AVAILABLE"
        PROVE  BackInStock(k)
    <2>1. Polled(k)
      BY <1>1, <1>3 DEF Sighted
    <2>2. s \in proc.targets[k] /\ Definite(k, s) /\ Told(k, s) = "AVAILABLE"
      BY <1>1, <1>3, <2>1 DEF Sighted
    <2>3. shelf[k] # None /\ s \in DOMAIN shelf[k].inv /\ shelf[k].inv[s] = "SOLD_OUT"
      BY <1>3 DEF RowOK
    <2> QED
      BY <2>1, <2>2, <2>3 DEF BackInStock, KnownRows
  <1> QED
    BY <1>2, <1>3

(* A restock is announced exactly when a store is heard to have a SKU that   *)
(* it was last heard not to have: the row says of every store what it last   *)
(* said, over any number of scans, refusals and processes between the two,   *)
(* as long as no scan left the store out.  A scan with older settings (a     *)
(* launch that sleeps keeps those of its start) leaves out a store that was  *)
(* configured since: its SOLD_OUT is forgotten, and it starts anew.          *)
THEOREM RestocksHeard == Spec => RestocksAreHeard
  <1> DEFINE Right(k) ==
        Announced(k, "PICKUP_AVAILABLE") <=>
          \E store \in DOMAIN sighted[k] \cap DOMAIN sighted'[k] :
            sighted[k][store] = "SOLD_OUT" /\ sighted'[k][store] = "AVAILABLE"
  <1>1. Inv /\ [Next]_vars => \A k \in Sku : Right(k)
    <2> SUFFICES ASSUME Inv, [Next]_vars, NEW k \in Sku PROVE Right(k)
      OBVIOUS
    <2>1. CASE Ingest
      <3>1. RowOK(k)
        BY DEF Inv, BookInv
      <3>2. Announced(k, "PICKUP_AVAILABLE") <=>
              k \in Scanned /\ Eventful(k) /\ "PICKUP_AVAILABLE" \in Opportunities(k)
        BY <2>1, AnnouncedNow
      <3>3. "PICKUP_AVAILABLE" \in Opportunities(k) <=> BackInStock(k)
        BY DEF Opportunities
      <3>4. Announced(k, "PICKUP_AVAILABLE") <=> BackInStock(k)
        BY <3>2, <3>3, BackIsEventful
      <3> QED
        BY <2>1, <3>1, <3>4, BackWasHeard
    <2>2. CASE Quiet
      <3>1. ~Announced(k, "PICKUP_AVAILABLE")
        BY <2>2, NothingAnnounced
      <3>2. sighted'[k] = sighted[k]
        BY <2>2 DEF Quiet
      <3> QED
        BY <3>1, <3>2
    <2> QED
      BY <2>1, <2>2, OthersAreQuiet
  <1>2. Inv /\ [Next]_vars => [\A k \in Sku : Right(k)]_vars
    BY <1>1
  <1> QED
    BY <1>2, Invariant, PTL DEF Spec, RestocksAreHeard

(* A SKU is announced as new exactly when a catalogue of a scope that was    *)
(* read before shows it for the first time: the table holds every SKU and    *)
(* every scope that was ever observed, so it is announced only once.         *)
THEOREM NewSkusAnnounced == Spec => NewSkusAreAnnounced
  <1> DEFINE Right(k) ==
        Announced(k, "NEW_SKU") <=>
          k \in met'.skus \ met.skus /\ k \in proc.shown /\ Scope[k] \in met.scopes
  <1>1. Inv /\ [Next]_vars => \A k \in Sku : Right(k)
    <2> SUFFICES ASSUME Inv, [Next]_vars, NEW k \in Sku PROVE Right(k)
      OBVIOUS
    <2>1. CASE Ingest
      <3>1. Announced(k, "NEW_SKU") <=>
              k \in Scanned /\ Eventful(k) /\ "NEW_SKU" \in Opportunities(k)
        BY <2>1, AnnouncedNow
      <3>2. "NEW_SKU" \in Opportunities(k) <=> k \notin KnownRows /\ ~Silent(k)
        BY DEF Opportunities
      <3>3. k \notin KnownRows /\ ~Silent(k) <=> NewSku(k)
        BY DEF Silent, NewSku
      <3>4. NewSku(k) => k \in Scanned /\ Eventful(k)
        <4>1. KnownRows = {} => KnownScopes = {}
          BY DEF KnownScopes
        <4> QED
          BY <4>1 DEF NewSku, Eventful, Scanned
      <3>5. met.skus = KnownRows /\ met.scopes = KnownScopes /\ met'.skus = met.skus \cup Scanned
        BY <2>1 DEF Inv, BookInv, MetOK, Ingest
      <3>6. proc.shown \subseteq Scanned
        BY DEF Scanned
      <3>7. NewSku(k) <=> k \in met'.skus \ met.skus /\ k \in proc.shown /\ Scope[k] \in met.scopes
        BY <3>5, <3>6 DEF NewSku
      <3> QED
        BY <3>1, <3>2, <3>3, <3>4, <3>7
    <2>2. CASE Quiet
      <3>1. ~Announced(k, "NEW_SKU")
        BY <2>2, NothingAnnounced
      <3>2. met' = met
        BY <2>2 DEF Quiet
      <3> QED
        BY <3>1, <3>2
    <2> QED
      BY <2>1, <2>2, OthersAreQuiet
  <1>2. Inv /\ [Next]_vars => [\A k \in Sku : Right(k)]_vars
    BY <1>1
  <1> QED
    BY <1>2, Invariant, PTL DEF Spec, NewSkusAreAnnounced
=============================================================================

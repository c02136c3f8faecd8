------------------------- MODULE SnapshotStore_proofs -------------------------
(***************************************************************************)
(* What the dicts and files of SnapshotStore hold, for any calls, and any  *)
(* number of crashes and reloads.                                          *)
(*                                                                         *)
(* The types come first (TypeInv).  The second invariant, StoreInv, is why *)
(* a save may return without writing: the file, a write in progress, or    *)
(* the mutation left to a task that is still to write, has what is in      *)
(* memory (Follows).  The third, PromiseInv, follows a snapshot through    *)
(* those three places: an answered one is in each, a deleted one in none.  *)
(* The last two hold until a reload overlaps a task (raced).               *)
(***************************************************************************)
EXTENDS SnapshotStore, SequenceTheorems, TLAPS

-----------------------------------------------------------------------------
(* What the operators on histories do. *)
Distinct(h) == \A i, j \in DOMAIN h : h[i].id = h[j].id => i = j

LEMMA HistoryFacts ==
  ASSUME NEW h \in Histories
  PROVE  /\ h \in Seq(Snapshots) /\ Len(h) \in Nat /\ Len(h) <= Limit
         /\ DOMAIN h = 1..Len(h)
         /\ \A i \in DOMAIN h : h[i] \in Snapshots
         /\ Ids(h) \subseteq Tasks
         /\ h # <<>> => Newest(h) \in Snapshots
<1>1. h \in Seq(Snapshots) /\ Len(h) <= Limit
  BY DEF Histories
<1>2. Len(h) \in Nat /\ DOMAIN h = 1..Len(h)
  BY <1>1, LenProperties
<1>3. \A i \in 1..Len(h) : h[i] \in Snapshots
  BY <1>1, ElementOfSeq
<1>4. h # <<>> => Len(h) \in 1..Len(h)
  BY <1>1, <1>2
<1>5. \A x \in Snapshots : x.id \in Tasks
  BY DEF Snapshots
<1> QED BY <1>1, <1>2, <1>3, <1>4, <1>5 DEF Ids, Newest

LEMMA NoHistory == <<>> \in Histories /\ Ids(<<>>) = {} /\ Distinct(<<>>)
BY StoreAssumption DEF Histories, Ids, Distinct

(* A snapshot is appended, and the oldest dropped from one too many. *)
LEMMA TrimmedFacts ==
  ASSUME NEW h \in Histories, NEW s \in Snapshots
  PROVE  LET n == Trimmed(Append(h, s)) IN
         /\ n \in Histories
         /\ s.id \in Ids(n) /\ Ids(n) \subseteq Ids(h) \union {s.id}
         /\ Distinct(h) /\ s.id \notin Ids(h) => Distinct(n)
<1> DEFINE a == Append(h, s)
           n == Trimmed(a)
           k == Len(a)
<1>1. /\ h \in Seq(Snapshots) /\ Len(h) \in Nat /\ Len(h) <= Limit
      /\ DOMAIN h = 1..Len(h) /\ Limit \in Nat /\ Limit >= 1
  BY HistoryFacts, StoreAssumption
<1>2. /\ a \in Seq(Snapshots) /\ k = Len(h) + 1 /\ DOMAIN a = 1..k
      /\ \A i \in 1..Len(h) : a[i] = h[i]
      /\ a[k] = s
  BY <1>1, AppendProperties, LenProperties
<1> HIDE DEF a
<1>3. Ids(a) = Ids(h) \union {s.id}
  <2>1. \A i \in 1..k : i \in 1..Len(h) \/ i = k
    BY <1>1, <1>2
  <2>2. Ids(a) \subseteq Ids(h) \union {s.id}
    BY <1>1, <1>2, <2>1 DEF Ids
  <2>3. Ids(h) \subseteq Ids(a)
    BY <1>1, <1>2 DEF Ids
  <2>4. k \in DOMAIN a /\ a[k].id = s.id
    BY <1>1, <1>2
  <2>5. s.id \in Ids(a)
    BY <2>4 DEF Ids
  <2> QED BY <2>2, <2>3, <2>5
<1>4. Distinct(h) /\ s.id \notin Ids(h) => Distinct(a)
  <2> SUFFICES ASSUME Distinct(h), s.id \notin Ids(h), NEW i \in 1..k, NEW j \in 1..k,
                      a[i].id = a[j].id
               PROVE  i = j
    BY <1>2 DEF Distinct
  <2>1. \A m \in 1..Len(h) : a[m].id # s.id
    BY <1>1, <1>2 DEF Ids
  <2>2. CASE i \in 1..Len(h) /\ j \in 1..Len(h)
    BY <1>1, <1>2, <2>2 DEF Distinct
  <2>3. CASE i = k \/ j = k
    BY <1>1, <1>2, <2>1, <2>3
  <2> QED BY <1>1, <1>2, <2>2, <2>3
<1>5. CASE k <= Limit
  <2>1. n = a
    BY <1>1, <1>2, <1>5 DEF Trimmed, a
  <2>2. a \in Histories
    BY <1>2, <1>5 DEF Histories
  <2> QED BY <1>3, <1>4, <2>1, <2>2 DEF a
<1>6. CASE k > Limit
  <2>1. n = SubSeq(a, k - Limit + 1, k)
    BY <1>1, <1>2, <1>6 DEF Trimmed, a
  <2>2. k - Limit + 1 \in Int /\ k \in Int /\ \A i \in (k - Limit + 1)..k : i \in 1..k /\ a[i] \in Snapshots
    BY <1>1, <1>2, <1>6, ElementOfSeq
  <2>3. /\ n \in Seq(Snapshots) /\ Len(n) = Limit
        /\ \A i \in 1..Limit : n[i] = a[k - Limit + i]
    <3>1. /\ SubSeq(a, k - Limit + 1, k) \in Seq(Snapshots)
          /\ Len(SubSeq(a, k - Limit + 1, k)) =
               IF k - Limit + 1 <= k THEN k - (k - Limit + 1) + 1 ELSE 0
          /\ \A i \in 1..(k - (k - Limit + 1) + 1) :
               SubSeq(a, k - Limit + 1, k)[i] = a[(k - Limit + 1) + i - 1]
      BY <2>2, SubSeqProperties
    <3>2. k - (k - Limit + 1) + 1 = Limit /\ k - Limit + 1 <= k
          /\ \A i \in 1..Limit : (k - Limit + 1) + i - 1 = k - Limit + i
      BY <1>1, <1>2
    <3> QED BY <2>1, <3>1, <3>2
  <2>4. DOMAIN n = 1..Limit
    BY <2>3, LenProperties
  <2>5. \A i \in 1..Limit : k - Limit + i \in 1..k
    BY <1>1, <1>2, <1>6
  <2> HIDE DEF n, k
  <2>6. n \in Histories
    BY <1>1, <2>3 DEF Histories
  <2>7. Ids(n) \subseteq Ids(a)
    BY <1>2, <2>3, <2>4, <2>5 DEF Ids
  <2>8. Limit \in DOMAIN n /\ n[Limit].id = s.id
    BY <1>1, <1>2, <2>3, <2>4
  <2>9. s.id \in Ids(n)
    BY <2>8 DEF Ids
  <2>10. Distinct(a) => Distinct(n)
    <3> SUFFICES ASSUME Distinct(a), NEW i \in 1..Limit, NEW j \in 1..Limit,
                        n[i].id = n[j].id
                 PROVE  i = j
      BY <2>4 DEF Distinct
    <3>1. k - Limit + i = k - Limit + j
      BY <1>2, <2>3, <2>5 DEF Distinct
    <3> QED BY <1>1, <1>2, <3>1
  <2> QED BY <1>3, <1>4, <2>6, <2>7, <2>9, <2>10 DEF n, a
<1> QED BY <1>1, <1>2, <1>5, <1>6 DEF n, a

(* One snapshot is taken out: the others stay, and it is not in there twice. *)
LEMMA WithoutFacts ==
  ASSUME NEW h \in Histories, NEW i \in DOMAIN h
  PROVE  LET n == Without(h, i) IN
         /\ n \in Histories
         /\ Ids(h) \ {h[i].id} \subseteq Ids(n) /\ Ids(n) \subseteq Ids(h)
         /\ Distinct(h) => Distinct(n) /\ h[i].id \notin Ids(n)
<1> DEFINE k == Len(h)
           a == SubSeq(h, 1, i - 1)
           b == SubSeq(h, i + 1, k)
           n == a \o b
           from(j) == IF j < i THEN j ELSE j + 1
<1>1. /\ h \in Seq(Snapshots) /\ k \in Nat /\ k <= Limit /\ DOMAIN h = 1..k
      /\ i \in 1..k /\ Limit \in Nat
      /\ \A j \in 1..k : h[j] \in Snapshots
  BY HistoryFacts, StoreAssumption
<1>2. a \in Seq(Snapshots) /\ Len(a) = i - 1 /\ \A j \in 1..(i - 1) : a[j] = h[j]
  BY <1>1
<1>3. b \in Seq(Snapshots) /\ Len(b) = k - i /\ \A j \in 1..(k - i) : b[j] = h[j + i]
  BY <1>1
<1>4. Without(h, i) = n
  BY DEF Without, RemoveAt
<1> HIDE DEF a, b
<1>5. /\ n \in Seq(Snapshots) /\ Len(n) = Len(a) + Len(b)
      /\ \A j \in 1..(Len(a) + Len(b)) : n[j] = IF j <= Len(a) THEN a[j] ELSE b[j - Len(a)]
  BY <1>2, <1>3, ConcatProperties
<1> HIDE DEF n, k
<1>6. Len(n) = k - 1 /\ DOMAIN n = 1..(k - 1)
  BY <1>1, <1>2, <1>3, <1>5, LenProperties
<1>7. \A j \in 1..(k - 1) : n[j] = h[from(j)]
  <2>1. \A j \in 1..(k - 1) : n[j] = IF j <= i - 1 THEN a[j] ELSE b[j - (i - 1)]
    BY <1>1, <1>2, <1>3, <1>5
  <2> TAKE j \in 1..(k - 1)
  <2>2. CASE j < i
    <3>1. j \in 1..(i - 1)
      BY <1>1, <2>2
    <3> QED BY <1>1, <1>2, <2>1, <2>2, <3>1
  <2>3. CASE j >= i
    <3>1. j - (i - 1) \in 1..(k - i) /\ (j - (i - 1)) + i = j + 1 /\ ~(j <= i - 1)
      BY <1>1, <2>3
    <3>2. n[j] = b[j - (i - 1)] /\ b[j - (i - 1)] = h[j + 1]
      BY <1>3, <2>1, <3>1
    <3> QED BY <1>1, <2>3, <3>2
  <2> QED BY <1>1, <2>2, <2>3
<1>8. \A j \in 1..(k - 1) : from(j) \in 1..k /\ from(j) # i
  BY <1>1
<1>9. \A j \in 1..k : j = i \/ \E m \in 1..(k - 1) : from(m) = j
  <2> TAKE j \in 1..k
  <2>1. CASE j < i
    BY <1>1, <2>1
  <2>2. CASE j > i
    <3>1. j - 1 \in 1..(k - 1) /\ from(j - 1) = j
      BY <1>1, <2>2
    <3> QED BY <3>1
  <2> QED BY <1>1, <2>1, <2>2
<1>10. \A j, m \in 1..(k - 1) : from(j) = from(m) => j = m
  BY <1>1
<1> HIDE DEF from
<1>11. n \in Histories
  BY <1>1, <1>5, <1>6 DEF Histories
<1>12. Ids(n) \subseteq Ids(h)
  BY <1>1, <1>6, <1>7, <1>8 DEF Ids
<1>13. Ids(h) \ {h[i].id} \subseteq Ids(n)
  <2> SUFFICES ASSUME NEW j \in 1..k, h[j].id # h[i].id PROVE h[j].id \in Ids(n)
    BY <1>1 DEF Ids
  <2>1. PICK m \in 1..(k - 1) : from(m) = j
    BY <1>9
  <2> QED BY <1>6, <1>7, <2>1 DEF Ids
<1>14. Distinct(h) => Distinct(n) /\ h[i].id \notin Ids(n)
  <2>1. Distinct(h) => Distinct(n)
    BY <1>1, <1>6, <1>7, <1>8, <1>10 DEF Distinct
  <2>2. Distinct(h) => \A j \in 1..(k - 1) : n[j].id # h[i].id
    BY <1>1, <1>7, <1>8 DEF Distinct
  <2> QED BY <1>6, <2>1, <2>2 DEF Ids
<1> QED BY <1>4, <1>11, <1>12, <1>13, <1>14 DEF n

-----------------------------------------------------------------------------
(* What saving to a Store does to it, for any contents C. *)
LEMMA PutFacts ==
  ASSUME NEW C, NEW s \in StoreRecords(C), NEW who \in Tasks \union {Setup}, NEW c \in C
  PROVE  /\ Put(s, who, c) \in StoreRecords(C)
         /\ Put(s, who, c).disk = s.disk
         /\ Put(s, who, c).dict = s.dict
         /\ Put(s, who, c).object = s.object
         /\ InMemory(Put(s, who, c)) = c
BY DEF Put, StoreRecords, InMemory

LEMMA PutFree ==
  ASSUME NEW C, NEW s \in StoreRecords(C), NEW who \in Tasks \union {Setup}, NEW c \in C,
         s.writer[s.object] = Nobody, s.pend[s.object] = Nobody
  PROVE  LET p == Put(s, who, c) IN
         /\ p.writer[s.object] = who /\ p.pend[s.object] = Nobody /\ p.taken[s.object] = c
         /\ \A g \in Gens : g # s.object => p.writer[g] = s.writer[g] /\ p.pend[g] = s.pend[g]
BY DEF Put, StoreRecords

LEMMA PutQueued ==
  ASSUME NEW C, NEW s \in StoreRecords(C), NEW who \in Tasks \union {Setup}, NEW c \in C,
         ~(s.writer[s.object] = Nobody /\ s.pend[s.object] = Nobody)
  PROVE  LET p == Put(s, who, c) IN
         /\ p.pend[s.object] = s.dict
         /\ p.writer[s.object] = s.writer[s.object] /\ p.taken[s.object] = s.taken[s.object]
         /\ \A g \in Gens : g # s.object => p.writer[g] = s.writer[g] /\ p.pend[g] = s.pend[g]
BY DEF Put, StoreRecords

LEMMA StartWriteFacts ==
  ASSUME NEW C, NEW s \in StoreRecords(C), NEW o \in Gens, s.pend[o] # Nobody,
         NEW who \in Tasks \union {Setup}
  PROVE  /\ StartWrite(s, o, who) \in StoreRecords(C)
         /\ StartWrite(s, o, who).disk = s.disk
         /\ StartWrite(s, o, who).dict = s.dict
         /\ StartWrite(s, o, who).object = s.object
         /\ InMemory(StartWrite(s, o, who)) = InMemory(s)
BY DEF StartWrite, StoreRecords, InMemory

LEMMA StartWriteQueue ==
  ASSUME NEW C, NEW s \in StoreRecords(C), NEW o \in Gens, NEW who \in Tasks \union {Setup}
  PROVE  LET p == StartWrite(s, o, who) IN
         /\ p.writer[o] = who /\ p.pend[o] = Nobody /\ p.taken[o] = s.shelf[s.pend[o]]
         /\ \A g \in Gens : g # o => p.writer[g] = s.writer[g] /\ p.pend[g] = s.pend[g]
BY DEF StartWrite, StoreRecords

LEMMA EndWriteFacts ==
  ASSUME NEW C, NEW s \in StoreRecords(C), NEW o \in Gens
  PROVE  /\ EndWrite(s, o) \in StoreRecords(C)
         /\ EndWrite(s, o).disk = s.taken[o]
         /\ EndWrite(s, o).dict = s.dict
         /\ EndWrite(s, o).object = s.object
         /\ InMemory(EndWrite(s, o)) = InMemory(s)
BY DEF EndWrite, StoreRecords, InMemory

LEMMA EndWriteQueue ==
  ASSUME NEW C, NEW s \in StoreRecords(C), NEW o \in Gens
  PROVE  LET p == EndWrite(s, o) IN
         /\ p.writer[o] = Nobody /\ p.pend = s.pend /\ p.taken = s.taken
         /\ \A g \in Gens : g # o => p.writer[g] = s.writer[g]
BY DEF EndWrite, StoreRecords

LEMMA LoadedFacts ==
  ASSUME NEW C, NEW c \in C, NEW e \in C
  PROVE  /\ Loaded(c, e) \in StoreRecords(C)
         /\ Loaded(c, e).disk = c /\ Loaded(c, e).dict = 0 /\ Loaded(c, e).object = 0
         /\ InMemory(Loaded(c, e)) = c
         /\ \A g \in Gens : Loaded(c, e).writer[g] = Nobody /\ Loaded(c, e).pend[g] = Nobody
<1>1. 0 \in Gens
  BY StoreAssumption DEF Gens
<1> QED BY <1>1 DEF Loaded, StoreRecords, InMemory

-----------------------------------------------------------------------------
(* The types, with what they rest on: a task that goes on has the fields it *)
(* read, setup has read a file's contents, and there is a generation left   *)
(* for every reload that is still allowed.                                  *)
CachedNames == Names \union {NoName}

Contents == [names : StoreRecords(CachedNames),
             backups : StoreRecords(Histories)]

WorkOK ==
  /\ pc \in [Tasks -> Running \union {"idle", "done", "lost"}]
  /\ on \in [Tasks -> Gens]
  /\ held \in [Tasks -> States \union {Nobody}]
  /\ added \subseteq Tasks
  /\ removed \subseteq Tasks
  /\ target \in [Tasks -> Tasks \union {Nobody}]
  /\ \A t \in Tasks : pc[t] \in {"naming", "syncing", "renamed", "shown"} =>
       held[t] \in States /\ Kind[t] # "delete"

LoadOK ==
  /\ setup \in {"ready", "starting", "seeding"} \union Reloading
  /\ raced \in BOOLEAN
  /\ setup = "names" => fetched \in Names \union {NoName, Nobody}
  /\ setup = "backups" => fetched \in Histories \union {Nobody}
  /\ setup \notin Reloading => fetched = Nobody
  /\ budget \in [crashes : 0..MaxCrashes, reloads : 0..MaxReloads]
  /\ stores.names.object + budget.reloads <= MaxReloads

TypeInv == dev \in States /\ stores \in Contents /\ WorkOK /\ LoadOK

LEMMA TypeInvInit == Init => TypeInv
<1> SUFFICES ASSUME Init PROVE TypeInv
  OBVIOUS
<1>1. 0 \in Gens
  BY StoreAssumption DEF Gens
<1>2. stores \in Contents /\ stores.names.object = 0
  BY LoadedFacts, NoHistory DEF Init, Contents, CachedNames
<1>3. dev \in States
  BY DEF Init, States
<1>4. WorkOK
  BY <1>1 DEF Init, WorkOK
<1>5. LoadOK
  <2>1. /\ setup = "ready" /\ fetched = Nobody /\ raced = FALSE
        /\ budget = [crashes |-> MaxCrashes, reloads |-> MaxReloads]
    BY DEF Init
  <2>2. MaxCrashes \in 0..MaxCrashes /\ MaxReloads \in 0..MaxReloads /\ 0 + MaxReloads <= MaxReloads
    BY StoreAssumption
  <2> QED BY <1>2, <2>1, <2>2 DEF LoadOK, Reloading
<1> QED BY <1>2, <1>3, <1>4, <1>5 DEF TypeInv

LEMMA StateNames == \A x \in States : x.name \in Names \union {NoName} /\ x.version \in Nat
BY DEF States

LEMMA SaveContents ==
  ASSUME NEW t \in Tasks, NEW f \in States, NEW ss \in Contents
  PROVE  LET h == History(ss)
             same == h # <<>> /\ Newest(h).state = f
             new == IF same THEN h ELSE Trimmed(Append(h, [id |-> t, state |-> f]))
         IN h \in Histories /\ [id |-> t, state |-> f] \in Snapshots /\ new \in Histories
<1>1. History(ss) \in Histories
  BY DEF Contents, History, InMemory, StoreRecords
<1>2. [id |-> t, state |-> f] \in Snapshots
  BY DEF Snapshots
<1> QED BY <1>1, <1>2, TrimmedFacts

LEMMA SaveType ==
  ASSUME TypeInv, NEW t \in Tasks, NEW f \in States, NEW ss \in Contents,
         ss.names.object = stores.names.object, Save(t, f, ss)
  PROVE  WorkOK' /\ stores' \in Contents /\ stores'.names.object = stores.names.object
<1> DEFINE h == History(ss)
           same == h # <<>> /\ Newest(h).state = f
           new == IF same THEN h ELSE Trimmed(Append(h, [id |-> t, state |-> f]))
<1>1. h \in Histories /\ new \in Histories
  BY SaveContents
<1>2. stores' = [ss EXCEPT !.backups = Put(ss.backups, t, new)]
  BY DEF Save
<1>3. Ids(h) \subseteq Tasks
  BY <1>1, HistoryFacts
<1> HIDE DEF new
<1>4. Put(ss.backups, t, new) \in StoreRecords(Histories)
  BY <1>1, PutFacts DEF Contents
<1>5. stores' \in Contents /\ stores'.names.object = stores.names.object
  BY <1>2, <1>4 DEF Contents
<1>6. /\ added' \subseteq added \union {t} /\ removed' \subseteq removed \union Ids(h)
      /\ pc' = [pc EXCEPT ![t] = "saving"] /\ on' = [on EXCEPT ![t] = ss.backups.object]
      /\ held' = [held EXCEPT ![t] = Nobody] /\ target' = target
  BY DEF Save
<1>7. ss.backups.object \in Gens
  BY DEF Contents, StoreRecords
<1>8. WorkOK'
  BY <1>3, <1>6, <1>7 DEF TypeInv, WorkOK, Running, Waiting
<1> QED BY <1>5, <1>8

LEMMA RememberType ==
  ASSUME TypeInv, NEW t \in Tasks, NEW n \in CachedNames, Remember(t, n),
         held' \in [Tasks -> States \union {Nobody}], held'[t] \in States,
         \A u \in Tasks \ {t} : held'[u] = held[u], Kind[t] # "delete"
  PROVE  WorkOK' /\ stores' \in Contents /\ stores'.names.object = stores.names.object
<1>1. /\ Put(stores.names, t, n) \in StoreRecords(CachedNames)
      /\ Put(stores.names, t, n).object = stores.names.object
  <2>1. stores.names \in StoreRecords(CachedNames) /\ n \in CachedNames /\ t \in Tasks \union {Setup}
    BY DEF TypeInv, Contents
  <2>2. Put(stores.names, t, n) \in StoreRecords(CachedNames)
    BY <2>1, PutFacts
  <2>3. Put(stores.names, t, n).object = stores.names.object
    BY <2>1, <2>2, PutFacts
  <2> QED BY <2>2, <2>3
<1>2. stores' \in Contents /\ stores'.names.object = stores.names.object
  BY <1>1 DEF Remember, TypeInv, Contents
<1>3. stores.names.object \in Gens
  BY DEF TypeInv, Contents, StoreRecords
<1>4. WorkOK'
  <2>1. /\ pc' = [pc EXCEPT ![t] = "naming"] /\ on' = [on EXCEPT ![t] = stores.names.object]
        /\ UNCHANGED <<added, removed, target>>
    BY DEF Remember
  <2> QED BY <1>3, <2>1 DEF TypeInv, WorkOK, Running, Waiting
<1> QED BY <1>2, <1>4

(* A store replaced by one of its type. *)
LEMMA WithStoreType ==
  ASSUME TypeInv, NEW t \in Tasks, NEW s,
         \A C : StoreOf(t) \in StoreRecords(C) => s \in StoreRecords(C),
         s.object = StoreOf(t).object
  PROVE  WithStoreOf(t, s) \in Contents /\ WithStoreOf(t, s).names.object = stores.names.object
BY DEF TypeInv, Contents, StoreOf, WithStoreOf

LEMMA ResumeType ==
  ASSUME TypeInv, NEW t \in Tasks, NEW s,
         \A C : StoreOf(t) \in StoreRecords(C) => s \in StoreRecords(C),
         s.object = StoreOf(t).object, Resume(t, s)
  PROVE  WorkOK' /\ stores' \in Contents /\ stores'.names.object = stores.names.object
<1>1. WithStoreOf(t, s) \in Contents /\ WithStoreOf(t, s).names.object = stores.names.object
  BY WithStoreType
<1>2. CASE pc[t] = "naming" /\ Save(t, held[t], WithStoreOf(t, s))
  <2>1. held[t] \in States
    BY <1>2 DEF TypeInv, WorkOK
  <2> QED BY <1>1, <1>2, <2>1, SaveType
<1>3. CASE /\ stores' = WithStoreOf(t, s) /\ pc[t] = "naming"
           /\ pc' = [pc EXCEPT ![t] = "shown"] /\ UNCHANGED <<on, held, added, removed, target>>
  BY <1>1, <1>3 DEF TypeInv, WorkOK, Running, Waiting
<1>4. CASE /\ stores' = WithStoreOf(t, s)
           /\ pc' = [pc EXCEPT ![t] = "done"] /\ UNCHANGED <<on, held, added, removed, target>>
  BY <1>1, <1>4 DEF TypeInv, WorkOK, Running, Waiting
<1>5. CASE pc[t] = "naming" /\ Kind[t] = "read" /\ Save(t, held[t], WithStoreOf(t, s))
  BY <1>2, <1>5
<1>6. CASE pc[t] = "naming" /\ Kind[t] = "rename"
           /\ stores' = WithStoreOf(t, s) /\ pc' = [pc EXCEPT ![t] = "shown"]
           /\ UNCHANGED <<on, held, added, removed, target>>
  BY <1>3, <1>6
<1> QED BY <1>4, <1>5, <1>6 DEF Resume

(* Every action keeps the types. *)
LEMMA UnchangedWork == TypeInv /\ UNCHANGED <<pc, on, held, added, removed, target>> => WorkOK'
BY DEF TypeInv, WorkOK

LEMMA UnchangedLoading ==
  TypeInv /\ UNCHANGED <<setup, fetched, budget>> /\ raced' \in BOOLEAN
    /\ stores'.names.object = stores.names.object => LoadOK'
BY DEF TypeInv, LoadOK

LEMMA AskType ==
  ASSUME TypeInv, NEW t \in Tasks, Ask(t) PROVE TypeInv'
<1> USE DEF Ask
<1>1. stores \in Contents /\ dev \in States /\ raced' \in BOOLEAN
  BY DEF TypeInv, LoadOK
<1>2. CASE Read(t)
  <2>1. CASE Save(t, dev, stores)
    <3>1. WorkOK' /\ stores' \in Contents /\ stores'.names.object = stores.names.object
      BY <1>1, <2>1, SaveType
    <3> QED BY <1>1, <1>2, <3>1, UnchangedLoading DEF Read, TypeInv
  <2>2. CASE held' = [held EXCEPT ![t] = dev] /\ Remember(t, dev.name)
    <3>1. dev.name \in CachedNames
      BY <1>1, StateNames DEF CachedNames
    <3>2. held' \in [Tasks -> States \union {Nobody}] /\ held'[t] \in States
          /\ \A u \in Tasks \ {t} : held'[u] = held[u]
      BY <1>1, <2>2 DEF TypeInv, WorkOK
    <3>3. Kind[t] # "delete"
      BY <1>2 DEF Read
    <3>4. WorkOK' /\ stores' \in Contents /\ stores'.names.object = stores.names.object
      BY <2>2, <3>1, <3>2, <3>3, RememberType
    <3> QED BY <1>1, <1>2, <3>4, UnchangedLoading DEF Read, TypeInv
  <2> QED BY <1>2, <2>1, <2>2 DEF Read
<1>3. CASE Encrypt(t)
  <2>1. dev' = [dev EXCEPT !.version = @ + 1] /\ UNCHANGED <<stores, setup, fetched, budget>>
    BY <1>3 DEF Encrypt
  <2>2. dev' \in States
    BY <1>1, <2>1 DEF States
  <2>3. Kind[t] = "encrypt" /\ held' = [held EXCEPT ![t] = dev']
        /\ pc' = [pc EXCEPT ![t] = "syncing"] /\ UNCHANGED <<on, added, removed, target>>
    BY <1>3 DEF Encrypt
  <2>4. WorkOK'
    BY <2>2, <2>3 DEF TypeInv, WorkOK, Running, Waiting
  <2> QED BY <1>1, <2>1, <2>2, <2>4, UnchangedLoading DEF TypeInv
<1>4. CASE Rename(t)
  <2>1. dev' = [name |-> NewName[t], version |-> dev.version + 1]
        /\ UNCHANGED <<stores, setup, fetched, budget>>
    BY <1>4 DEF Rename
  <2>2. dev' \in States
    BY <1>1, <2>1, StateNames, StoreAssumption DEF States
  <2>3. Kind[t] = "rename" /\ held' = [held EXCEPT ![t] = dev']
        /\ pc' = [pc EXCEPT ![t] = "renamed"] /\ UNCHANGED <<on, added, removed, target>>
    BY <1>4 DEF Rename
  <2>4. WorkOK'
    BY <2>2, <2>3 DEF TypeInv, WorkOK, Running, Waiting
  <2> QED BY <1>1, <2>1, <2>2, <2>4, UnchangedLoading DEF TypeInv
<1>5. CASE Delete(t)
  <2> DEFINE h == History(stores)
  <2>1. h \in Histories /\ stores.backups \in StoreRecords(Histories)
        /\ stores.backups.object \in Gens
    BY <1>1 DEF Contents, History, InMemory, StoreRecords
  <2>2. PICK i \in DOMAIN h :
          /\ stores' = [stores EXCEPT !.backups = Put(stores.backups, t, Without(h, i))]
          /\ removed' = removed \union {h[i].id}
          /\ target' = [target EXCEPT ![t] = h[i].id]
    BY <1>5 DEF Delete
  <2> HIDE DEF h
  <2>3. Without(h, i) \in Histories /\ h[i].id \in Tasks
    BY <2>1, WithoutFacts, HistoryFacts DEF Ids
  <2>4. Put(stores.backups, t, Without(h, i)) \in StoreRecords(Histories)
    BY <2>1, <2>3, PutFacts
  <2>5. stores' \in Contents /\ stores'.names.object = stores.names.object
    BY <1>1, <2>2, <2>4 DEF Contents
  <2>6. /\ pc' = [pc EXCEPT ![t] = "saving"] /\ on' = [on EXCEPT ![t] = stores.backups.object]
        /\ UNCHANGED <<dev, held, added, setup, fetched, budget>>
    BY <1>5 DEF Delete
  <2>7. WorkOK'
    BY <2>1, <2>2, <2>3, <2>6 DEF TypeInv, WorkOK, Running, Waiting
  <2> QED BY <1>1, <2>5, <2>6, <2>7, UnchangedLoading DEF TypeInv
<1> QED BY <1>2, <1>3, <1>4, <1>5

LEMMA TurnStores ==
  ASSUME TypeInv, NEW t \in Tasks, pc[t] \in Waiting
  PROVE  /\ on[t] \in Gens /\ stores \in Contents
         /\ \E C : StoreOf(t) \in StoreRecords(C)
BY DEF TypeInv, WorkOK, Contents, StoreOf

LEMMA ProgressType ==
  ASSUME TypeInv, NEW t \in Tasks, Progress(t) PROVE TypeInv'
<1>1. stores \in Contents /\ dev \in States /\ raced \in BOOLEAN
  BY DEF TypeInv, LoadOK
<1>2. ASSUME Save(t, held[t], stores), pc[t] \in {"syncing", "shown"}, UNCHANGED <<dev, loading, budget>>
      PROVE  TypeInv'
  <2>1. held[t] \in States
    BY <1>2 DEF TypeInv, WorkOK
  <2>2. WorkOK' /\ stores' \in Contents /\ stores'.names.object = stores.names.object
    BY <1>1, <1>2, <2>1, SaveType
  <2> QED BY <1>1, <1>2, <2>2, UnchangedLoading DEF TypeInv, loading
<1>3. CASE EncryptSaves(t)
  BY <1>2, <1>3 DEF EncryptSaves
<1>4. CASE PanelSaves(t)
  BY <1>2, <1>4 DEF PanelSaves
<1>5. CASE RenameRemembers(t)
  <2>1. pc[t] = "renamed" /\ UNCHANGED <<dev, held, loading, budget>>
    BY <1>5 DEF RenameRemembers
  <2>2. CASE Remember(t, NewName[t])
    <3>1. NewName[t] \in CachedNames
      BY StoreAssumption DEF CachedNames
    <3>2. held' \in [Tasks -> States \union {Nobody}] /\ held'[t] \in States /\ Kind[t] # "delete"
          /\ \A u \in Tasks \ {t} : held'[u] = held[u]
      BY <2>1 DEF TypeInv, WorkOK
    <3>3. WorkOK' /\ stores' \in Contents /\ stores'.names.object = stores.names.object
      BY <2>2, <3>1, <3>2, RememberType
    <3> QED BY <1>1, <2>1, <3>3, UnchangedLoading DEF TypeInv, loading
  <2>3. CASE pc' = [pc EXCEPT ![t] = "shown"] /\ UNCHANGED <<stores, on, added, removed, target>>
    <3>1. WorkOK'
      BY <2>1, <2>3 DEF TypeInv, WorkOK, Running, Waiting
    <3> QED BY <1>1, <2>1, <2>3, <3>1, UnchangedLoading DEF TypeInv, loading
  <2> QED BY <1>5, <2>2, <2>3 DEF RenameRemembers
<1>6. CASE PanelGone(t)
  <2>1. WorkOK'
    BY <1>6 DEF PanelGone, TypeInv, WorkOK, Running, Waiting
  <2>2. UNCHANGED <<dev, stores, loading, budget>>
    BY <1>6 DEF PanelGone
  <2> QED BY <1>1, <2>1, <2>2, UnchangedLoading DEF TypeInv, loading
<1>7. CASE TakeTurn(t)
  <2> DEFINE s == StartWrite(StoreOf(t), on[t], t)
  <2>1. /\ pc[t] \in Waiting /\ StoreOf(t).pend[on[t]] # Nobody
        /\ stores' = WithStoreOf(t, s) /\ UNCHANGED <<dev, work, loading, budget>>
    BY <1>7 DEF TakeTurn
  <2>2. on[t] \in Gens /\ \E C : StoreOf(t) \in StoreRecords(C)
    BY <2>1, TurnStores
  <2>3. \A C : StoreOf(t) \in StoreRecords(C) => s \in StoreRecords(C)
    BY <2>1, <2>2, StartWriteFacts
  <2>5. s.object = StoreOf(t).object
    BY <2>1, <2>2, <2>3, StartWriteFacts
  <2>4. WithStoreOf(t, s) \in Contents /\ WithStoreOf(t, s).names.object = stores.names.object
    BY <2>3, <2>5, WithStoreType
  <2> HIDE DEF s
  <2> QED BY <1>1, <2>1, <2>4, UnchangedWork, UnchangedLoading DEF TypeInv, loading, work
<1>8. CASE Written(t)
  <2> DEFINE s == EndWrite(StoreOf(t), on[t])
  <2>1. pc[t] \in Waiting /\ Resume(t, s) /\ UNCHANGED <<dev, loading, budget>>
    BY <1>8 DEF Written
  <2>2. on[t] \in Gens /\ \E C : StoreOf(t) \in StoreRecords(C)
    BY <2>1, TurnStores
  <2>3. (\A C : StoreOf(t) \in StoreRecords(C) => s \in StoreRecords(C)) /\ s.object = StoreOf(t).object
    BY <2>2, EndWriteFacts
  <2> HIDE DEF s
  <2>4. WorkOK' /\ stores' \in Contents /\ stores'.names.object = stores.names.object
    BY <2>1, <2>3, ResumeType
  <2> QED BY <1>1, <2>1, <2>4, UnchangedLoading DEF TypeInv, loading
<1>9. CASE NothingLeft(t)
  <2>1. WorkOK' /\ stores' \in Contents /\ stores'.names.object = stores.names.object
    BY <1>9, ResumeType DEF NothingLeft
  <2>2. UNCHANGED <<dev, loading, budget>>
    BY <1>9 DEF NothingLeft
  <2> QED BY <1>1, <2>1, <2>2, UnchangedLoading DEF TypeInv, loading
<1> QED BY <1>3, <1>4, <1>5, <1>6, <1>7, <1>8, <1>9 DEF Progress

LEMMA SeedName == ASSUME NEW ss \in Contents PROVE Seed(ss) \in CachedNames
<1>1. History(ss) \in Histories
  BY DEF Contents, History, InMemory, StoreRecords
<1>2. History(ss) # <<>> => Newest(History(ss)).state \in States
  BY <1>1, HistoryFacts DEF Snapshots
<1> QED BY <1>2, StateNames DEF Seed, CachedNames

LEMMA SeedAndSaveType ==
  ASSUME NEW ss \in Contents, NEW label, SeedAndSave(ss, label)
  PROVE  /\ stores' \in Contents /\ stores'.names.object = ss.names.object
         /\ setup' \in {"ready", label}
<1>1. ss.names \in StoreRecords(CachedNames) /\ Seed(ss) \in CachedNames /\ Setup \in Tasks \union {Setup}
  BY SeedName DEF Contents
<1>2. Put(ss.names, Setup, Seed(ss)) \in StoreRecords(CachedNames)
  BY <1>1, PutFacts
<1>3. Put(ss.names, Setup, Seed(ss)).object = ss.names.object
  <2> DEFINE s == ss.names
             c == Seed(ss)
  <2>1. s \in StoreRecords(CachedNames) /\ c \in CachedNames /\ Setup \in Tasks \union {Setup}
        /\ Put(s, Setup, c) \in StoreRecords(CachedNames)
    BY <1>1, <1>2
  <2> HIDE DEF s, c
  <2>2. Put(s, Setup, c).object = s.object
    BY <2>1, PutFacts
  <2> QED BY <2>2 DEF s, c
<1>4. CASE stores' = ss /\ setup' = "ready"
  BY <1>4
<1>5. CASE stores' = [ss EXCEPT !.names = Put(ss.names, Setup, Seed(ss))] /\ setup' = label
  <2> DEFINE n == Put(ss.names, Setup, Seed(ss))
  <2>1. n \in StoreRecords(CachedNames) /\ n.object = ss.names.object
    BY <1>2, <1>3
  <2> HIDE DEF n
  <2>2. stores' = [ss EXCEPT !.names = n] /\ setup' = label
    BY <1>5 DEF n
  <2> QED BY <2>1, <2>2 DEF Contents
<1> QED BY <1>4, <1>5 DEF SeedAndSave

LEMMA SetupType ==
  ASSUME TypeInv, SetupProgress \/ Reload \/ Crash PROVE TypeInv'
<1>1. /\ stores \in Contents /\ dev \in States /\ raced \in BOOLEAN
      /\ stores.names \in StoreRecords(CachedNames) /\ stores.backups \in StoreRecords(Histories)
      /\ stores.names.disk \in CachedNames /\ stores.backups.disk \in Histories
      /\ stores.names.object \in Gens
  BY DEF TypeInv, LoadOK, Contents, StoreRecords
<1>2. CASE Reload
  <2>1. stores' = [stores EXCEPT !.names.object = stores.names.object + 1]
    BY <1>2 DEF Reload
  <2>2. /\ setup = "ready" /\ setup' = "names" /\ budget.reloads > 0
        /\ budget' = [budget EXCEPT !.reloads = budget.reloads - 1]
        /\ raced' = (raced \/ \E t \in Tasks : pc[t] \in Running)
        /\ UNCHANGED <<dev, pc, on, held, added, removed, target, fetched>>
    BY <1>2 DEF Reload, work
  <2>3. stores.names.object \in Nat /\ stores.names.object + budget.reloads <= MaxReloads
        /\ budget \in [crashes : 0..MaxCrashes, reloads : 0..MaxReloads]
        /\ fetched = Nobody
    BY <1>1, <2>2 DEF TypeInv, LoadOK, Gens, Reloading
  <2>4. stores.names.object + 1 \in Gens /\ budget.reloads - 1 \in 0..MaxReloads
        /\ (stores.names.object + 1) + (budget.reloads - 1) <= MaxReloads
    BY <2>2, <2>3, StoreAssumption DEF Gens
  <2>5. stores' \in Contents /\ stores'.names.object = stores.names.object + 1
    BY <1>1, <2>1, <2>4 DEF Contents, StoreRecords
  <2>6. raced' \in BOOLEAN
    BY <1>1, <2>2
  <2>7. budget' \in [crashes : 0..MaxCrashes, reloads : 0..MaxReloads]
        /\ budget'.reloads = budget.reloads - 1
    BY <2>2, <2>3, <2>4
  <2>8. LoadOK'
    BY <2>2, <2>3, <2>4, <2>5, <2>6, <2>7 DEF LoadOK, Reloading
  <2> QED BY <1>1, <2>2, <2>5, <2>8, UnchangedWork DEF TypeInv
<1>3. CASE ReadFile
  <2>1. /\ setup \in Reloading
        /\ fetched' = IF setup = "names" THEN stores.names.disk ELSE stores.backups.disk
        /\ UNCHANGED <<dev, stores, pc, on, held, added, removed, target, setup, raced, budget>>
    BY <1>3 DEF ReadFile, work
  <2>2. LoadOK'
    BY <1>1, <2>1 DEF TypeInv, LoadOK, Reloading, CachedNames
  <2> QED BY <1>1, <2>1, <2>2, UnchangedWork DEF TypeInv
<1>4. CASE NamesLoaded
  <2> DEFINE g == stores.names.object
  <2>1. stores' = [stores EXCEPT !.names.dict = g, !.names.shelf[g] = fetched]
    BY <1>4 DEF NamesLoaded
  <2>2. /\ setup = "names" /\ fetched # Nobody /\ setup' = "backups" /\ fetched' = Nobody
        /\ UNCHANGED <<dev, pc, on, held, added, removed, target, raced, budget>>
    BY <1>4 DEF NamesLoaded, work
  <2>3. fetched \in CachedNames
    BY <2>2 DEF TypeInv, LoadOK, CachedNames
  <2>4. stores' \in Contents /\ stores'.names.object = stores.names.object
    BY <1>1, <2>1, <2>3 DEF Contents, StoreRecords
  <2>5. LoadOK'
    BY <2>2, <2>4 DEF TypeInv, LoadOK, Reloading
  <2> QED BY <1>1, <2>2, <2>4, <2>5, UnchangedWork DEF TypeInv
<1>5. CASE BackupsLoaded
  <2> DEFINE g == stores.names.object
             ss == [stores EXCEPT !.backups.dict = g, !.backups.object = g,
                                  !.backups.shelf[g] = fetched]
  <2>1. /\ SeedAndSave(ss, "seeding")
        /\ setup = "backups" /\ fetched # Nobody /\ fetched' = Nobody
        /\ UNCHANGED <<dev, pc, on, held, added, removed, target, raced, budget>>
    BY <1>5 DEF BackupsLoaded, work
  <2>2. fetched \in Histories
    BY <2>1 DEF TypeInv, LoadOK
  <2>3. ss \in Contents /\ ss.names = stores.names
    BY <1>1, <2>2 DEF Contents, StoreRecords
  <2> HIDE DEF ss
  <2>4. stores' \in Contents /\ stores'.names.object = stores.names.object
        /\ setup' \in {"ready", "seeding"}
    BY <2>1, <2>3, SeedAndSaveType
  <2>5. LoadOK'
    BY <2>1, <2>4 DEF TypeInv, LoadOK, Reloading
  <2> QED BY <1>1, <2>1, <2>4, <2>5, UnchangedWork DEF TypeInv
<1>6. CASE SeedTurn
  <2> DEFINE s == stores.names
  <2>1. /\ s.pend[s.object] # Nobody
        /\ stores' = [stores EXCEPT !.names = StartWrite(s, s.object, Setup)]
        /\ UNCHANGED <<dev, work, loading, budget>>
    BY <1>6 DEF SeedTurn
  <2>2. StartWrite(s, s.object, Setup) \in StoreRecords(CachedNames)
    BY <1>1, <2>1, StartWriteFacts
  <2>3. StartWrite(s, s.object, Setup).object = s.object
    BY <1>1, <2>1, <2>2, StartWriteFacts
  <2>4. stores' \in Contents /\ stores'.names.object = stores.names.object
    BY <1>1, <2>1, <2>2, <2>3 DEF Contents
  <2> QED BY <1>1, <2>1, <2>4, UnchangedWork, UnchangedLoading DEF TypeInv, loading, work
<1>7. CASE Seeded
  <2> DEFINE s == stores.names
  <2>1. /\ setup \in {"starting", "seeding"} /\ setup' = "ready"
        /\ UNCHANGED <<dev, pc, on, held, added, removed, target, fetched, raced, budget>>
    BY <1>7 DEF Seeded, work
  <2>2. stores' = [stores EXCEPT !.names = EndWrite(s, s.object)] \/ stores' = stores
    BY <1>7 DEF Seeded
  <2>3. EndWrite(s, s.object) \in StoreRecords(CachedNames)
    BY <1>1, EndWriteFacts
  <2>4. EndWrite(s, s.object).object = s.object
    BY <1>1, <2>3, EndWriteFacts
  <2>5. stores' \in Contents /\ stores'.names.object = stores.names.object
    BY <1>1, <2>2, <2>3, <2>4 DEF Contents
  <2>6. LoadOK'
    BY <2>1, <2>5 DEF TypeInv, LoadOK, Reloading
  <2> QED BY <1>1, <2>1, <2>5, <2>6, UnchangedWork DEF TypeInv
<1>8. CASE Crash
  <2> DEFINE a == Loaded(stores.names.disk, NoName)
             b == Loaded(stores.backups.disk, <<>>)
             ss == [names |-> a, backups |-> b]
  <2>1. /\ SeedAndSave(ss, "starting") /\ fetched' = Nobody
        /\ pc' = [t \in Tasks |-> IF pc[t] \in Running THEN "lost" ELSE pc[t]]
        /\ on' = [t \in Tasks |-> 0] /\ held' = [t \in Tasks |-> Nobody]
        /\ UNCHANGED <<dev, added, removed, target, raced>>
    BY <1>8 DEF Crash
  <2>2. budget.crashes > 0 /\ budget' = [budget EXCEPT !.crashes = budget.crashes - 1]
    BY <1>8 DEF Crash
  <2>3. budget \in [crashes : 0..MaxCrashes, reloads : 0..MaxReloads]
    BY DEF TypeInv, LoadOK
  <2>4. budget' \in [crashes : 0..MaxCrashes, reloads : 0..MaxReloads] /\ budget'.reloads \in 0..MaxReloads
    <3>1. budget.crashes - 1 \in 0..MaxCrashes
      BY <2>2, <2>3, StoreAssumption
    <3> QED BY <2>2, <2>3, <3>1
  <2>5. a \in StoreRecords(CachedNames)
    <3>1. NoName \in CachedNames
      BY DEF CachedNames
    <3> QED BY <1>1, <3>1, LoadedFacts
  <2>6. b \in StoreRecords(Histories)
    BY <1>1, NoHistory, LoadedFacts
  <2>7. a.object = 0
    BY DEF Loaded
  <2>8. ss \in Contents /\ ss.names.object = 0
    BY <2>5, <2>6, <2>7 DEF Contents
  <2> HIDE DEF ss
  <2>9. stores' \in Contents /\ stores'.names.object = 0 /\ setup' \in {"ready", "starting"}
    BY <2>1, <2>8, SeedAndSaveType
  <2>10. 0 + budget'.reloads <= MaxReloads
    BY <2>4, StoreAssumption
  <2>11. LoadOK'
    BY <1>1, <2>1, <2>4, <2>9, <2>10 DEF LoadOK, Reloading
  <2>12. 0 \in Gens
    BY StoreAssumption DEF Gens
  <2>13. WorkOK'
    <3>1. pc' \in [Tasks -> Running \union {"idle", "done", "lost"}]
          /\ \A t \in Tasks : pc'[t] \notin Running
      BY <2>1 DEF TypeInv, WorkOK, Running, Waiting
    <3> QED BY <2>1, <2>12, <3>1 DEF TypeInv, WorkOK, Running, Waiting
  <2> QED BY <1>1, <2>1, <2>9, <2>11, <2>13 DEF TypeInv
<1> QED BY <1>2, <1>3, <1>4, <1>5, <1>6, <1>7, <1>8 DEF SetupProgress

LEMMA TypeInvStep == TypeInv /\ [Next]_vars => TypeInv'
<1> SUFFICES ASSUME TypeInv, [Next]_vars PROVE TypeInv'
  OBVIOUS
<1>1. CASE UNCHANGED vars
  <2>1. raced \in BOOLEAN
    BY DEF TypeInv, LoadOK
  <2> QED BY <1>1, <2>1, UnchangedWork, UnchangedLoading DEF vars, work, loading, TypeInv
<1>2. CASE \E t \in Tasks : Ask(t) \/ Progress(t)
  BY <1>2, AskType, ProgressType
<1>3. CASE SetupProgress \/ Reload \/ Crash
  BY <1>3, SetupType
<1>4. CASE Finished
  BY <1>1, <1>4 DEF Finished
<1> QED BY <1>1, <1>2, <1>3, <1>4 DEF Next

(* The dicts and files of the snapshots and the names always are what the     *)
(* code takes them for: of any number of calls, crashes and reloads, a task   *)
(* that goes on has the fields it read, and a history never exceeds           *)
(* BACKUP_LIMIT (backups.py:94).                                              *)
THEOREM TypeCorrect == Spec => []TypeOK
<1>1. TypeInv => TypeOK
  BY DEF TypeInv, TypeOK, WorkOK, LoadOK, Contents, CachedNames, Reloading
<1> QED BY <1>1, TypeInvInit, TypeInvStep, PTL DEF Spec

-----------------------------------------------------------------------------
(* The tasks that wait for a save of the names, and of the backups. *)
NameUsers == {t \in Tasks : pc[t] = "naming"}
             \union (IF setup \in {"starting", "seeding"} THEN {Setup} ELSE {})
BackupUsers == {t \in Tasks : pc[t] = "saving"}

(* Only the Store in hass.data is in use.  What is in memory is in the file, *)
(* or being written, or left to be written with another user than the one    *)
(* that writes: that one will find it and write it.                          *)
Follows(s, users) ==
  /\ \A g \in Gens : g # s.object => s.writer[g] = Nobody /\ s.pend[g] = Nobody
  /\ s.pend[s.object] \in {Nobody, s.dict}
  /\ s.writer[s.object] \in users \union {Nobody}
  /\ s.pend[s.object] # Nobody => \E u \in users : u # s.writer[s.object]
  /\ s.pend[s.object] = Nobody =>
       InMemory(s) = IF s.writer[s.object] = Nobody THEN s.disk ELSE s.taken[s.object]

Current == \A t \in Tasks : pc[t] \in Waiting => on[t] = StoreOf(t).object

InStep ==
  /\ Current
  /\ Follows(stores.names, NameUsers)
  /\ Follows(stores.backups, BackupUsers)
  /\ setup \in Reloading => \A t \in Tasks : pc[t] \notin Running
  /\ fetched # Nobody => /\ setup = "names" => fetched = stores.names.disk
                         /\ setup = "backups" => fetched = stores.backups.disk

StoreInv == ~raced => InStep

Callers == Tasks \union {Setup}

LEMMA StoreFacts ==
  ASSUME NEW C, NEW s \in StoreRecords(C)
  PROVE  /\ s.object \in Gens /\ s.dict \in Gens /\ s.dict # Nobody
         /\ s.disk \in C /\ s.shelf \in [Gens -> C] /\ s.taken \in [Gens -> C]
         /\ s.pend \in [Gens -> Gens \union {Nobody}]
         /\ s.writer \in [Gens -> Tasks \union {Setup, Nobody}]
BY StoreAssumption DEF StoreRecords, Gens

LEMMA PutFollows ==
  ASSUME NEW C, NEW s \in StoreRecords(C), NEW users \in SUBSET Callers, Follows(s, users),
         NEW who \in Callers \ users, NEW c \in C
  PROVE  Follows(Put(s, who, c), users \union {who})
<1> DEFINE p == Put(s, who, c)
           o == s.object
<1>1. who \in Tasks \union {Setup} /\ who # Nobody /\ Nobody \notin users
  BY StoreAssumption DEF Callers
<1>2. p \in StoreRecords(C)
  BY <1>1, PutFacts
<1>3. p.dict = s.dict /\ p.object = o
  BY <1>1, <1>2, PutFacts
<1>4. InMemory(p) = c
  BY <1>1, <1>2, PutFacts
<1>5. s.dict # Nobody /\ s.writer[o] \in users \union {Nobody}
      /\ \A g \in Gens : g # o => s.writer[g] = Nobody /\ s.pend[g] = Nobody
  BY StoreFacts DEF Follows
<1>6. CASE s.writer[o] = Nobody /\ s.pend[o] = Nobody
  <2>1. /\ p.writer[o] = who /\ p.pend[o] = Nobody /\ p.taken[o] = c
        /\ \A g \in Gens : g # o => p.writer[g] = Nobody /\ p.pend[g] = Nobody
    BY <1>1, <1>5, <1>6, PutFree
  <2> DEFINE all == users \union {who}
  <2>2. who \in all
    OBVIOUS
  <2> HIDE DEF p, o, all
  <2>3. Follows(p, all)
    BY <1>1, <1>3, <1>4, <2>1, <2>2 DEF Follows
  <2> QED BY <2>3 DEF p, all
<1>7. CASE ~(s.writer[o] = Nobody /\ s.pend[o] = Nobody)
  <2>1. /\ p.writer[o] = s.writer[o] /\ p.pend[o] = s.dict
        /\ \A g \in Gens : g # o => p.writer[g] = Nobody /\ p.pend[g] = Nobody
    BY <1>1, <1>5, <1>7, PutQueued
  <2>2. who # s.writer[o]
    BY <1>1, <1>5
  <2> DEFINE all == users \union {who}
  <2>3. who \in all /\ s.writer[o] \in all \union {Nobody}
    BY <1>5
  <2> HIDE DEF p, o, all
  <2>4. Follows(p, all)
    BY <1>3, <1>5, <2>1, <2>2, <2>3 DEF Follows
  <2> QED BY <2>4 DEF p, all
<1> QED BY <1>6, <1>7

LEMMA TurnFollows ==
  ASSUME NEW C, NEW s \in StoreRecords(C), NEW users \in SUBSET Callers, Follows(s, users),
         NEW who \in users, s.writer[s.object] = Nobody, s.pend[s.object] # Nobody
  PROVE  Follows(StartWrite(s, s.object, who), users)
<1> DEFINE o == s.object
           p == StartWrite(s, o, who)
<1>1. who \in Tasks \union {Setup} /\ who # Nobody
  BY StoreAssumption DEF Callers
<1>2. o \in Gens /\ s.pend[o] # Nobody
      /\ \A g \in Gens : g # o => s.writer[g] = Nobody /\ s.pend[g] = Nobody
  BY StoreFacts DEF Follows
<1>3. s.shelf[s.pend[o]] = InMemory(s)
  BY DEF Follows, InMemory
<1>4. s.object = o
  OBVIOUS
<1> HIDE DEF o
<1>5. p \in StoreRecords(C)
  BY <1>1, <1>2, StartWriteFacts
<1>6. p.dict = s.dict /\ p.object = o
  BY <1>1, <1>2, <1>4, <1>5, StartWriteFacts
<1>7. InMemory(p) = InMemory(s)
  BY <1>1, <1>2, <1>5, StartWriteFacts
<1>8. /\ p.writer[o] = who /\ p.pend[o] = Nobody /\ p.taken[o] = s.shelf[s.pend[o]]
      /\ \A g \in Gens : g # o => p.writer[g] = Nobody /\ p.pend[g] = Nobody
  BY <1>1, <1>2, StartWriteQueue
<1> HIDE DEF p
<1>9. Follows(p, users)
  BY <1>1, <1>3, <1>6, <1>7, <1>8 DEF Follows
<1> QED BY <1>9 DEF p, o

LEMMA EndFollows ==
  ASSUME NEW C, NEW s \in StoreRecords(C), NEW users \in SUBSET Callers, Follows(s, users),
         NEW who \in users, s.writer[s.object] = who
  PROVE  Follows(EndWrite(s, s.object), users \ {who})
<1> DEFINE o == s.object
           p == EndWrite(s, o)
<1>1. who # Nobody
  BY StoreAssumption DEF Callers
<1>2. /\ o \in Gens /\ s.object = o /\ s.writer[o] = who
      /\ \A g \in Gens : g # o => s.writer[g] = Nobody /\ s.pend[g] = Nobody
      /\ s.pend[o] \in {Nobody, s.dict}
      /\ s.pend[o] # Nobody => \E u \in users : u # who
      /\ s.pend[o] = Nobody => InMemory(s) = s.taken[o]
  BY <1>1, StoreFacts DEF Follows
<1> HIDE DEF o
<1>3. p \in StoreRecords(C)
  BY <1>2, EndWriteFacts
<1>4. p.disk = s.taken[o] /\ p.dict = s.dict /\ p.object = o
  BY <1>2, <1>3, EndWriteFacts
<1>5. InMemory(p) = InMemory(s)
  BY <1>2, <1>3, EndWriteFacts
<1>6. /\ p.writer[o] = Nobody /\ p.pend = s.pend /\ p.taken = s.taken
      /\ \A g \in Gens : g # o => p.writer[g] = Nobody
  BY <1>2, EndWriteQueue
<1> HIDE DEF p
<1>7. p.pend[o] # Nobody => \E u \in users \ {who} : u # p.writer[o]
  <2> SUFFICES ASSUME p.pend[o] # Nobody PROVE \E u \in users \ {who} : u # Nobody
    BY <1>6
  <2>1. PICK u \in users : u # who
    BY <1>2, <1>6
  <2>2. u # Nobody
    BY StoreAssumption DEF Callers
  <2> QED BY <2>1, <2>2
<1>8. Follows(p, users \ {who})
  BY <1>2, <1>4, <1>5, <1>6, <1>7 DEF Follows
<1> QED BY <1>8 DEF p, o

(* With the lock free and nothing left to write, anyone may go. *)
LEMMA LeaveFollows ==
  ASSUME NEW s, NEW users, NEW left, Follows(s, users),
         s.writer[s.object] = Nobody, s.pend[s.object] = Nobody
  PROVE  Follows(s, left) /\ InMemory(s) = s.disk
BY DEF Follows

LEMMA QuietFollows ==
  ASSUME NEW s, Follows(s, {})
  PROVE  s.writer[s.object] = Nobody /\ s.pend[s.object] = Nobody /\ InMemory(s) = s.disk
BY DEF Follows

(* A store newly made of its file. *)
LEMMA FreshFollows ==
  ASSUME NEW C, NEW c \in C, NEW e \in C, NEW users PROVE Follows(Loaded(c, e), users)
<1> DEFINE p == Loaded(c, e)
<1>1. p.disk = c /\ p.dict = 0 /\ p.object = 0 /\ 0 \in Gens
      /\ \A g \in Gens : p.writer[g] = Nobody /\ p.pend[g] = Nobody
  BY StoreAssumption DEF Loaded, Gens
<1>2. InMemory(p) = c
  BY LoadedFacts
<1> HIDE DEF p
<1>3. Follows(p, users)
  BY <1>1, <1>2 DEF Follows
<1> QED BY <1>3 DEF p

-----------------------------------------------------------------------------
(* Every action keeps the stores in step. *)
LEMMA UserFacts == NameUsers \in SUBSET Callers /\ BackupUsers \in SUBSET Callers
BY DEF NameUsers, BackupUsers, Callers

StoresInStep ==
  /\ Current
  /\ Follows(stores.names, NameUsers)
  /\ Follows(stores.backups, BackupUsers)

LEMMA InStepInit == ASSUME Init PROVE InStep
<1>1. stores.names = Loaded(NoName, NoName) /\ stores.backups = Loaded(<<>>, <<>>)
  BY DEF Init
<1>2. NoName \in CachedNames /\ <<>> \in Histories /\ 0 \in Gens
  BY NoHistory, StoreAssumption DEF CachedNames, Gens
<1>3. Follows(stores.names, NameUsers) /\ Follows(stores.backups, BackupUsers)
  BY <1>1, <1>2, FreshFollows
<1>4. \A t \in Tasks : pc[t] = "idle"
  BY DEF Init
<1>5. fetched = Nobody
  BY DEF Init
<1> QED BY <1>3, <1>4, <1>5 DEF InStep, Current, Waiting, Running

(* A task at work: neither setup's files nor its progress are touched. *)
LEMMA CalmInStep ==
  ASSUME TypeInv, StoresInStep', UNCHANGED <<setup, fetched>>, setup \notin Reloading
  PROVE  InStep'
BY DEF InStep, StoresInStep, TypeInv, LoadOK

(* A task that goes on while no store changes and that waits for neither. *)
LEMMA SteadyInStep ==
  ASSUME TypeInv, StoresInStep, NEW t \in Tasks, pc[t] \notin Waiting,
         UNCHANGED <<stores, on, setup>>, NEW next, next \notin Waiting,
         pc' = [pc EXCEPT ![t] = next]
  PROVE  StoresInStep'
<1>1. pc \in [Tasks -> Running \union {"idle", "done", "lost"}]
  BY DEF TypeInv, WorkOK
<1>2. NameUsers' = NameUsers
  BY <1>1 DEF NameUsers, Waiting
<1>3. BackupUsers' = BackupUsers
  BY <1>1 DEF BackupUsers, Waiting
<1>4. Current'
  <2> SUFFICES ASSUME NEW u \in Tasks, pc'[u] \in Waiting PROVE on'[u] = StoreOf(u)'.object
    BY DEF Current
  <2>1. u # t /\ pc'[u] = pc[u]
    BY <1>1
  <2> QED BY <2>1 DEF StoresInStep, Current, StoreOf
<1> QED BY <1>2, <1>3, <1>4 DEF StoresInStep

LEMMA SaveInStep ==
  ASSUME TypeInv, NEW t \in Tasks, NEW f \in States, NEW ss \in Contents,
         ss.backups = stores.backups, ss.names.object = stores.names.object,
         Current, Follows(ss.names, NameUsers \ {t}), Follows(stores.backups, BackupUsers),
         pc[t] # "saving", setup' = setup, Save(t, f, ss)
  PROVE  StoresInStep'
<1> DEFINE h == History(ss)
           same == h # <<>> /\ Newest(h).state = f
           new == IF same THEN h ELSE Trimmed(Append(h, [id |-> t, state |-> f]))
           b == stores.backups
<1>1. new \in Histories
  BY SaveContents
<1>2. stores' = [ss EXCEPT !.backups = Put(ss.backups, t, new)]
  BY DEF Save
<1>3. /\ pc' = [pc EXCEPT ![t] = "saving"] /\ on' = [on EXCEPT ![t] = b.object]
  BY DEF Save
<1> HIDE DEF new
<1>4. stores'.names = ss.names /\ stores'.backups = Put(b, t, new)
  BY <1>2 DEF Contents
<1>5. /\ pc \in [Tasks -> Running \union {"idle", "done", "lost"}] /\ on \in [Tasks -> Gens]
      /\ Setup \notin Tasks /\ b \in StoreRecords(Histories)
  BY StoreAssumption DEF TypeInv, WorkOK, Contents
<1>6. t \in Tasks \union {Setup} /\ t \in Callers \ BackupUsers /\ BackupUsers \in SUBSET Callers
  BY UserFacts DEF BackupUsers, Callers
<1>7. NameUsers' = NameUsers \ {t} /\ BackupUsers' = BackupUsers \union {t}
  BY <1>3, <1>5 DEF NameUsers, BackupUsers
<1> HIDE DEF b
<1>8. Put(b, t, new) \in StoreRecords(Histories)
  BY <1>1, <1>5, <1>6, PutFacts
<1>9. Put(b, t, new).object = b.object
  BY <1>1, <1>5, <1>6, <1>8, PutFacts
<1>10. Follows(Put(b, t, new), BackupUsers \union {t})
  BY <1>1, <1>5, <1>6, PutFollows DEF b
<1>11. Current'
  <2> SUFFICES ASSUME NEW u \in Tasks, pc'[u] \in Waiting PROVE on'[u] = StoreOf(u)'.object
    BY DEF Current
  <2>1. CASE u = t
    BY <1>3, <1>4, <1>5, <1>9, <2>1 DEF StoreOf
  <2>2. CASE u # t
    <3>1. pc'[u] = pc[u] /\ on'[u] = on[u]
      BY <1>3, <1>5, <2>2
    <3>2. on[u] = StoreOf(u).object
      BY <3>1 DEF Current
    <3> QED BY <1>4, <1>9, <3>1, <3>2 DEF StoreOf, b
  <2> QED BY <2>1, <2>2
<1> QED BY <1>4, <1>7, <1>10, <1>11 DEF StoresInStep

LEMMA RememberInStep ==
  ASSUME TypeInv, StoresInStep, NEW t \in Tasks, NEW n \in CachedNames,
         pc[t] \notin Waiting, setup' = setup, Remember(t, n)
  PROVE  StoresInStep'
<1> DEFINE s == stores.names
<1>1. /\ stores' = [stores EXCEPT !.names = Put(s, t, n)]
      /\ pc' = [pc EXCEPT ![t] = "naming"] /\ on' = [on EXCEPT ![t] = s.object]
  BY DEF Remember
<1>2. /\ pc \in [Tasks -> Running \union {"idle", "done", "lost"}] /\ on \in [Tasks -> Gens]
      /\ Setup \notin Tasks /\ s \in StoreRecords(CachedNames) /\ stores \in Contents
  BY StoreAssumption DEF TypeInv, WorkOK, Contents
<1>3. stores'.names = Put(s, t, n) /\ stores'.backups = stores.backups
  BY <1>1, <1>2 DEF Contents
<1>4. t \in Tasks \union {Setup} /\ t \in Callers \ NameUsers /\ NameUsers \in SUBSET Callers
  BY <1>2, UserFacts DEF NameUsers, Callers, Waiting
<1>5. NameUsers' = NameUsers \union {t} /\ BackupUsers' = BackupUsers
  BY <1>1, <1>2 DEF NameUsers, BackupUsers, Waiting
<1>6. Follows(s, NameUsers)
  BY DEF StoresInStep
<1> HIDE DEF s
<1>7. Put(s, t, n) \in StoreRecords(CachedNames)
  BY <1>2, <1>4, PutFacts
<1>8. Put(s, t, n).object = s.object
  BY <1>2, <1>4, <1>7, PutFacts
<1>9. Follows(Put(s, t, n), NameUsers \union {t})
  BY <1>2, <1>4, <1>6, PutFollows
<1>10. Current'
  <2> SUFFICES ASSUME NEW u \in Tasks, pc'[u] \in Waiting PROVE on'[u] = StoreOf(u)'.object
    BY DEF Current
  <2>1. CASE u = t
    BY <1>1, <1>2, <1>3, <1>8, <2>1 DEF StoreOf
  <2>2. CASE u # t
    <3>1. pc'[u] = pc[u] /\ on'[u] = on[u]
      BY <1>1, <1>2, <2>2
    <3>2. on[u] = StoreOf(u).object
      BY <3>1 DEF StoresInStep, Current
    <3> QED BY <1>3, <1>8, <3>1, <3>2 DEF StoreOf, s
  <2> QED BY <2>1, <2>2
<1> QED BY <1>3, <1>5, <1>9, <1>10 DEF StoresInStep

(* The await of a save of the names returns, and one of a save of the backups. *)
LEMMA NamesResume ==
  ASSUME TypeInv, StoresInStep, NEW t \in Tasks, pc[t] = "naming", setup' = setup,
         NEW s \in StoreRecords(CachedNames), s.object = stores.names.object,
         Follows(s, NameUsers \ {t}), Resume(t, s)
  PROVE  StoresInStep'
<1> DEFINE ss == [stores EXCEPT !.names = s]
<1>1. stores \in Contents /\ pc \in [Tasks -> Running \union {"idle", "done", "lost"}]
      /\ Setup \notin Tasks
  BY StoreAssumption DEF TypeInv, WorkOK
<1>2. ss \in Contents /\ ss.names = s /\ ss.backups = stores.backups
  BY <1>1 DEF Contents
<1>3. WithStoreOf(t, s) = ss
  BY DEF WithStoreOf
<1>4. held[t] \in States
  BY DEF TypeInv, WorkOK
<1> HIDE DEF ss
<1>5. CASE Save(t, held[t], ss)
  BY <1>2, <1>4, <1>5, SaveInStep DEF StoresInStep
<1>6. CASE stores' = ss /\ pc' = [pc EXCEPT ![t] = "shown"] /\ UNCHANGED on
  <2>1. NameUsers' = NameUsers \ {t} /\ BackupUsers' = BackupUsers
    BY <1>1, <1>6 DEF NameUsers, BackupUsers
  <2>2. Current'
    <3> SUFFICES ASSUME NEW u \in Tasks, pc'[u] \in Waiting PROVE on'[u] = StoreOf(u)'.object
      BY DEF Current
    <3>1. u # t /\ pc'[u] = pc[u]
      BY <1>1, <1>6 DEF Waiting
    <3> QED BY <1>2, <1>6, <3>1 DEF StoresInStep, Current, StoreOf
  <2> QED BY <1>2, <1>6, <2>1, <2>2 DEF StoresInStep
<1> QED BY <1>3, <1>5, <1>6 DEF Resume

LEMMA BackupsResume ==
  ASSUME TypeInv, StoresInStep, NEW t \in Tasks, pc[t] = "saving", setup' = setup,
         NEW s \in StoreRecords(Histories), s.object = stores.backups.object,
         Follows(s, BackupUsers \ {t}), Resume(t, s)
  PROVE  StoresInStep'
<1>1. stores \in Contents /\ pc \in [Tasks -> Running \union {"idle", "done", "lost"}]
  BY DEF TypeInv, WorkOK
<1>2. stores' = [stores EXCEPT !.backups = s] /\ pc' = [pc EXCEPT ![t] = "done"] /\ UNCHANGED on
  BY DEF Resume, WithStoreOf
<1>3. stores'.names = stores.names /\ stores'.backups = s
  BY <1>1, <1>2 DEF Contents
<1>4. NameUsers' = NameUsers /\ BackupUsers' = BackupUsers \ {t}
  BY <1>1, <1>2 DEF NameUsers, BackupUsers
<1>5. Current'
  <2> SUFFICES ASSUME NEW u \in Tasks, pc'[u] \in Waiting PROVE on'[u] = StoreOf(u)'.object
    BY DEF Current
  <2>1. u # t /\ pc'[u] = pc[u]
    BY <1>1, <1>2 DEF Waiting
  <2> QED BY <1>2, <1>3, <2>1 DEF StoresInStep, Current, StoreOf
<1> QED BY <1>3, <1>4, <1>5 DEF StoresInStep

LEMMA AskInStep ==
  ASSUME TypeInv, InStep, NEW t \in Tasks, Ask(t), ~raced' PROVE InStep'
<1>1. setup \notin Reloading /\ StoresInStep
  BY DEF Ask, InStep, StoresInStep
<1>2. stores \in Contents /\ dev \in States /\ Setup \notin Tasks
  BY StoreAssumption DEF TypeInv
<1>3. ASSUME pc[t] = "idle" PROVE NameUsers \ {t} = NameUsers
  BY <1>2, <1>3 DEF NameUsers
<1>5. CASE Read(t)
  <2>1. pc[t] = "idle" /\ UNCHANGED <<setup, fetched>>
    BY <1>5 DEF Read
  <2>2. CASE Save(t, dev, stores)
    <3>1. StoresInStep'
      BY <1>1, <1>2, <1>3, <2>1, <2>2, SaveInStep DEF StoresInStep
    <3> QED BY <1>1, <2>1, <3>1, CalmInStep
  <2>3. CASE Remember(t, dev.name)
    <3>1. dev.name \in CachedNames
      BY <1>2, StateNames DEF CachedNames
    <3>2. StoresInStep'
      BY <1>1, <2>1, <2>3, <3>1, RememberInStep DEF Waiting
    <3> QED BY <1>1, <2>1, <3>2, CalmInStep
  <2> QED BY <1>5, <2>2, <2>3 DEF Read
<1>6. CASE Encrypt(t) \/ Rename(t)
  <2>1. pc[t] = "idle" /\ UNCHANGED <<stores, on, setup, fetched>>
        /\ \E next \in {"syncing", "renamed"} : pc' = [pc EXCEPT ![t] = next]
    BY <1>6 DEF Encrypt, Rename
  <2>2. StoresInStep'
    BY <1>1, <2>1, SteadyInStep DEF Waiting
  <2> QED BY <1>1, <2>1, <2>2, CalmInStep
<1>7. CASE Delete(t)
  <2> DEFINE h == History(stores)
             b == stores.backups
  <2>1. h \in Histories /\ b \in StoreRecords(Histories)
    BY <1>2 DEF Contents, History, InMemory, StoreRecords
  <2>2. /\ pc[t] = "idle" /\ pc' = [pc EXCEPT ![t] = "saving"]
        /\ on' = [on EXCEPT ![t] = b.object] /\ UNCHANGED <<setup, fetched>>
    BY <1>7 DEF Delete
  <2>3. PICK i \in DOMAIN h : stores' = [stores EXCEPT !.backups = Put(b, t, Without(h, i))]
    BY <1>7 DEF Delete
  <2> DEFINE n == Without(h, i)
  <2> HIDE DEF h
  <2>4. n \in Histories
    BY <2>1, WithoutFacts
  <2> HIDE DEF n
  <2>5. stores'.names = stores.names /\ stores'.backups = Put(b, t, n)
    BY <1>2, <2>3 DEF Contents, n
  <2>6. t \in Tasks \union {Setup} /\ t \in Callers \ BackupUsers /\ BackupUsers \in SUBSET Callers
    BY <2>2, UserFacts DEF BackupUsers, Callers
  <2>7. pc \in [Tasks -> Running \union {"idle", "done", "lost"}] /\ on \in [Tasks -> Gens]
    BY DEF TypeInv, WorkOK
  <2>8. NameUsers' = NameUsers /\ BackupUsers' = BackupUsers \union {t}
    BY <2>2, <2>7 DEF NameUsers, BackupUsers
  <2>9. Follows(b, BackupUsers)
    BY <1>1 DEF StoresInStep
  <2> HIDE DEF b
  <2>10. Put(b, t, n) \in StoreRecords(Histories)
    BY <2>1, <2>4, <2>6, PutFacts
  <2>11. Put(b, t, n).object = b.object
    BY <2>1, <2>4, <2>6, <2>10, PutFacts
  <2>12. Follows(Put(b, t, n), BackupUsers \union {t})
    BY <2>1, <2>4, <2>6, <2>9, PutFollows
  <2>13. Current'
    <3> SUFFICES ASSUME NEW u \in Tasks, pc'[u] \in Waiting PROVE on'[u] = StoreOf(u)'.object
      BY DEF Current
    <3>1. CASE u = t
      BY <2>2, <2>5, <2>7, <2>11, <3>1 DEF StoreOf
    <3>2. CASE u # t
      <4>1. pc'[u] = pc[u] /\ on'[u] = on[u]
        BY <2>2, <2>7, <3>2
      <4>2. on[u] = StoreOf(u).object
        BY <1>1, <4>1 DEF StoresInStep, Current
      <4> QED BY <2>5, <2>11, <4>1, <4>2 DEF StoreOf, b
    <3> QED BY <3>1, <3>2
  <2>14. StoresInStep'
    BY <1>1, <2>5, <2>8, <2>12, <2>13 DEF StoresInStep
  <2> QED BY <1>1, <2>2, <2>14, CalmInStep
<1> QED BY <1>5, <1>6, <1>7 DEF Ask

LEMMA ProgressInStep ==
  ASSUME TypeInv, InStep, NEW t \in Tasks, Progress(t) PROVE InStep'
<1>1. StoresInStep /\ stores \in Contents /\ Setup \notin Tasks
  BY StoreAssumption DEF InStep, StoresInStep, TypeInv
<1>2. pc[t] \in Running /\ UNCHANGED <<setup, fetched>>
  BY DEF Progress, EncryptSaves, RenameRemembers, PanelSaves, PanelGone, TakeTurn,
         Written, NothingLeft, Running, Waiting, loading
<1>3. setup \notin Reloading
  BY <1>2 DEF InStep
<1>4. StoresInStep'
  <2>1. CASE EncryptSaves(t) \/ PanelSaves(t)
    <3>1. pc[t] \in {"syncing", "shown"} /\ Save(t, held[t], stores)
      BY <2>1 DEF EncryptSaves, PanelSaves
    <3>2. held[t] \in States /\ NameUsers \ {t} = NameUsers
      BY <1>1, <3>1 DEF TypeInv, WorkOK, NameUsers
    <3> QED BY <1>1, <1>2, <3>1, <3>2, SaveInStep DEF StoresInStep
  <2>2. CASE RenameRemembers(t)
    <3>1. pc[t] = "renamed" /\ NewName[t] \in CachedNames
      BY <2>2, StoreAssumption DEF RenameRemembers, CachedNames
    <3>2. CASE Remember(t, NewName[t])
      BY <1>1, <1>2, <3>1, <3>2, RememberInStep DEF Waiting
    <3>3. CASE pc' = [pc EXCEPT ![t] = "shown"] /\ UNCHANGED <<stores, on>>
      BY <1>1, <1>2, <3>1, <3>3, SteadyInStep DEF Waiting
    <3> QED BY <2>2, <3>2, <3>3 DEF RenameRemembers
  <2>3. CASE PanelGone(t)
    <3>1. pc[t] = "shown" /\ pc' = [pc EXCEPT ![t] = "done"] /\ UNCHANGED <<stores, on>>
      BY <2>3 DEF PanelGone
    <3> QED BY <1>1, <1>2, <3>1, SteadyInStep DEF Waiting
  <2>4. CASE TakeTurn(t) /\ pc[t] = "naming"
    <3> DEFINE s == stores.names
    <3>1. /\ s.writer[on[t]] = Nobody /\ s.pend[on[t]] # Nobody
          /\ stores' = [stores EXCEPT !.names = StartWrite(s, on[t], t)] /\ UNCHANGED <<pc, on>>
      BY <2>4 DEF TakeTurn, StoreOf, WithStoreOf, work
    <3>2. on[t] = s.object
      BY <1>1, <2>4 DEF StoresInStep, Current, StoreOf, Waiting
    <3>3. s \in StoreRecords(CachedNames) /\ t \in NameUsers /\ Follows(s, NameUsers)
          /\ NameUsers \in SUBSET Callers /\ s.object \in Gens /\ t \in Tasks \union {Setup}
      BY <1>1, <2>4, UserFacts DEF Contents, StoreRecords, NameUsers, StoresInStep
    <3> HIDE DEF s
    <3>4. Follows(StartWrite(s, s.object, t), NameUsers)
      BY <3>1, <3>2, <3>3, TurnFollows
    <3>5. StartWrite(s, s.object, t) \in StoreRecords(CachedNames)
      BY <3>1, <3>2, <3>3, StartWriteFacts
    <3>6. StartWrite(s, s.object, t).object = s.object
      BY <3>1, <3>2, <3>3, <3>5, StartWriteFacts
    <3>7. stores'.names = StartWrite(s, s.object, t) /\ stores'.backups = stores.backups
      BY <1>1, <3>1, <3>2 DEF Contents
    <3>8. Current'
      BY <1>1, <3>1, <3>6, <3>7 DEF StoresInStep, Current, StoreOf, s
    <3>9. NameUsers' = NameUsers /\ BackupUsers' = BackupUsers
      BY <1>2, <3>1 DEF NameUsers, BackupUsers
    <3> QED BY <1>1, <3>4, <3>7, <3>8, <3>9 DEF StoresInStep
  <2>5. CASE TakeTurn(t) /\ pc[t] = "saving"
    <3> DEFINE s == stores.backups
    <3>1. /\ s.writer[on[t]] = Nobody /\ s.pend[on[t]] # Nobody
          /\ stores' = [stores EXCEPT !.backups = StartWrite(s, on[t], t)] /\ UNCHANGED <<pc, on>>
      BY <2>5 DEF TakeTurn, StoreOf, WithStoreOf, work
    <3>2. on[t] = s.object
      BY <1>1, <2>5 DEF StoresInStep, Current, StoreOf, Waiting
    <3>3. s \in StoreRecords(Histories) /\ t \in BackupUsers /\ Follows(s, BackupUsers)
          /\ BackupUsers \in SUBSET Callers /\ s.object \in Gens /\ t \in Tasks \union {Setup}
      BY <1>1, <2>5, UserFacts DEF Contents, StoreRecords, BackupUsers, StoresInStep
    <3> HIDE DEF s
    <3>4. Follows(StartWrite(s, s.object, t), BackupUsers)
      BY <3>1, <3>2, <3>3, TurnFollows
    <3>5. StartWrite(s, s.object, t) \in StoreRecords(Histories)
      BY <3>1, <3>2, <3>3, StartWriteFacts
    <3>6. StartWrite(s, s.object, t).object = s.object
      BY <3>1, <3>2, <3>3, <3>5, StartWriteFacts
    <3>7. stores'.backups = StartWrite(s, s.object, t) /\ stores'.names = stores.names
      BY <1>1, <3>1, <3>2 DEF Contents
    <3>8. Current'
      BY <1>1, <3>1, <3>6, <3>7 DEF StoresInStep, Current, StoreOf, s
    <3>9. NameUsers' = NameUsers /\ BackupUsers' = BackupUsers
      BY <1>2, <3>1 DEF NameUsers, BackupUsers
    <3> QED BY <1>1, <3>4, <3>7, <3>8, <3>9 DEF StoresInStep
  <2>6. CASE (Written(t) \/ NothingLeft(t)) /\ pc[t] = "naming"
    <3> DEFINE s == stores.names
    <3>1. s.object = on[t] /\ s \in StoreRecords(CachedNames) /\ t \in NameUsers
          /\ Follows(s, NameUsers) /\ NameUsers \in SUBSET Callers /\ s.object \in Gens
      BY <1>1, <2>6, UserFacts DEF Contents, StoreRecords, NameUsers, StoresInStep,
                                  Current, StoreOf, Waiting
    <3>2. CASE s.writer[on[t]] = t /\ Resume(t, EndWrite(s, on[t]))
      <4>1. Follows(EndWrite(s, s.object), NameUsers \ {t})
        BY <3>1, <3>2, EndFollows
      <4>2. EndWrite(s, s.object) \in StoreRecords(CachedNames)
        BY <3>1, EndWriteFacts
      <4>3. EndWrite(s, s.object).object = s.object
        BY <3>1, <4>2, EndWriteFacts
      <4> QED BY <1>1, <1>2, <2>6, <3>1, <3>2, <4>1, <4>2, <4>3, NamesResume
    <3>3. CASE s.writer[on[t]] = Nobody /\ s.pend[on[t]] = Nobody /\ Resume(t, s)
      <4>1. Follows(s, NameUsers \ {t})
        BY <3>1, <3>3, LeaveFollows
      <4> QED BY <1>1, <1>2, <2>6, <3>1, <3>3, <4>1, NamesResume
    <3> QED BY <2>6, <3>2, <3>3 DEF Written, NothingLeft, StoreOf
  <2>7. CASE (Written(t) \/ NothingLeft(t)) /\ pc[t] = "saving"
    <3> DEFINE s == stores.backups
    <3>1. s.object = on[t] /\ s \in StoreRecords(Histories) /\ t \in BackupUsers
          /\ Follows(s, BackupUsers) /\ BackupUsers \in SUBSET Callers /\ s.object \in Gens
      BY <1>1, <2>7, UserFacts DEF Contents, StoreRecords, BackupUsers, StoresInStep,
                                  Current, StoreOf, Waiting
    <3>2. CASE s.writer[on[t]] = t /\ Resume(t, EndWrite(s, on[t]))
      <4>1. Follows(EndWrite(s, s.object), BackupUsers \ {t})
        BY <3>1, <3>2, EndFollows
      <4>2. EndWrite(s, s.object) \in StoreRecords(Histories)
        BY <3>1, EndWriteFacts
      <4>3. EndWrite(s, s.object).object = s.object
        BY <3>1, <4>2, EndWriteFacts
      <4> QED BY <1>1, <1>2, <2>7, <3>1, <3>2, <4>1, <4>2, <4>3, BackupsResume
    <3>3. CASE s.writer[on[t]] = Nobody /\ s.pend[on[t]] = Nobody /\ Resume(t, s)
      <4>1. Follows(s, BackupUsers \ {t})
        BY <3>1, <3>3, LeaveFollows
      <4> QED BY <1>1, <1>2, <2>7, <3>1, <3>3, <4>1, BackupsResume
    <3> QED BY <2>7, <3>2, <3>3 DEF Written, NothingLeft, StoreOf
  <2>8. TakeTurn(t) \/ Written(t) \/ NothingLeft(t) => pc[t] = "naming" \/ pc[t] = "saving"
    BY DEF TakeTurn, Written, NothingLeft, Waiting
  <2> QED BY <2>1, <2>2, <2>3, <2>4, <2>5, <2>6, <2>7, <2>8 DEF Progress
<1> QED BY <1>2, <1>3, <1>4, CalmInStep

(* Setup: no task is under way while the stores are replaced, and the seeded  *)
(* names are saved as any others.                                             *)
LEMMA SeedInStep ==
  ASSUME NEW ss \in Contents, Follows(ss.names, {}), NEW label \in {"starting", "seeding"},
         SeedAndSave(ss, label), \A t \in Tasks : pc'[t] # "naming"
  PROVE  Follows(stores.names, NameUsers)' /\ stores'.backups = ss.backups
<1>1. ss.names \in StoreRecords(CachedNames) /\ Seed(ss) \in CachedNames
      /\ Setup \in Callers \ {}  /\ {} \in SUBSET Callers
  BY SeedName DEF Contents, Callers
<1>2. Follows(Put(ss.names, Setup, Seed(ss)), {} \union {Setup})
  BY <1>1, PutFollows
<1>3. CASE stores' = ss /\ setup' = "ready"
  <2>1. NameUsers' = {}
    BY <1>3 DEF NameUsers
  <2> QED BY <1>3, <2>1
<1>4. CASE stores' = [ss EXCEPT !.names = Put(ss.names, Setup, Seed(ss))] /\ setup' = label
  <2>1. NameUsers' = {} \union {Setup}
    BY <1>4 DEF NameUsers
  <2>2. stores'.names = Put(ss.names, Setup, Seed(ss)) /\ stores'.backups = ss.backups
    BY <1>4 DEF Contents
  <2> QED BY <1>2, <2>1, <2>2
<1> QED BY <1>3, <1>4 DEF SeedAndSave

LEMMA SetupInStep ==
  ASSUME TypeInv, InStep, SetupProgress \/ Reload \/ Crash, ~raced' PROVE InStep'
<1>1. /\ stores \in Contents /\ Setup \notin Tasks /\ StoresInStep
      /\ stores.names \in StoreRecords(CachedNames) /\ stores.backups \in StoreRecords(Histories)
      /\ stores.names.object \in Gens /\ stores.backups.object \in Gens
      /\ stores.names.disk \in CachedNames /\ stores.backups.disk \in Histories
      /\ NameUsers \in SUBSET Callers
  BY UserFacts, StoreAssumption DEF TypeInv, InStep, StoresInStep, Contents, StoreRecords
(* While a file is read nobody uses a store: what is in memory is in the file. *)
<1>2. ASSUME setup \in Reloading \union {"ready"}, \A t \in Tasks : pc[t] \notin Running
      PROVE  /\ NameUsers = {} /\ BackupUsers = {}
             /\ stores.names.writer[stores.names.object] = Nobody
             /\ stores.names.pend[stores.names.object] = Nobody
             /\ InMemory(stores.names) = stores.names.disk
             /\ stores.backups.writer[stores.backups.object] = Nobody
             /\ stores.backups.pend[stores.backups.object] = Nobody
             /\ InMemory(stores.backups) = stores.backups.disk
  <2>1. NameUsers = {} /\ BackupUsers = {}
    BY <1>2 DEF NameUsers, BackupUsers, Running, Waiting, Reloading
  <2>2. Follows(stores.names, {}) /\ Follows(stores.backups, {})
    BY <1>1, <2>1 DEF StoresInStep
  <2> QED BY <2>1, <2>2, QuietFollows
<1>3. ASSUME \A t \in Tasks : pc'[t] \notin Running
      PROVE  Current' /\ BackupUsers' = {}
  BY <1>3 DEF Current, BackupUsers, Running, Waiting
<1>4. CASE Reload
  <2> DEFINE s == stores.names
             n == [s EXCEPT !.object = s.object + 1]
  <2>1. /\ setup = "ready" /\ setup' = "names" /\ UNCHANGED <<pc, fetched>>
        /\ \A t \in Tasks : pc[t] \notin Running
        /\ stores' = [stores EXCEPT !.names.object = s.object + 1]
    BY <1>4 DEF Reload, work
  <2>2. stores'.names = n /\ stores'.backups = stores.backups
    BY <1>1, <2>1 DEF Contents
  <2>3. /\ n.disk = s.disk /\ InMemory(n) = InMemory(s) /\ n.object = s.object + 1
        /\ n.writer = s.writer /\ n.pend = s.pend
    BY <1>1 DEF StoreRecords, InMemory
  <2>4. \A g \in Gens : s.writer[g] = Nobody /\ s.pend[g] = Nobody
    BY <1>1, <1>2, <2>1 DEF StoresInStep, Follows
  <2>5. s.object + 1 \in Gens
    BY <1>4, SetupType, <2>2, <2>3 DEF TypeInv, Contents, StoreRecords
  <2>6. InMemory(s) = s.disk
    BY <1>2, <2>1
  <2> HIDE DEF s, n
  <2>7. Follows(n, {})
    BY <2>3, <2>4, <2>5, <2>6 DEF Follows
  <2>8. NameUsers' = {}
    BY <2>1 DEF NameUsers, Running, Waiting
  <2>9. Follows(stores.backups, BackupUsers)'
    BY <1>1, <1>2, <1>3, <2>1, <2>2 DEF StoresInStep
  <2>10. fetched' = Nobody
    BY <2>1 DEF TypeInv, LoadOK, Reloading
  <2> QED BY <1>3, <2>1, <2>2, <2>7, <2>8, <2>9, <2>10 DEF InStep
<1>5. CASE ReadFile
  <2>1. /\ setup \in Reloading /\ UNCHANGED <<pc, on, stores, setup>>
        /\ fetched' = IF setup = "names" THEN stores.names.disk ELSE stores.backups.disk
    BY <1>5 DEF ReadFile, work
  <2>2. StoresInStep'
    BY <1>1, <2>1 DEF StoresInStep, Current, StoreOf, NameUsers, BackupUsers
  <2> QED BY <2>1, <2>2 DEF InStep, StoresInStep, Reloading
<1>6. CASE NamesLoaded
  <2> DEFINE s == stores.names
             g == stores.names.object
             n == [s EXCEPT !.dict = g, !.shelf[g] = fetched]
  <2>1. /\ setup = "names" /\ fetched # Nobody /\ setup' = "backups" /\ fetched' = Nobody
        /\ UNCHANGED pc /\ \A t \in Tasks : pc[t] \notin Running
        /\ stores' = [stores EXCEPT !.names.dict = g, !.names.shelf[g] = fetched]
    BY <1>6 DEF NamesLoaded, work, InStep, Reloading
  <2>2. stores'.names = n /\ stores'.backups = stores.backups
    BY <1>1, <2>1 DEF Contents
  <2>3. fetched = s.disk
    BY <2>1 DEF InStep
  <2>4. /\ n.disk = s.disk /\ InMemory(n) = fetched /\ n.object = g
        /\ n.writer = s.writer /\ n.pend = s.pend
    BY <1>1 DEF StoreRecords, InMemory
  <2>5. \A x \in Gens : s.writer[x] = Nobody /\ s.pend[x] = Nobody
    BY <1>1, <1>2, <2>1 DEF StoresInStep, Follows, Reloading
  <2>6. g \in Gens
    BY <1>1
  <2> HIDE DEF s, n, g
  <2>7. Follows(n, {})
    BY <2>3, <2>4, <2>5, <2>6 DEF Follows
  <2>8. NameUsers' = {}
    BY <2>1 DEF NameUsers, Running, Waiting
  <2>9. Follows(stores.backups, BackupUsers)'
    BY <1>1, <1>2, <1>3, <2>1, <2>2 DEF StoresInStep, Reloading
  <2> QED BY <1>3, <2>1, <2>2, <2>7, <2>8, <2>9 DEF InStep
<1>7. CASE BackupsLoaded
  <2> DEFINE g == stores.names.object
             s == stores.backups
             b == [s EXCEPT !.dict = g, !.object = g, !.shelf[g] = fetched]
             ss == [stores EXCEPT !.backups.dict = g, !.backups.object = g,
                                  !.backups.shelf[g] = fetched]
  <2>1. /\ setup = "backups" /\ fetched # Nobody /\ fetched' = Nobody
        /\ UNCHANGED pc /\ \A t \in Tasks : pc[t] \notin Running
        /\ SeedAndSave(ss, "seeding")
    BY <1>7 DEF BackupsLoaded, work, InStep, Reloading
  <2>2. fetched \in Histories /\ fetched = s.disk
    BY <2>1 DEF TypeInv, LoadOK, InStep
  <2>3. ss \in Contents /\ ss.names = stores.names /\ ss.backups = b
    BY <1>1, <2>2 DEF Contents, StoreRecords
  <2>4. /\ b.disk = s.disk /\ InMemory(b) = fetched /\ b.object = g
        /\ b.writer = s.writer /\ b.pend = s.pend /\ g \in Gens
    BY <1>1 DEF StoreRecords, InMemory
  <2>5. \A x \in Gens : s.writer[x] = Nobody /\ s.pend[x] = Nobody
    BY <1>1, <1>2, <2>1 DEF StoresInStep, Follows, Reloading
  <2>6. Follows(stores.names, {})
    BY <1>1, <1>2, <2>1 DEF StoresInStep, Reloading
  <2> HIDE DEF ss, b, s, g
  <2>7. Follows(b, {})
    BY <2>2, <2>4, <2>5 DEF Follows
  <2>8. \A t \in Tasks : pc'[t] # "naming"
    BY <2>1 DEF Running, Waiting
  <2>9. Follows(stores.names, NameUsers)' /\ stores'.backups = b
    BY <2>1, <2>3, <2>6, <2>8, SeedInStep
  <2>10. setup' \notin Reloading
    BY <2>1 DEF SeedAndSave, Reloading
  <2> QED BY <1>3, <2>1, <2>7, <2>9, <2>10 DEF InStep
<1>8. CASE SeedTurn
  <2> DEFINE s == stores.names
  <2>1. /\ setup \in {"starting", "seeding"}
        /\ s.writer[s.object] = Nobody /\ s.pend[s.object] # Nobody
        /\ stores' = [stores EXCEPT !.names = StartWrite(s, s.object, Setup)]
        /\ UNCHANGED <<pc, on, setup, fetched>>
    BY <1>8 DEF SeedTurn, work, loading
  <2>2. Setup \in NameUsers /\ Follows(s, NameUsers) /\ Setup \in Tasks \union {Setup}
    BY <1>1, <2>1 DEF NameUsers, StoresInStep
  <2>3. s \in StoreRecords(CachedNames) /\ s.object \in Gens
    BY <1>1
  <2>4. stores'.names = StartWrite(s, s.object, Setup) /\ stores'.backups = stores.backups
    BY <1>1, <2>1 DEF Contents
  <2>5. NameUsers' = NameUsers /\ BackupUsers' = BackupUsers
    BY <2>1 DEF NameUsers, BackupUsers
  <2> HIDE DEF s
  <2>6. Follows(StartWrite(s, s.object, Setup), NameUsers)
    BY <1>1, <2>1, <2>2, <2>3, TurnFollows
  <2>7. StartWrite(s, s.object, Setup) \in StoreRecords(CachedNames)
    BY <2>1, <2>2, <2>3, StartWriteFacts
  <2>8. StartWrite(s, s.object, Setup).object = s.object
    BY <2>1, <2>2, <2>3, <2>7, StartWriteFacts
  <2>9. Current'
    BY <1>1, <2>1, <2>4, <2>8 DEF StoresInStep, Current, StoreOf, s
  <2>10. StoresInStep'
    BY <1>1, <2>4, <2>5, <2>6, <2>9 DEF StoresInStep
  <2> QED BY <2>1, <2>10, CalmInStep DEF Reloading
<1>9. CASE Seeded
  <2> DEFINE s == stores.names
  <2>1. /\ setup \in {"starting", "seeding"} /\ setup' = "ready" /\ UNCHANGED <<pc, on, fetched>>
    BY <1>9 DEF Seeded, work
  <2>2. fetched = Nobody
    BY <2>1 DEF TypeInv, LoadOK, Reloading
  <2>3. Setup \in NameUsers /\ Follows(s, NameUsers) /\ NameUsers' = NameUsers \ {Setup}
        /\ BackupUsers' = BackupUsers
    BY <1>1, <2>1 DEF NameUsers, BackupUsers, StoresInStep
  <2>4. s \in StoreRecords(CachedNames) /\ s.object \in Gens
    BY <1>1
  <2>5. CASE s.writer[s.object] = Setup /\ stores' = [stores EXCEPT !.names = EndWrite(s, s.object)]
    <3>1. stores'.names = EndWrite(s, s.object) /\ stores'.backups = stores.backups
      BY <1>1, <2>5 DEF Contents
    <3>2. Follows(EndWrite(s, s.object), NameUsers \ {Setup})
      BY <1>1, <2>3, <2>4, <2>5, EndFollows
    <3>3. EndWrite(s, s.object) \in StoreRecords(CachedNames)
      BY <2>4, EndWriteFacts
    <3>4. EndWrite(s, s.object).object = s.object
      BY <2>4, <3>3, EndWriteFacts
    <3>5. Current'
      BY <1>1, <2>1, <3>1, <3>4 DEF StoresInStep, Current, StoreOf
    <3>6. Follows(stores.names, NameUsers)' /\ Follows(stores.backups, BackupUsers)'
      BY <1>1, <2>3, <3>1, <3>2 DEF StoresInStep
    <3> QED BY <2>1, <2>2, <3>5, <3>6 DEF InStep, Reloading
  <2>6. CASE s.writer[s.object] = Nobody /\ s.pend[s.object] = Nobody /\ UNCHANGED stores
    <3>1. Follows(s, NameUsers \ {Setup})
      BY <2>3, <2>6, LeaveFollows
    <3>2. Current'
      BY <1>1, <2>1, <2>6 DEF StoresInStep, Current, StoreOf
    <3>3. Follows(stores.names, NameUsers)' /\ Follows(stores.backups, BackupUsers)'
      BY <1>1, <2>3, <2>6, <3>1 DEF StoresInStep
    <3> QED BY <2>1, <2>2, <3>2, <3>3 DEF InStep, Reloading
  <2> QED BY <1>9, <2>5, <2>6 DEF Seeded
<1>10. CASE Crash
  <2> DEFINE a == Loaded(stores.names.disk, NoName)
             b == Loaded(stores.backups.disk, <<>>)
             ss == [names |-> a, backups |-> b]
  <2>1. /\ SeedAndSave(ss, "starting") /\ fetched' = Nobody
        /\ pc' = [t \in Tasks |-> IF pc[t] \in Running THEN "lost" ELSE pc[t]]
    BY <1>10 DEF Crash
  <2>2. NoName \in CachedNames /\ <<>> \in Histories
    BY NoHistory DEF CachedNames
  <2>3. a \in StoreRecords(CachedNames) /\ b \in StoreRecords(Histories)
    BY <1>1, <2>2, LoadedFacts
  <2>4. Follows(a, {}) /\ Follows(b, {})
    BY <1>1, <2>2, FreshFollows
  <2> HIDE DEF a, b
  <2>5. ss \in Contents /\ ss.names = a /\ ss.backups = b
    BY <2>3 DEF Contents
  <2> HIDE DEF ss
  <2>6. \A t \in Tasks : pc'[t] \notin Running
    BY <2>1 DEF Running, Waiting
  <2>7. \A t \in Tasks : pc'[t] # "naming"
    BY <2>6 DEF Running, Waiting
  <2>8. Follows(stores.names, NameUsers)' /\ stores'.backups = b
    BY <2>1, <2>4, <2>5, <2>7, SeedInStep
  <2> QED BY <1>3, <2>1, <2>4, <2>6, <2>8 DEF InStep
<1> QED BY <1>4, <1>5, <1>6, <1>7, <1>8, <1>9, <1>10 DEF SetupProgress

LEMMA StoreInvStep == TypeInv /\ StoreInv /\ [Next]_vars => StoreInv'
<1> SUFFICES ASSUME TypeInv, StoreInv, [Next]_vars, ~raced' PROVE InStep'
  BY DEF StoreInv
<1>1. CASE UNCHANGED vars
  <2>1. InStep
    BY <1>1 DEF StoreInv, vars, loading
  <2> QED BY <1>1, <2>1 DEF InStep, Current, StoreOf, NameUsers, BackupUsers, vars, work, loading
<1>2. ASSUME NEW t \in Tasks, Ask(t) \/ Progress(t) PROVE InStep'
  <2>1. InStep
    BY <1>2 DEF StoreInv, Ask, Progress, EncryptSaves, RenameRemembers, PanelSaves, PanelGone,
                TakeTurn, Written, NothingLeft, loading
  <2> QED BY <1>2, <2>1, AskInStep, ProgressInStep
<1>3. CASE SetupProgress \/ Reload \/ Crash
  <2>1. InStep
    BY <1>3 DEF StoreInv, SetupProgress, Reload, Crash, ReadFile, NamesLoaded, BackupsLoaded,
                SeedTurn, Seeded, loading
  <2> QED BY <1>3, <2>1, SetupInStep
<1> QED BY <1>1, <1>2, <1>3 DEF Next, Finished

LEMMA StoreInvInit == Init => StoreInv
BY InStepInit DEF StoreInv

LEMMA QuietInSync == InStep => FilesInSync
<1> SUFFICES ASSUME InStep, Quiet
             PROVE  stores.names.disk = CachedName /\ stores.backups.disk = History(stores)
  BY DEF FilesInSync
<1>1. NameUsers = {} /\ BackupUsers = {}
  BY DEF Quiet, NameUsers, BackupUsers, Running, Waiting
<1>2. Follows(stores.names, {}) /\ Follows(stores.backups, {})
  BY <1>1 DEF InStep
<1> QED BY <1>2, QuietFollows DEF CachedName, History

(* Whenever nothing is under way, the files hold what the dicts in hass.data  *)
(* hold, of any number of overlapping saves, crashes, and reloads that no     *)
(* task overlaps: nothing was left to a save that did not write it            *)
(* (backups.async_save, gatt.async_remember_ble_name).                        *)
THEOREM FilesCorrect == Spec => []FilesInSync
<1>1. StoreInv => FilesInSync
  BY QuietInSync DEF StoreInv, FilesInSync
<1> QED BY <1>1, TypeInvInit, TypeInvStep, StoreInvInit, StoreInvStep, PTL DEF Spec

-----------------------------------------------------------------------------
(* What was answered, in each place the history is in: in memory (m), in the *)
(* file (d), and on its way there (k) while w writes it.  The work of the    *)
(* tasks is a parameter too: where they are (p), what was added (a) and      *)
(* removed (r), and what each delete was asked for (g).                      *)
Saved(p) == {t \in Tasks : p[t] \in {"saving", "done", "lost"}}

Sound(p, h) == Ids(h) \subseteq Saved(p) /\ Distinct(h)

Kept(a, r, g, t, h) ==
  /\ t \in a => t \in r \union Ids(h)
  /\ Kind[t] = "delete" => g[t] \notin Ids(h)

Safe(p, a, r, g, m, d, w, k) ==
  /\ a \subseteq Saved(p)
  /\ \A t \in Tasks : Kind[t] = "delete" /\ p[t] \in {"saving", "done"} => g[t] \in Saved(p)
  /\ Sound(p, m) /\ Sound(p, d) /\ (w # Nobody => Sound(p, k))
  /\ \A t \in Tasks :
       /\ p[t] \in {"saving", "done"} => Kept(a, r, g, t, m)
       /\ p[t] = "done" => Kept(a, r, g, t, d) /\ (w # Nobody => Kept(a, r, g, t, k))
       /\ w = t => Kept(a, r, g, t, k)

SafeStore(s) ==
  Safe(pc, added, removed, target, InMemory(s), s.disk, s.writer[s.object], s.taken[s.object])

Promises == SafeStore(stores.backups)
PromiseInv == ~raced => Promises

(* t puts n in memory, which keeps every snapshot it does not remove: the     *)
(* work becomes p2, a2, r2 and g2.                                            *)
Puts(p, a, r, g, m, w, t, p2, a2, r2, g2, n) ==
  /\ t \notin Saved(p) /\ w # t
  /\ p \in [Tasks -> Running \union {"idle", "done", "lost"}]
  /\ p2 = [p EXCEPT ![t] = "saving"]
  /\ a2 \subseteq a \union {t} /\ r \subseteq r2
  /\ \A u \in Tasks \ {t} : g2[u] = g[u]
  /\ Distinct(n) /\ Ids(n) \subseteq Ids(m) \union {t} /\ Ids(m) \subseteq Ids(n) \union r2
  /\ Kept(a2, r2, g2, t, n)
  /\ Kind[t] = "delete" => g2[t] \in Saved(p)

LEMMA PutSafe ==
  ASSUME NEW p, NEW a, NEW r, NEW g, NEW m, NEW d, NEW w, NEW k, Safe(p, a, r, g, m, d, w, k),
         NEW t \in Tasks, NEW p2, NEW a2, NEW r2, NEW g2, NEW n,
         Puts(p, a, r, g, m, w, t, p2, a2, r2, g2, n)
  PROVE  /\ Safe(p2, a2, r2, g2, n, d, w, k)
         /\ Safe(p2, a2, r2, g2, n, d, t, n)
<1> USE DEF Puts
<1>1. p2[t] = "saving" /\ \A u \in Tasks \ {t} : p2[u] = p[u]
  OBVIOUS
<1>2. Saved(p2) = Saved(p) \union {t}
  BY <1>1 DEF Saved
<1>3. a2 \subseteq Saved(p2)
  BY <1>2 DEF Safe
<1>4. \A u \in Tasks : Kind[u] = "delete" /\ p2[u] \in {"saving", "done"} => g2[u] \in Saved(p2)
  BY <1>1, <1>2 DEF Safe
<1>5. /\ Sound(p2, n) /\ Sound(p2, d) /\ (w # Nobody => Sound(p2, k))
  BY <1>2 DEF Safe, Sound
<1>6. ASSUME NEW u \in Tasks \ {t}, p2[u] \in {"saving", "done"} PROVE Kept(a2, r2, g2, u, n)
  <2>1. Kept(a, r, g, u, m) /\ p[u] \in {"saving", "done"}
    BY <1>1, <1>6 DEF Safe
  <2>2. Kind[u] = "delete" => g[u] \in Saved(p)
    BY <2>1 DEF Safe
  <2> QED BY <2>1, <2>2 DEF Kept
<1>7. ASSUME NEW u \in Tasks \ {t}, NEW h, Kept(a, r, g, u, h) PROVE Kept(a2, r2, g2, u, h)
  BY <1>7 DEF Kept
<1>8. \A u \in Tasks :
        /\ p2[u] \in {"saving", "done"} => Kept(a2, r2, g2, u, n)
        /\ p2[u] = "done" => Kept(a2, r2, g2, u, d) /\ (w # Nobody => Kept(a2, r2, g2, u, k))
        /\ w = u => Kept(a2, r2, g2, u, k)
  <2> TAKE u \in Tasks
  <2>1. CASE u = t
    BY <1>1, <2>1
  <2>2. CASE u # t
    <3>1. /\ p2[u] = "done" => Kept(a, r, g, u, d) /\ (w # Nobody => Kept(a, r, g, u, k))
          /\ w = u => Kept(a, r, g, u, k)
      BY <1>1, <2>2 DEF Safe
    <3> QED BY <1>6, <1>7, <2>2, <3>1
  <2> QED BY <2>1, <2>2
<1>9. Safe(p2, a2, r2, g2, n, d, w, k)
  BY <1>3, <1>4, <1>5, <1>8 DEF Safe
<1>10. Safe(p2, a2, r2, g2, n, d, t, n)
  BY <1>3, <1>4, <1>5, <1>6, <1>8 DEF Safe
<1> QED BY <1>9, <1>10

(* t goes on with nothing saved. *)
LEMMA GoneSafe ==
  ASSUME NEW p, NEW a, NEW r, NEW g, NEW m, NEW d, NEW w, NEW k, Safe(p, a, r, g, m, d, w, k),
         NEW t \in Tasks, t \notin Saved(p), Kind[t] # "delete",
         p \in [Tasks -> Running \union {"idle", "done", "lost"}], NEW next
  PROVE  Safe([p EXCEPT ![t] = next], a, r, g, m, d, w, k)
<1> DEFINE p2 == [p EXCEPT ![t] = next]
<1>1. p2[t] = next /\ \A u \in Tasks \ {t} : p2[u] = p[u]
  OBVIOUS
<1> HIDE DEF p2
<1>2. Saved(p) \subseteq Saved(p2) /\ t \notin a
  BY <1>1 DEF Saved, Safe
<1>3. \A h : Kept(a, r, g, t, h) /\ (Sound(p, h) => Sound(p2, h))
  BY <1>2 DEF Kept, Sound
<1>4. \A u \in Tasks :
        /\ p2[u] \in {"saving", "done"} => Kept(a, r, g, u, m)
        /\ p2[u] = "done" => Kept(a, r, g, u, d) /\ (w # Nobody => Kept(a, r, g, u, k))
        /\ w = u => Kept(a, r, g, u, k)
  BY <1>1, <1>3 DEF Safe
<1>5. \A u \in Tasks : Kind[u] = "delete" /\ p2[u] \in {"saving", "done"} => g[u] \in Saved(p2)
  BY <1>1, <1>2 DEF Safe
<1>6. Safe(p2, a, r, g, m, d, w, k)
  BY <1>2, <1>3, <1>4, <1>5 DEF Safe
<1> QED BY <1>6 DEF p2

(* t takes the lock and writes what is in memory. *)
LEMMA TurnSafe ==
  ASSUME NEW p, NEW a, NEW r, NEW g, NEW m, NEW d, NEW w, NEW k, Safe(p, a, r, g, m, d, w, k),
         NEW t \in Tasks, p[t] = "saving"
  PROVE  Safe(p, a, r, g, m, d, t, m)
BY DEF Safe

(* t has written: what was on its way is in the file. *)
LEMMA EndSafe ==
  ASSUME NEW p, NEW a, NEW r, NEW g, NEW m, NEW d, NEW t \in Tasks, NEW k,
         Safe(p, a, r, g, m, d, t, k), p[t] = "saving",
         p \in [Tasks -> Running \union {"idle", "done", "lost"}]
  PROVE  Safe([p EXCEPT ![t] = "done"], a, r, g, m, k, Nobody, k)
<1> DEFINE p2 == [p EXCEPT ![t] = "done"]
<1>1. p2[t] = "done" /\ \A u \in Tasks \ {t} : p2[u] = p[u]
  OBVIOUS
<1> HIDE DEF p2
<1>2. Saved(p2) = Saved(p) /\ t # Nobody /\ \A u \in Tasks : Nobody # u
  BY <1>1, StoreAssumption DEF Saved
<1>3. \A h : Sound(p, h) => Sound(p2, h)
  BY <1>2 DEF Sound
<1>4. \A u \in Tasks :
        /\ p2[u] \in {"saving", "done"} => Kept(a, r, g, u, m)
        /\ p2[u] = "done" => Kept(a, r, g, u, k)
  BY <1>1, <1>2 DEF Safe
<1>5. Safe(p2, a, r, g, m, k, Nobody, k)
  BY <1>1, <1>2, <1>3, <1>4 DEF Safe
<1> QED BY <1>5 DEF p2

(* t finds that the file already has what is in memory. *)
LEMMA WrittenSafe ==
  ASSUME NEW p, NEW a, NEW r, NEW g, NEW d, NEW k, Safe(p, a, r, g, d, d, Nobody, k),
         NEW t \in Tasks, p[t] = "saving",
         p \in [Tasks -> Running \union {"idle", "done", "lost"}]
  PROVE  Safe([p EXCEPT ![t] = "done"], a, r, g, d, d, Nobody, k)
<1>1. Safe(p, a, r, g, d, d, t, d)
  BY TurnSafe
<1>2. Safe([p EXCEPT ![t] = "done"], a, r, g, d, d, Nobody, d)
  BY <1>1, EndSafe
<1>3. \A u \in Tasks : Nobody # u
  BY StoreAssumption
<1> QED BY <1>2, <1>3 DEF Safe

(* Nobody waits for a write, or everyone who did is gone: what is in the file *)
(* becomes what is in memory.                                                 *)
LEMMA LoadSafe ==
  ASSUME NEW p, NEW a, NEW r, NEW g, NEW m, NEW d, NEW w, NEW k, Safe(p, a, r, g, m, d, w, k),
         NEW k2,
         p \in [Tasks -> Running \union {"idle", "done", "lost"}]
  PROVE  LET p2 == [t \in Tasks |-> IF p[t] \in Running THEN "lost" ELSE p[t]]
         IN Safe(p2, a, r, g, d, d, Nobody, k2)
<1> DEFINE p2 == [t \in Tasks |-> IF p[t] \in Running THEN "lost" ELSE p[t]]
<1>1. \A u \in Tasks : /\ p2[u] \notin {"saving"}
                       /\ p2[u] = "done" => p[u] = "done"
                       /\ p[u] \in {"saving", "done", "lost"} => p2[u] \in {"done", "lost"}
  BY DEF Running, Waiting
<1> HIDE DEF p2
<1>2. Saved(p) \subseteq Saved(p2) /\ \A u \in Tasks : Nobody # u
  BY <1>1, StoreAssumption DEF Saved
<1>3. \A h : Sound(p, h) => Sound(p2, h)
  BY <1>2 DEF Sound
<1>4. Safe(p2, a, r, g, d, d, Nobody, k2)
  BY <1>1, <1>2, <1>3 DEF Safe
<1> QED BY <1>4 DEF p2

-----------------------------------------------------------------------------
(* Every action keeps the promises. *)
LEMMA PutPromises ==
  ASSUME TypeInv, StoresInStep, Promises, NEW t \in Tasks, t \notin Saved(pc),
         NEW n \in Histories, stores'.backups = Put(stores.backups, t, n),
         pc' = [pc EXCEPT ![t] = "saving"],
         added' \subseteq added \union {t}, removed \subseteq removed',
         \A u \in Tasks \ {t} : target'[u] = target[u],
         Distinct(n), Ids(n) \subseteq Ids(History(stores)) \union {t},
         Ids(History(stores)) \subseteq Ids(n) \union removed',
         Kept(added', removed', target', t, n),
         Kind[t] = "delete" => target'[t] \in Saved(pc)
  PROVE  Promises'
<1> DEFINE s == stores.backups
           b == Put(s, t, n)
           m == InMemory(s)
           d == s.disk
           w == s.writer[s.object]
           k == s.taken[s.object]
<1>1. /\ s \in StoreRecords(Histories) /\ t \in Tasks \union {Setup}
      /\ pc \in [Tasks -> Running \union {"idle", "done", "lost"}]
  BY DEF TypeInv, WorkOK, Contents
<1>2. w # t
  <2>1. w \in BackupUsers \union {Nobody}
    BY DEF StoresInStep, Follows
  <2> QED BY <2>1, StoreAssumption DEF BackupUsers, Saved
<1>3. Safe(pc, added, removed, target, m, d, w, k) /\ m = History(stores)
  BY DEF Promises, SafeStore, History
<1>4. b \in StoreRecords(Histories)
  BY <1>1, PutFacts
<1>5. b.disk = d /\ b.object = s.object
  BY <1>1, <1>4, PutFacts
<1>6. InMemory(b) = n
  BY <1>1, <1>4, PutFacts
<1>7. \/ b.writer[s.object] = w /\ b.taken[s.object] = k
      \/ b.writer[s.object] = t /\ b.taken[s.object] = n
  <2>1. CASE w = Nobody /\ s.pend[s.object] = Nobody
    BY <1>1, <2>1, PutFree
  <2>2. CASE ~(w = Nobody /\ s.pend[s.object] = Nobody)
    BY <1>1, <2>2, PutQueued
  <2> QED BY <2>1, <2>2
<1> HIDE DEF m, d, w, k, b
<1>8. /\ Safe(pc', added', removed', target', n, d, w, k)
      /\ Safe(pc', added', removed', target', n, d, t, n)
  <2>1. Ids(n) \subseteq Ids(m) \union {t} /\ Ids(m) \subseteq Ids(n) \union removed'
    BY <1>3
  <2>2. Puts(pc, added, removed, target, m, w, t, pc', added', removed', target', n)
    BY <1>1, <1>2, <2>1 DEF Puts
  <2> QED BY <1>3, <2>2, PutSafe
<1>9. stores'.backups = b
  BY DEF b
<1> HIDE DEF s
<1> QED BY <1>5, <1>6, <1>7, <1>8, <1>9 DEF Promises, SafeStore

LEMMA SavePromises ==
  ASSUME TypeInv, StoresInStep, Promises, NEW t \in Tasks, t \notin Saved(pc),
         Kind[t] # "delete", NEW f \in States, NEW ss \in Contents,
         ss.backups = stores.backups, Save(t, f, ss)
  PROVE  Promises'
<1> DEFINE h == History(ss)
           snap == [id |-> t, state |-> f]
           same == h # <<>> /\ Newest(h).state = f
           new == IF same THEN h ELSE Trimmed(Append(h, snap))
<1>1. h \in Histories /\ new \in Histories /\ snap \in Snapshots /\ snap.id = t
  BY SaveContents
<1>2. h = History(stores)
  BY DEF History
<1>3. stores' = [ss EXCEPT !.backups = Put(ss.backups, t, new)]
  BY DEF Save
<1>4. stores'.backups = Put(stores.backups, t, new)
  <2> HIDE DEF new
  <2> QED BY <1>3 DEF Contents
<1>5. /\ pc' = [pc EXCEPT ![t] = "saving"] /\ target' = target
      /\ added' = (IF same THEN added ELSE added \union {t})
      /\ removed' = removed \union (Ids(h) \ Ids(new))
  BY DEF Save
<1>6. Sound(pc, h) /\ t \notin Ids(h) /\ t \notin added
  BY <1>2 DEF Promises, SafeStore, Safe, Sound, History
<1>7. Distinct(new) /\ Ids(new) \subseteq Ids(h) \union {t} /\ (~same => t \in Ids(new))
  <2>1. CASE same
    BY <1>6, <2>1 DEF Sound
  <2>2. CASE ~same
    <3> HIDE DEF h, snap, same
    <3>1. new = Trimmed(Append(h, snap))
      BY <2>2
    <3> HIDE DEF new
    <3> QED BY <1>1, <1>6, <3>1, TrimmedFacts DEF Sound
  <2> QED BY <2>1, <2>2
<1> HIDE DEF h, new, same
<1>8. Kept(added', removed', target', t, new)
  BY <1>5, <1>6, <1>7 DEF Kept
<1>9. added' \subseteq added \union {t} /\ removed \subseteq removed' /\ Ids(h) \subseteq Ids(new) \union removed'
  BY <1>5
<1> QED BY <1>1, <1>2, <1>4, <1>5, <1>7, <1>8, <1>9, PutPromises

(* The backups stay as they are while t goes on. *)
LEMMA OtherPromises ==
  ASSUME TypeInv, Promises, NEW t \in Tasks, t \notin Saved(pc), Kind[t] # "delete",
         stores'.backups = stores.backups, NEW next, pc' = [pc EXCEPT ![t] = next],
         UNCHANGED <<added, removed, target>>
  PROVE  Promises'
<1>1. pc \in [Tasks -> Running \union {"idle", "done", "lost"}]
  BY DEF TypeInv, WorkOK
<1> QED BY <1>1, GoneSafe DEF Promises, SafeStore

LEMMA SamePromises ==
  Promises /\ stores'.backups = stores.backups /\ UNCHANGED <<pc, added, removed, target>>
    => Promises'
BY DEF Promises, SafeStore

LEMMA AskPromises ==
  ASSUME TypeInv, InStep, Promises, NEW t \in Tasks, Ask(t) PROVE Promises'
<1>1. StoresInStep /\ stores \in Contents /\ dev \in States
  BY DEF InStep, StoresInStep, TypeInv
<1>2. pc[t] = "idle"
  BY DEF Ask, Read, Encrypt, Rename, Delete
<1>3. t \notin Saved(pc)
  BY <1>2 DEF Saved
<1>4. CASE Read(t)
  <2>1. Kind[t] # "delete"
    BY <1>4 DEF Read
  <2>2. CASE Save(t, dev, stores)
    BY <1>1, <1>3, <2>1, <2>2, SavePromises
  <2>3. CASE Remember(t, dev.name)
    <3>1. stores'.backups = stores.backups /\ pc' = [pc EXCEPT ![t] = "naming"]
          /\ UNCHANGED <<added, removed, target>>
      BY <1>1, <2>3 DEF Remember, Contents
    <3> QED BY <1>3, <2>1, <3>1, OtherPromises
  <2> QED BY <1>4, <2>2, <2>3 DEF Read
<1>5. CASE Encrypt(t) \/ Rename(t)
  <2>1. Kind[t] # "delete" /\ UNCHANGED <<stores, added, removed, target>>
        /\ \E next \in {"syncing", "renamed"} : pc' = [pc EXCEPT ![t] = next]
    BY <1>5 DEF Encrypt, Rename
  <2> QED BY <1>3, <2>1, OtherPromises
<1>6. CASE Delete(t)
  <2> DEFINE h == History(stores)
  <2>1. h \in Histories /\ Sound(pc, h) /\ pc \in [Tasks -> Running \union {"idle", "done", "lost"}]
        /\ target \in [Tasks -> Tasks \union {Nobody}] /\ added \subseteq Saved(pc)
    BY <1>1 DEF Contents, History, InMemory, StoreRecords, Promises, SafeStore, Safe, TypeInv, WorkOK
  <2>2. PICK i \in DOMAIN h :
          /\ stores' = [stores EXCEPT !.backups = Put(stores.backups, t, Without(h, i))]
          /\ removed' = removed \union {h[i].id}
          /\ target' = [target EXCEPT ![t] = h[i].id]
    BY <1>6 DEF Delete
  <2>3. pc' = [pc EXCEPT ![t] = "saving"] /\ added' = added
    BY <1>6 DEF Delete
  <2> DEFINE n == Without(h, i)
  <2> HIDE DEF h
  <2>4. /\ n \in Histories /\ Distinct(n) /\ h[i].id \notin Ids(n)
        /\ Ids(h) \ {h[i].id} \subseteq Ids(n) /\ Ids(n) \subseteq Ids(h)
    BY <2>1, WithoutFacts DEF Sound
  <2>5. h[i].id \in Saved(pc)
    BY <2>1 DEF Sound, Ids
  <2> HIDE DEF n
  <2>6. stores'.backups = Put(stores.backups, t, n)
    BY <1>1, <2>2 DEF Contents, n
  <2>7. target'[t] = h[i].id /\ \A u \in Tasks \ {t} : target'[u] = target[u]
    BY <2>1, <2>2
  <2>8. Kept(added', removed', target', t, n)
    BY <1>3, <2>1, <2>3, <2>4, <2>7 DEF Kept
  <2>9. Ids(n) \subseteq Ids(History(stores)) \union {t}
        /\ Ids(History(stores)) \subseteq Ids(n) \union removed'
    BY <2>2, <2>4 DEF h
  <2> QED BY <1>1, <1>3, <2>2, <2>3, <2>4, <2>5, <2>6, <2>7, <2>8, <2>9, PutPromises
<1> QED BY <1>4, <1>5, <1>6 DEF Ask

LEMMA ProgressPromises ==
  ASSUME TypeInv, InStep, Promises, NEW t \in Tasks, Progress(t) PROVE Promises'
<1>1. /\ StoresInStep /\ stores \in Contents
      /\ stores.backups \in StoreRecords(Histories) /\ stores.backups.object \in Gens
      /\ pc \in [Tasks -> Running \union {"idle", "done", "lost"}]
  BY DEF InStep, StoresInStep, TypeInv, Contents, StoreRecords, WorkOK
<1>2. ASSUME pc[t] \in {"naming", "syncing", "renamed", "shown"}
      PROVE  t \notin Saved(pc) /\ Kind[t] # "delete" /\ held[t] \in States
  BY <1>2 DEF Saved, TypeInv, WorkOK
<1>3. CASE EncryptSaves(t) \/ PanelSaves(t)
  <2>1. pc[t] \in {"syncing", "shown"} /\ Save(t, held[t], stores)
    BY <1>3 DEF EncryptSaves, PanelSaves
  <2> QED BY <1>1, <1>2, <2>1, SavePromises
<1>4. CASE RenameRemembers(t) \/ PanelGone(t)
  <2>1. pc[t] \in {"renamed", "shown"} /\ stores'.backups = stores.backups
        /\ UNCHANGED <<added, removed, target>>
    BY <1>1, <1>4 DEF RenameRemembers, PanelGone, Remember, Contents
  <2>2. \E next \in {"naming", "shown", "done"} : pc' = [pc EXCEPT ![t] = next]
    BY <1>4 DEF RenameRemembers, PanelGone, Remember
  <2> QED BY <1>2, <2>1, <2>2, OtherPromises
<1>5. CASE TakeTurn(t) /\ pc[t] = "naming"
  <2>1. stores'.backups = stores.backups /\ UNCHANGED <<pc, added, removed, target>>
    BY <1>1, <1>5 DEF TakeTurn, WithStoreOf, Contents, work
  <2> QED BY <2>1, SamePromises
<1>6. CASE TakeTurn(t) /\ pc[t] = "saving"
  <2> DEFINE s == stores.backups
             b == StartWrite(s, s.object, t)
  <2>1. on[t] = s.object
    BY <1>1, <1>6 DEF StoresInStep, Current, StoreOf, Waiting
  <2>2. /\ s.pend[s.object] # Nobody /\ stores' = [stores EXCEPT !.backups = b]
        /\ UNCHANGED <<pc, added, removed, target>> /\ t \in Tasks \union {Setup}
    BY <1>6, <2>1 DEF TakeTurn, StoreOf, WithStoreOf, work
  <2>3. b \in StoreRecords(Histories)
    BY <1>1, <2>2, StartWriteFacts
  <2>4. b.disk = s.disk /\ b.object = s.object
    BY <1>1, <2>2, <2>3, StartWriteFacts
  <2>5. InMemory(b) = InMemory(s)
    BY <1>1, <2>2, <2>3, StartWriteFacts
  <2>6. b.writer[s.object] = t /\ b.taken[s.object] = s.shelf[s.pend[s.object]]
    BY <1>1, <2>2, StartWriteQueue
  <2>7. s.shelf[s.pend[s.object]] = InMemory(s)
    BY <1>1, <2>2 DEF StoresInStep, Follows, InMemory
  <2>8. stores'.backups = b
    BY <1>1, <2>2 DEF Contents
  <2>9. SafeStore(s)
    BY DEF Promises
  <2> HIDE DEF b, s
  <2>10. Safe(pc, added, removed, target, InMemory(s), s.disk, t, InMemory(s))
    BY <1>6, <2>9, TurnSafe DEF SafeStore
  <2> QED BY <2>2, <2>4, <2>5, <2>6, <2>7, <2>8, <2>10 DEF Promises, SafeStore
<1>7. CASE (Written(t) \/ NothingLeft(t)) /\ pc[t] = "naming"
  <2> DEFINE n == IF Written(t) THEN EndWrite(stores.names, on[t]) ELSE stores.names
             ss == [stores EXCEPT !.names = n]
  <2>1. Resume(t, n)
    BY <1>7 DEF Written, NothingLeft, StoreOf
  <2>2. ss \in Contents /\ ss.backups = stores.backups /\ WithStoreOf(t, n) = ss
    <3>1. stores.names \in StoreRecords(CachedNames) /\ on[t] \in Gens
      BY <1>1 DEF TypeInv, WorkOK, Contents
    <3>2. n \in StoreRecords(CachedNames)
      BY <3>1, EndWriteFacts
    <3> HIDE DEF n
    <3> QED BY <1>1, <1>7, <3>2 DEF Contents, WithStoreOf
  <2> HIDE DEF n, ss
  <2>3. CASE Save(t, held[t], ss)
    BY <1>1, <1>2, <1>7, <2>2, <2>3, SavePromises
  <2>4. CASE stores' = ss /\ pc' = [pc EXCEPT ![t] = "shown"] /\ UNCHANGED <<added, removed, target>>
    BY <1>2, <1>7, <2>2, <2>4, OtherPromises
  <2> QED BY <1>7, <2>1, <2>2, <2>3, <2>4 DEF Resume
<1>8. CASE Written(t) /\ pc[t] = "saving"
  <2> DEFINE s == stores.backups
             b == EndWrite(s, s.object)
             k == s.taken[s.object]
  <2>1. on[t] = s.object
    BY <1>1, <1>8 DEF StoresInStep, Current, StoreOf, Waiting
  <2>2. s.writer[s.object] = t /\ Resume(t, b)
    BY <1>8, <2>1 DEF Written, StoreOf
  <2>3. /\ pc' = [pc EXCEPT ![t] = "done"] /\ UNCHANGED <<added, removed, target>>
        /\ stores' = [stores EXCEPT !.backups = b]
    BY <1>8, <2>2 DEF Resume, WithStoreOf
  <2>4. b \in StoreRecords(Histories)
    BY <1>1, EndWriteFacts
  <2>5. b.disk = k /\ b.object = s.object
    BY <1>1, <2>4, EndWriteFacts
  <2>6. InMemory(b) = InMemory(s)
    BY <1>1, <2>4, EndWriteFacts
  <2>7. b.writer[s.object] = Nobody /\ b.taken = s.taken
    BY <1>1, EndWriteQueue
  <2>8. stores'.backups = b
    BY <1>1, <2>3 DEF Contents
  <2>9. Safe(pc, added, removed, target, InMemory(s), s.disk, t, k)
    BY <2>2 DEF Promises, SafeStore
  <2>10. b.taken[s.object] = k
    BY <2>7
  <2> HIDE DEF b, s, k
  <2>11. Safe(pc', added', removed', target', InMemory(s), k, Nobody, k)
    BY <1>1, <1>8, <2>3, <2>9, EndSafe
  <2> QED BY <2>5, <2>6, <2>7, <2>8, <2>10, <2>11 DEF Promises, SafeStore
<1>9. CASE NothingLeft(t) /\ pc[t] = "saving"
  <2> DEFINE s == stores.backups
             k == s.taken[s.object]
  <2>1. on[t] = s.object
    BY <1>1, <1>9 DEF StoresInStep, Current, StoreOf, Waiting
  <2>2. s.writer[s.object] = Nobody /\ s.pend[s.object] = Nobody /\ Resume(t, s)
    BY <1>9, <2>1 DEF NothingLeft, StoreOf
  <2>3. /\ pc' = [pc EXCEPT ![t] = "done"] /\ UNCHANGED <<added, removed, target>>
        /\ stores' = [stores EXCEPT !.backups = s]
    BY <1>9, <2>2 DEF Resume, WithStoreOf
  <2>4. stores'.backups = s
    BY <1>1, <2>3 DEF Contents
  <2>5. InMemory(s) = s.disk
    BY <1>1, <2>2 DEF StoresInStep, Follows
  <2>6. Safe(pc, added, removed, target, s.disk, s.disk, Nobody, k)
    BY <2>2, <2>5 DEF Promises, SafeStore
  <2>7. Safe(pc', added', removed', target', s.disk, s.disk, Nobody, k)
    <3> HIDE DEF s, k
    <3> QED BY <1>1, <1>9, <2>3, <2>6, WrittenSafe
  <2> QED BY <2>2, <2>4, <2>5, <2>7 DEF Promises, SafeStore
<1>10. TakeTurn(t) \/ Written(t) \/ NothingLeft(t) => pc[t] = "naming" \/ pc[t] = "saving"
  BY DEF TakeTurn, Written, NothingLeft, Waiting
<1> QED BY <1>3, <1>4, <1>5, <1>6, <1>7, <1>8, <1>9, <1>10 DEF Progress

LEMMA SetupPromises ==
  ASSUME TypeInv, InStep, Promises, SetupProgress \/ Reload \/ Crash, ~raced' PROVE Promises'
<1>1. /\ stores \in Contents /\ pc \in [Tasks -> Running \union {"idle", "done", "lost"}]
      /\ stores.names.object \in Gens /\ stores.backups.object \in Gens
      /\ stores.backups.disk \in Histories /\ stores.backups \in StoreRecords(Histories)
      /\ Follows(stores.backups, BackupUsers)
  BY DEF TypeInv, WorkOK, InStep, Contents, StoreRecords
<1> DEFINE s == stores.backups
<1>2. Safe(pc, added, removed, target, InMemory(s), s.disk, s.writer[s.object], s.taken[s.object])
  BY DEF Promises, SafeStore
<1>3. CASE Reload \/ ReadFile \/ NamesLoaded \/ SeedTurn \/ Seeded
  <2>1. stores'.backups = stores.backups /\ UNCHANGED <<pc, added, removed, target>>
    BY <1>1, <1>3 DEF Reload, ReadFile, NamesLoaded, SeedTurn, Seeded, work, Contents
  <2> QED BY <2>1, SamePromises
<1>4. ASSUME NEW ss \in Contents, NEW label, SeedAndSave(ss, label)
      PROVE  stores'.backups = ss.backups
  BY <1>4 DEF SeedAndSave, Contents
<1>5. CASE BackupsLoaded
  <2> DEFINE g == stores.names.object
             b == [s EXCEPT !.dict = g, !.object = g, !.shelf[g] = fetched]
             ss == [stores EXCEPT !.backups.dict = g, !.backups.object = g,
                                  !.backups.shelf[g] = fetched]
  <2>1. /\ setup = "backups" /\ fetched # Nobody
        /\ \A t \in Tasks : pc[t] \notin Running
        /\ UNCHANGED <<pc, added, removed, target>>
        /\ SeedAndSave(ss, "seeding")
    BY <1>5 DEF BackupsLoaded, work, InStep, Reloading
  <2>2. fetched \in Histories /\ fetched = s.disk
    BY <2>1 DEF TypeInv, LoadOK, InStep
  <2>3. ss \in Contents /\ ss.backups = b
    BY <1>1, <2>2 DEF Contents, StoreRecords
  <2>4. /\ b.disk = s.disk /\ InMemory(b) = fetched /\ b.object = g
        /\ b.writer = s.writer /\ b.pend = s.pend /\ b.taken = s.taken /\ g \in Gens
    BY <1>1 DEF StoreRecords, InMemory
  <2>5. BackupUsers = {}
    BY <2>1 DEF BackupUsers, Running, Waiting
  <2>6. s.writer[g] = Nobody
    BY <1>1, <2>5, QuietFollows DEF Follows
  <2>7. stores'.backups = b
    BY <1>4, <2>1, <2>3
  <2>8. pc' = [t \in Tasks |-> IF pc[t] \in Running THEN "lost" ELSE pc[t]]
    BY <1>1, <2>1
  <2> HIDE DEF b, s, ss
  <2>9. Safe(pc', added', removed', target', s.disk, s.disk, Nobody, s.taken[g])
    BY <1>1, <1>2, <2>1, <2>8, LoadSafe
  <2> QED BY <2>2, <2>4, <2>6, <2>7, <2>9 DEF Promises, SafeStore
<1>6. CASE Crash
  <2> DEFINE a == Loaded(stores.names.disk, NoName)
             b == Loaded(s.disk, <<>>)
             ss == [names |-> a, backups |-> b]
  <2>1. /\ SeedAndSave(ss, "starting") /\ UNCHANGED <<added, removed, target>>
        /\ pc' = [t \in Tasks |-> IF pc[t] \in Running THEN "lost" ELSE pc[t]]
    BY <1>6 DEF Crash
  <2>2. NoName \in CachedNames /\ <<>> \in Histories /\ stores.names.disk \in CachedNames
    BY <1>1, NoHistory DEF CachedNames, Contents, StoreRecords
  <2>3. a \in StoreRecords(CachedNames) /\ b \in StoreRecords(Histories)
    BY <1>1, <2>2, LoadedFacts
  <2>4. InMemory(b) = s.disk
    BY <1>1, StoreAssumption DEF Loaded, InMemory, Gens
  <2>5. b.disk = s.disk /\ b.object = 0 /\ 0 \in Gens /\ b.writer[0] = Nobody
    BY StoreAssumption DEF Loaded, Gens
  <2>6. ss \in Contents /\ ss.backups = b
    BY <2>3 DEF Contents
  <2> HIDE DEF a, b, s, ss
  <2>7. stores'.backups = b
    BY <1>4, <2>1, <2>6
  <2>8. Safe(pc', added', removed', target', s.disk, s.disk, Nobody, b.taken[0])
    BY <1>1, <1>2, <2>1, LoadSafe
  <2> QED BY <2>4, <2>5, <2>7, <2>8 DEF Promises, SafeStore
<1> QED BY <1>3, <1>5, <1>6 DEF SetupProgress

LEMMA PromiseInvInit == Init => PromiseInv
<1> SUFFICES ASSUME Init PROVE Promises
  BY DEF PromiseInv
<1> DEFINE s == stores.backups
<1>1. s = Loaded(<<>>, <<>>) /\ 0 \in Gens
  BY StoreAssumption DEF Init, Gens
<1>2. InMemory(s) = <<>> /\ s.disk = <<>> /\ s.writer[s.object] = Nobody
  BY <1>1 DEF Loaded, InMemory
<1>3. added = {} /\ \A t \in Tasks : pc[t] = "idle"
  BY DEF Init
<1>4. \A t \in Tasks : Nobody # t
  BY StoreAssumption
<1> HIDE DEF s
<1>5. SafeStore(s)
  BY <1>2, <1>3, <1>4, NoHistory DEF SafeStore, Safe, Sound
<1> QED BY <1>5 DEF Promises, s

LEMMA PromiseInvStep == TypeInv /\ StoreInv /\ PromiseInv /\ [Next]_vars => PromiseInv'
<1> SUFFICES ASSUME TypeInv, StoreInv, PromiseInv, [Next]_vars, ~raced' PROVE Promises'
  BY DEF PromiseInv
<1>1. CASE UNCHANGED vars
  <2>1. Promises
    BY <1>1 DEF PromiseInv, vars, loading
  <2> QED BY <1>1, <2>1, SamePromises DEF vars, work
<1>2. ASSUME NEW t \in Tasks, Ask(t) \/ Progress(t) PROVE Promises'
  <2>1. InStep /\ Promises
    BY <1>2 DEF StoreInv, PromiseInv, Ask, Progress, EncryptSaves, RenameRemembers, PanelSaves,
                PanelGone, TakeTurn, Written, NothingLeft, loading
  <2> QED BY <1>2, <2>1, AskPromises, ProgressPromises
<1>3. CASE SetupProgress \/ Reload \/ Crash
  <2>1. InStep /\ Promises
    BY <1>3 DEF StoreInv, PromiseInv, SetupProgress, Reload, Crash, ReadFile, NamesLoaded,
                BackupsLoaded, SeedTurn, Seeded, loading
  <2> QED BY <1>3, <2>1, SetupPromises
<1> QED BY <1>1, <1>2, <1>3 DEF Next, Finished

(* A snapshot an answer counted is in the history until it is deleted or      *)
(* pushed out by BACKUP_LIMIT newer ones (backups.py:3-6), of any number of   *)
(* overlapping reads, encryption changes, renames and deletions, crashes at   *)
(* any step, and reloads that no task overlaps.                               *)
THEOREM AnsweredCorrect == Spec => []AnsweredSurvives
<1>1. PromiseInv => AnsweredSurvives
  BY DEF PromiseInv, Promises, SafeStore, Safe, Kept, AnsweredSurvives, AnsweredIsKept, Saved,
         History
<1> QED BY <1>1, TypeInvInit, TypeInvStep, StoreInvInit, StoreInvStep, PromiseInvInit,
           PromiseInvStep, PTL DEF Spec

(* A snapshot whose deletion was answered does not come back, whatever write  *)
(* of an older history ends late, and over crashes and such reloads           *)
(* (backups.async_delete).                                                    *)
THEOREM DeletedCorrect == Spec => []DeletedStaysDeleted
<1>1. PromiseInv => DeletedStaysDeleted
  BY DEF PromiseInv, Promises, SafeStore, Safe, Kept, DeletedStaysDeleted, History
<1> QED BY <1>1, TypeInvInit, TypeInvStep, StoreInvInit, StoreInvStep, PromiseInvInit,
           PromiseInvStep, PTL DEF Spec
=============================================================================

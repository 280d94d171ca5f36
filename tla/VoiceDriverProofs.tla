--------------------------- MODULE VoiceDriverProofs ---------------------------
(***************************************************************************)
(* Both voice drivers implement VoiceContract, for every set of calls and  *)
(* every limit.  Each has its inductive invariant: where a leg that may be *)
(* up is known, and what a message under way says that is not yet known.   *)
(* It is kept by every helper of the driver, so by every action made of    *)
(* them; a step is then a step of the contract, or none (TgStep, WaStep).  *)
(***************************************************************************)
EXTENDS MCVoiceDrivers, FiniteSetTheorems, WellFoundedInduction, TLAPS

-----------------------------------------------------------------------------
(* Sequences of updates and events *)

In(q) == {q[i] : i \in 1..Len(q)}

\* Every element of one kind is there once.
Once(kind, q) == \A i, j \in 1..Len(q) : q[i].kind = kind /\ q[j] = q[i] => i = j

LEMMA TailOf ==
  ASSUME NEW S, NEW q \in Seq(S), NEW kind, q # <<>>, Once(kind, q)
  PROVE  /\ Tail(q) \in Seq(S) /\ Once(kind, Tail(q)) /\ Head(q) \in S
         /\ In(Tail(q)) \subseteq In(q) /\ Head(q) \in In(q)
         /\ Head(q).kind = kind => Head(q) \notin In(Tail(q))
<1>1. /\ Tail(q) \in Seq(S) /\ Len(Tail(q)) = Len(q) - 1 /\ Len(q) \in Nat \ {0}
      /\ \A i \in 1..Len(Tail(q)) : Tail(q)[i] = q[i + 1] /\ i + 1 \in 1..Len(q)
      /\ Head(q) = q[1] /\ 1 \in 1..Len(q) /\ Head(q) \in S
  OBVIOUS
<1>2. Once(kind, Tail(q))
  <2>1. ASSUME NEW i \in 1..Len(Tail(q)), NEW j \in 1..Len(Tail(q)), Tail(q)[i].kind = kind,
               Tail(q)[j] = Tail(q)[i]
        PROVE  i = j
    <3>1. i + 1 = j + 1
      BY <1>1, <2>1 DEF Once
    <3>. QED  BY <3>1
  <2>. QED  BY <2>1 DEF Once
<1>3. In(Tail(q)) \subseteq In(q) /\ Head(q) \in In(q)
  BY <1>1 DEF In
<1>4. ASSUME Head(q).kind = kind, Head(q) \in In(Tail(q))
      PROVE  FALSE
  <2>1. PICK i \in 1..Len(Tail(q)) : Tail(q)[i] = Head(q)
    BY <1>4 DEF In
  <2>2. q[1].kind = kind /\ q[i + 1] = q[1]
    BY <1>1, <1>4, <2>1
  <2>3. i + 1 = 1
    BY <1>1, <2>2 DEF Once
  <2>. QED  BY <2>3
<1>. QED  BY <1>1, <1>2, <1>3, <1>4

LEMMA AppendIs ==
  ASSUME NEW S, NEW q \in Seq(S), NEW u \in S
  PROVE  Append(q, u) \in Seq(S) /\ In(Append(q, u)) = In(q) \cup {u}
<1>1. /\ Append(q, u) \in Seq(S) /\ Len(Append(q, u)) = Len(q) + 1 /\ Len(q) \in Nat
      /\ \A i \in 1..Len(q) : Append(q, u)[i] = q[i] /\ i \in 1..(Len(q) + 1)
      /\ Append(q, u)[Len(q) + 1] = u /\ Len(q) + 1 \in 1..(Len(q) + 1)
      /\ \A i \in 1..(Len(q) + 1) : i \in 1..Len(q) \/ i = Len(q) + 1
  OBVIOUS
<1>. QED  BY <1>1 DEF In

LEMMA AppendOf ==
  ASSUME NEW S, NEW q \in Seq(S), NEW u \in S, NEW kind
  PROVE  /\ Append(q, u) \in Seq(S) /\ In(Append(q, u)) = In(q) \cup {u}
         /\ Once(kind, q) /\ (u.kind = kind => u \notin In(q)) => Once(kind, Append(q, u))
<1>1. /\ Append(q, u) \in Seq(S) /\ Len(Append(q, u)) = Len(q) + 1 /\ Len(q) \in Nat
      /\ \A i \in 1..Len(q) : Append(q, u)[i] = q[i] /\ i \in 1..(Len(q) + 1)
      /\ Append(q, u)[Len(q) + 1] = u /\ Len(q) + 1 \in 1..(Len(q) + 1)
      /\ \A i \in 1..(Len(q) + 1) : i \in 1..Len(q) \/ i = Len(q) + 1
  OBVIOUS
<1>2. In(Append(q, u)) = In(q) \cup {u}
  BY <1>1 DEF In
<1>3. ASSUME Once(kind, q), u.kind = kind => u \notin In(q)
      PROVE  Once(kind, Append(q, u))
  BY <1>1, <1>3 DEF Once, In
<1>. QED  BY <1>1, <1>2, <1>3

LEMMA InOf ==
  ASSUME NEW S, NEW q \in Seq(S)
  PROVE  In(q) \subseteq S
<1>1. \A i \in 1..Len(q) : q[i] \in S
  OBVIOUS
<1>. QED  BY <1>1 DEF In

-----------------------------------------------------------------------------
(* Telegram: the inductive invariant *)

Update == [kind : {"requested", "discarded", "waiting", "accepted", "call"}, ref : Refs]
MaybeRef == Refs \cup {NoRef}
Reserved ==
  [of : {0} \cup Ops, peer : MaybeRef, incoming : BOOLEAN, confirmed : BOOLEAN, connected : BOOLEAN,
   ending : BOOLEAN, uncertain : BOOLEAN, media : {"open", "stopping", "stopped", "stuck"},
   path : BOOLEAN, queue : Seq(Update)]
Waiting ==
  [at : {"none", "idle", "closing", "confirming", "keys", "connecting", "sending", "done"},
   of : {0} \cup Ops, ref : MaybeRef, todo : Seq(Update)]
Driver ==
  [call : Reserved, offers : SUBSET Refs, work : [Owners -> Waiting],
   told : [Refs -> {"nothing", "progress", "uncertain", "ended"}]]
Legs == {"none", "offered", "gone", "down"} \cup TgOurs
Operation ==
  [at : {"none", "identity", "setup", "asked", "accepting", "accepted", "handling", "ending", "over"},
   ref : MaybeRef, aborted : BOOLEAN]

TgTypeOK ==
  /\ drv \in Driver /\ leg \in [Refs -> Legs] /\ op \in [Ops -> Operation]
  /\ host \in {"up", "gone"}

\* A leg of ours is that of the reservation, or the one it has asked for; it is the only one,
\* and ended is told only of one that is down.
LegsOf(s, l) ==
  /\ \A r \in Refs : l[r] \in TgOurs =>
       s.call.of # 0 /\ s.call.peer \in {r, NoRef}
  /\ \A r, q \in Refs : l[r] \in TgOurs /\ l[q] \in TgOurs => r = q
  /\ \A r \in Refs : s.told[r] = "ended" => l[r] \in {"down", "gone"}

\* Nothing is reserved without an operation; what a reservation names is a call whose end
\* has not been told, and no offer.
PeerOf(s, l, p) ==
  /\ s.call.of = 0 => s.call = NoCall
  /\ s.call.of # 0 => p[s.call.of].at \notin {"none", "identity"}
  /\ s.call.peer # NoRef =>
       /\ l[s.call.peer] # "none" /\ s.told[s.call.peer] # "ended"
       /\ s.call.peer \notin s.offers

OffersOf(s, l) ==
  \A r \in s.offers : l[r] \in {"offered", "gone"} /\ s.told[r] # "ended"

\* An offer is announced once, before anything else is known of it.
RequestedOf(s, l) ==
  LET todo == s.work[Chain].todo IN
  /\ \A u \in In(todo) : u.kind = "requested" =>
       /\ l[u.ref] \in {"offered", "gone"} /\ u.ref \notin s.offers
       /\ s.call.peer # u.ref /\ s.told[u.ref] # "ended"
  /\ Once("requested", todo)
  /\ \A o \in Owners \ {Chain} : \A u \in In(s.work[o].todo) : u.kind # "requested"
  /\ \A u \in In(s.call.queue) : u.kind # "requested"

\* `discarded` is told only of a call that is down.
DiscardedOf(s, l) ==
  /\ \A o \in Owners : \A u \in In(s.work[o].todo) :
       u.kind = "discarded" => l[u.ref] \in {"down", "gone"}
  /\ \A u \in In(s.call.queue) : u.kind = "discarded" => l[u.ref] \in {"down", "gone"}

\* What a handler that waits captured.
WorkOf(s, l, p) ==
  \A o \in Owners :
    LET row == s.work[o] IN
    /\ row.of # 0 =>
         /\ row.ref \in Refs /\ p[row.of].at \notin {"none", "identity"}
         /\ row.of = s.call.of => row.ref = s.call.peer
    /\ row.at = "closing" =>
         /\ row.of # 0 /\ row.of = s.call.of /\ s.call.media = "stopping"
         /\ l[row.ref] \in {"down", "gone"}
    /\ row.at \in {"confirming", "keys", "connecting"} => row.of # 0
    /\ row.at = "sending" => row.ref \in Refs /\ l[row.ref] # "none"

\* An operation under way has the reservation; an accept may have lost it with its offer.
OpOf(s, l, p, d) ==
  /\ p[d].at \in {"setup", "asked"} => s.call.of = d /\ s.call.peer = NoRef
  /\ p[d].at = "setup" => \A r \in Refs : l[r] \notin TgOurs
  /\ p[d].at = "asked" =>
       /\ p[d].ref \in Refs /\ l[p[d].ref] \in TgOurs \cup {"down"}
       /\ s.told[p[d].ref] # "ended"
       /\ \A r \in Refs : l[r] \in TgOurs => r = p[d].ref
  /\ p[d].at = "accepting" =>
       /\ p[d].ref \in Refs /\ l[p[d].ref] \in {"offered", "gone"}
       /\ l[p[d].ref] = "offered" => s.call.of = d /\ s.call.peer = p[d].ref
  /\ p[d].at = "accepted" => p[d].ref \in Refs

TgHolds(s, l, p) ==
  /\ LegsOf(s, l) /\ PeerOf(s, l, p) /\ OffersOf(s, l) /\ RequestedOf(s, l) /\ DiscardedOf(s, l)
  /\ WorkOf(s, l, p) /\ \A d \in Ops : OpOf(s, l, p, d)

\* Of a worker that is gone nothing is said but that it does nothing more.
TgInv == TgTypeOK /\ (Up => TgHolds(drv, leg, op))
Ok(s, l, p) == s \in Driver /\ TgHolds(s, l, p)

LEMMA PrependOf ==
  ASSUME NEW q \in Seq(Update), NEW u \in Update
  PROVE  /\ <<u>> \o q \in Seq(Update) /\ In(<<u>> \o q) = {u} \cup In(q)
         /\ Once("requested", q) /\ u.kind # "requested" => Once("requested", <<u>> \o q)
<1>1. PICK v : v = <<u>> \o q
  OBVIOUS
<1>2. /\ v \in Seq(Update) /\ Len(v) = Len(q) + 1 /\ Len(q) \in Nat /\ v[1] = u
      /\ \A i \in 1..Len(q) : v[i + 1] = q[i]
  BY <1>1
<1>3. /\ \A i \in 1..Len(v) : i = 1 \/ (i - 1 \in 1..Len(q) /\ v[i] = q[i - 1])
      /\ 1 \in 1..Len(v) /\ \A i \in 1..Len(q) : i + 1 \in 1..Len(v)
  BY <1>2
<1>4. In(v) = {u} \cup In(q)
  <2>1. \A i \in 1..Len(v) : v[i] \in {u} \cup In(q)
    BY <1>2, <1>3 DEF In
  <2>2. u \in In(v)
    BY <1>2, <1>3 DEF In
  <2>3. \A i \in 1..Len(q) : q[i] \in In(v)
    BY <1>2, <1>3 DEF In
  <2>4. In(v) \subseteq {u} \cup In(q)
    BY <2>1 DEF In
  <2>5. In(q) \subseteq In(v)
    BY <2>3 DEF In
  <2>. QED  BY <2>2, <2>4, <2>5
<1>5. ASSUME Once("requested", q), u.kind # "requested"
      PROVE  Once("requested", v)
  <2>1. ASSUME NEW i \in 1..Len(v), NEW j \in 1..Len(v), v[i].kind = "requested", v[j] = v[i]
        PROVE  i = j
    <3>1. i # 1 /\ j # 1
      BY <1>2, <1>5, <2>1
    <3>2. /\ i - 1 \in 1..Len(q) /\ j - 1 \in 1..Len(q)
          /\ q[i - 1].kind = "requested" /\ q[j - 1] = q[i - 1]
      BY <1>3, <2>1, <3>1
    <3>3. i - 1 = j - 1
      BY <1>5, <3>2 DEF Once
    <3>. QED  BY <3>3
  <2>. QED  BY <2>1 DEF Once
<1>. QED  BY <1>1, <1>2, <1>4, <1>5

LEMMA OneOf ==
  ASSUME NEW u \in Update
  PROVE  /\ <<>> \in Seq(Update) /\ In(<<>>) = {}
         /\ <<u>> \in Seq(Update) /\ In(<<u>>) = {u}
<1>1. <<u>> \in Seq(Update) /\ Len(<<u>>) = 1 /\ <<u>>[1] = u
  OBVIOUS
<1>2. In(<<u>>) = {u}
  BY <1>1 DEF In
<1>3. <<>> \in Seq(Update) /\ In(<<>>) = {}
  BY DEF In
<1>. QED  BY <1>1, <1>2, <1>3

-----------------------------------------------------------------------------
(* A step within the driver *)

Harmless(u, l) == u.kind # "requested" /\ (u.kind = "discarded" => l[u.ref] \in {"down", "gone"})

\* t has no update that s has not, but for some that say nothing new.
Todos(s, t, l) ==
  /\ \A u \in In(t.call.queue) : u \in In(s.call.queue) \/ Harmless(u, l)
  /\ \A o \in Owners : \A u \in In(t.work[o].todo) : u \in In(s.work[o].todo) \/ Harmless(u, l)
  /\ Once("requested", t.work[Chain].todo)

\* The same calls are reserved, offered and ended.
Same(s, t) ==
  /\ t.offers = s.offers /\ t.call.of = s.call.of /\ t.call.peer = s.call.peer
  /\ s.call.of = 0 => t.call = s.call
  /\ \A r \in Refs : t.told[r] = "ended" <=> s.told[r] = "ended"

LEMMA Congruent ==
  ASSUME NEW s \in Driver, NEW t, NEW l \in [Refs -> Legs], NEW p \in [Ops -> Operation],
         TgHolds(s, l, p), Same(s, t), Todos(s, t, l), WorkOf(t, l, p)
  PROVE  TgHolds(t, l, p)
<1>1. LegsOf(t, l)
  BY DEF TgHolds, LegsOf, Same
<1>2. PeerOf(t, l, p)
  BY RefsAssumption DEF TgHolds, PeerOf, Same, Driver, Reserved, MaybeRef, NoCall, Reservation
<1>3. OffersOf(t, l)
  BY DEF TgHolds, OffersOf, Same, Driver
<1>4. Chain \in Owners
  BY DEF Owners
<1>5. RequestedOf(t, l)
  <2>1. \A u \in In(t.work[Chain].todo) : u.kind = "requested" => u \in In(s.work[Chain].todo)
    BY <1>4 DEF Todos, Harmless
  <2>2. \A u \in In(s.work[Chain].todo) : u \in Update
    <3>1. s.work[Chain].todo \in Seq(Update)
      BY <1>4 DEF Driver, Waiting
    <3>. QED  BY <3>1 DEF In
  <2>3. \A u \in In(t.work[Chain].todo) : u.kind = "requested" =>
          /\ l[u.ref] \in {"offered", "gone"} /\ u.ref \notin t.offers
          /\ t.call.peer # u.ref /\ t.told[u.ref] # "ended"
    BY <2>1, <2>2 DEF TgHolds, RequestedOf, Same, Update
  <2>4. \A o \in Owners \ {Chain} : \A u \in In(t.work[o].todo) : u.kind # "requested"
    BY DEF TgHolds, RequestedOf, Todos, Harmless
  <2>5. \A u \in In(t.call.queue) : u.kind # "requested"
    BY DEF TgHolds, RequestedOf, Todos, Harmless
  <2>. QED  BY <2>3, <2>4, <2>5 DEF RequestedOf, Todos
<1>6. DiscardedOf(t, l)
  BY DEF TgHolds, DiscardedOf, Todos, Harmless
<1>7. ASSUME NEW d \in Ops
      PROVE  OpOf(t, l, p, d)
  BY DEF TgHolds, OpOf, Same
<1>. QED  BY <1>1, <1>2, <1>3, <1>5, <1>6, <1>7 DEF TgHolds

-----------------------------------------------------------------------------
(* The driver's helpers *)

\* A report that is no end.
LEMMA TellKeeps ==
  ASSUME NEW l \in [Refs -> Legs], NEW p \in [Ops -> Operation], NEW s, Ok(s, l, p),
         NEW r \in MaybeRef, NEW what, what # "ended", r # NoRef => s.told[r] # "ended"
  PROVE  LET t == Tell(s, r, what) IN
         /\ Ok(t, l, p) /\ Same(s, t) /\ t.work = s.work /\ t.call = s.call
<1>. DEFINE t == Tell(s, r, what)
<1>1. CASE r = NoRef
  BY <1>1 DEF Tell, Same
<1>2. CASE r # NoRef
  <2>1. PICK w \in {"uncertain", "progress"} : t = [s EXCEPT !.told[r] = w]
    BY <1>2 DEF Tell
  <2>2. r \in Refs /\ s \in Driver
    BY <1>2 DEF MaybeRef, Ok
  <2>3. /\ t.told = [s.told EXCEPT ![r] = w] /\ t.work = s.work /\ t.call = s.call /\ t.offers = s.offers
        /\ t \in Driver
    BY <2>1, <2>2 DEF Driver
  <2>4. Same(s, t)
    BY <1>2, <2>2, <2>3 DEF Same, Driver
  <2>5. Todos(s, t, l) /\ WorkOf(t, l, p)
    BY <2>3 DEF Ok, TgHolds, RequestedOf, Todos, WorkOf
  <2>6. TgHolds(t, l, p)
    BY <2>2, <2>4, <2>5, Congruent DEF Ok
  <2>. QED  BY <2>3, <2>4, <2>6 DEF Ok
<1>. QED  BY <1>1, <1>2

LEMMA StopMediaKeeps ==
  ASSUME NEW l \in [Refs -> Legs], NEW p \in [Ops -> Operation], NEW s, Ok(s, l, p), s.call.of # 0
  PROVE  LET t == StopMedia(s) IN
         /\ Ok(t, l, p) /\ Same(s, t) /\ t.work = s.work /\ t.told = s.told
         /\ t.call.media # "open" /\ (s.call.media # "open" => t.call.media = s.call.media)
         /\ t.call.uncertain = s.call.uncertain /\ t.call.ending = s.call.ending
<1>. DEFINE t == StopMedia(s)
<1>1. s \in Driver
  BY DEF Ok
<1>2. PICK m \in {"stopping", "stopped", "stuck"} :
        /\ t = [s EXCEPT !.call.media = m]
        /\ m = IF s.call.media = "open" THEN "stopping" ELSE s.call.media
  BY <1>1 DEF StopMedia, Driver, Reserved
<1>3. /\ t.call = [s.call EXCEPT !.media = m] /\ t.work = s.work /\ t.told = s.told
      /\ t.offers = s.offers /\ t \in Driver
  <2>1. PICK c : c = [s.call EXCEPT !.media = m]
    OBVIOUS
  <2>2. c \in Reserved
    BY <1>1, <2>1 DEF Driver, Reserved
  <2>3. t = [s EXCEPT !.call = c]
    BY <1>1, <1>2, <2>1 DEF Driver
  <2>. QED  BY <1>1, <2>1, <2>2, <2>3 DEF Driver
<1>4. /\ t.call.media = m /\ t.call.of = s.call.of /\ t.call.peer = s.call.peer /\ t.call.queue = s.call.queue
      /\ t.call.uncertain = s.call.uncertain /\ t.call.ending = s.call.ending
  BY <1>1, <1>3 DEF Driver, Reserved
<1>5. Same(s, t)
  BY <1>3, <1>4 DEF Same
<1>6. Todos(s, t, l)
  BY <1>3, <1>4 DEF Ok, TgHolds, RequestedOf, Todos
<1>7. WorkOf(t, l, p)
  BY <1>2, <1>3, <1>4 DEF Ok, TgHolds, WorkOf
<1>8. TgHolds(t, l, p)
  BY <1>1, <1>5, <1>6, <1>7, Congruent DEF Ok
<1>. QED  BY <1>2, <1>3, <1>4, <1>5, <1>8 DEF Ok

\* A row of work that owner o may have.
RowFits(s, l, o, row) ==
  /\ \A u \in In(row.todo) : u \in In(s.work[o].todo) \/ Harmless(u, l)
  /\ o = Chain => Once("requested", row.todo)
  /\ row.of # 0 =>
       \/ row.of = s.call.of /\ row.ref = s.call.peer /\ row.ref \in Refs
       \/ row.of = s.work[o].of /\ row.ref = s.work[o].ref
  /\ row.at = "closing" => /\ row.of # 0 /\ row.of = s.call.of /\ s.call.media = "stopping"
                           /\ l[row.ref] \in {"down", "gone"}
  /\ row.at \in {"confirming", "keys", "connecting"} => row.of # 0
  /\ row.at = "sending" => row.ref \in Refs /\ l[row.ref] # "none"

\* Another row of work for one owner.
LEMMA WorkKeeps ==
  ASSUME NEW l \in [Refs -> Legs], NEW p \in [Ops -> Operation], NEW s, Ok(s, l, p),
         NEW o \in Owners, NEW row \in Waiting, NEW t, t = [s EXCEPT !.work[o] = row],
         RowFits(s, l, o, row)
  PROVE  Ok(t, l, p) /\ Same(s, t) /\ t.call = s.call /\ t.told = s.told
<1>1. s \in Driver
  BY DEF Ok
<1>2. /\ t.work = [s.work EXCEPT ![o] = row] /\ t.call = s.call /\ t.told = s.told /\ t.offers = s.offers
      /\ t \in Driver
  BY <1>1 DEF Driver
<1>3. t.work[o] = row /\ \A e \in Owners \ {o} : t.work[e] = s.work[e]
  BY <1>1, <1>2 DEF Driver
<1>4. Same(s, t)
  BY <1>2 DEF Same
<1>5. Todos(s, t, l)
  BY <1>2, <1>3 DEF Ok, TgHolds, RequestedOf, Todos, Owners, RowFits
<1>6. WorkOf(t, l, p)
  <2>1. row.of # 0 => p[row.of].at \notin {"none", "identity"}
    BY DEF Ok, TgHolds, PeerOf, WorkOf, RowFits
  <2>2. WorkOf(s, l, p)
    BY DEF Ok, TgHolds
  <2>3. ASSUME NEW e \in Owners \ {o}
        PROVE  t.work[e] = s.work[e]
    BY <1>3
  <2>4. s.work[o].of # 0 => s.work[o].ref \in Refs /\ (s.work[o].of = s.call.of => s.work[o].ref = s.call.peer)
    BY <2>2 DEF WorkOf
  <2>5. row.of # 0 => row.ref \in Refs /\ (row.of = s.call.of => row.ref = s.call.peer)
    BY <2>4 DEF RowFits
  <2>6. row.at = "closing" => row.of # 0 /\ row.of = s.call.of /\ s.call.media = "stopping" /\ l[row.ref] \in {"down", "gone"}
    BY DEF RowFits
  <2>. QED  BY <1>2, <1>3, <2>1, <2>2, <2>3, <2>5, <2>6 DEF WorkOf, RowFits
<1>7. TgHolds(t, l, p)
  BY <1>1, <1>4, <1>5, <1>6, Congruent DEF Ok
<1>. QED  BY <1>2, <1>4, <1>7 DEF Ok

\* The reservation is marked.
LEMMA MarkKeeps ==
  ASSUME NEW l \in [Refs -> Legs], NEW p \in [Ops -> Operation], NEW s, Ok(s, l, p), s.call.of # 0,
         NEW c \in Reserved, NEW t, t = [s EXCEPT !.call = c],
         c.of = s.call.of, c.peer = s.call.peer,
         \A u \in In(c.queue) : u \in In(s.call.queue) \/ Harmless(u, l),
         c.media = s.call.media \/ \A o \in Owners : s.work[o].at # "closing"
  PROVE  /\ Ok(t, l, p) /\ Same(s, t) /\ t.work = s.work /\ t.told = s.told /\ t.call = c
<1>1. s \in Driver
  BY DEF Ok
<1>2. /\ t.call = c /\ t.work = s.work /\ t.told = s.told /\ t.offers = s.offers
      /\ t \in Driver
  BY <1>1 DEF Driver
<1>4. Same(s, t)
  BY <1>2 DEF Same
<1>5. Todos(s, t, l)
  BY <1>2 DEF Ok, TgHolds, RequestedOf, Todos
<1>6. WorkOf(t, l, p)
  BY <1>2 DEF Ok, TgHolds, WorkOf
<1>7. TgHolds(t, l, p)
  BY <1>1, <1>4, <1>5, <1>6, Congruent DEF Ok
<1>. QED  BY <1>2, <1>4, <1>7 DEF Ok

\* What a reservation with a peer is.
LEMMA PeerIs ==
  ASSUME NEW l \in [Refs -> Legs], NEW p \in [Ops -> Operation], NEW s, Ok(s, l, p), s.call.peer # NoRef
  PROVE  /\ s.call.peer \in Refs /\ s.call.of \in Ops /\ s.call.of # 0
         /\ l[s.call.peer] # "none" /\ s.told[s.call.peer] # "ended"
         /\ <<"hangup", s.call.of>> \in Owners /\ <<"hangup", s.call.of>> # Chain
<1>1. s \in Driver /\ PeerOf(s, l, p)
  BY DEF Ok, TgHolds
<1>2. s.call.peer \in Refs /\ s.call.of \in {0} \cup Ops
  BY <1>1 DEF Driver, Reserved, MaybeRef
<1>3. s.call.of # 0
  BY <1>1 DEF PeerOf, NoCall, Reservation
<1>. QED  BY <1>1, <1>2, <1>3 DEF PeerOf, Owners, Chain

LEMMA DiscardKeeps ==
  ASSUME NEW l \in [Refs -> Legs], NEW p \in [Ops -> Operation], NEW s, Ok(s, l, p)
  PROVE  LET t == Discard(s) IN
         /\ Ok(t, l, p) /\ Same(s, t) /\ t.told = s.told
         /\ t.call.uncertain = s.call.uncertain /\ t.call.ending = s.call.ending
         /\ t.work[Chain] = s.work[Chain]
<1>. DEFINE t == Discard(s)  h == <<"hangup", s.call.of>>
<1>1. CASE s.call.peer = NoRef \/ s.work[h].at # "none"
  BY <1>1 DEF Discard, Same
<1>2. CASE s.call.peer # NoRef /\ s.work[h].at = "none"
  <2>1. PICK m : m = StopMedia(s)
    OBVIOUS
  <2>2. PICK row : row = [at |-> "sending", of |-> 0, ref |-> s.call.peer, todo |-> <<>>]
    OBVIOUS
  <2>3. PICK n : n = [m EXCEPT !.work[h] = row]
    OBVIOUS
  <2>10. t = n
    BY <1>2, <2>1, <2>2, <2>3 DEF Discard, Row
  <2>11. PICK k : k = h
    OBVIOUS
  <2>4. /\ s.call.peer \in Refs /\ s.call.of # 0 /\ l[s.call.peer] # "none"
        /\ h \in Owners /\ h # Chain
    BY <1>2, PeerIs
  <2>5. /\ Ok(m, l, p) /\ Same(s, m) /\ m.work = s.work /\ m.told = s.told
        /\ m.call.uncertain = s.call.uncertain /\ m.call.ending = s.call.ending
    BY <2>1, <2>4, StopMediaKeeps
  <2>6. row \in Waiting /\ RowFits(m, l, h, row)
    BY <2>2, <2>4 DEF Waiting, MaybeRef, In, RowFits
  <2>12. k \in Owners /\ RowFits(m, l, k, row) /\ n = [m EXCEPT !.work[k] = row]
    BY <2>3, <2>4, <2>6, <2>11
  <2>13. Ok(n, l, p) /\ Same(m, n) /\ n.call = m.call /\ n.told = m.told
    BY <2>5, <2>6, <2>12, WorkKeeps
  <2>7. /\ Ok(t, l, p) /\ Same(m, t) /\ t.call = m.call /\ t.told = m.told
        /\ t.work = [m.work EXCEPT ![h] = row]
    BY <2>3, <2>5, <2>10, <2>13 DEF Ok, Driver
  <2>8. Same(s, t)
    BY <2>4, <2>5, <2>7 DEF Same
  <2>9. t.work[Chain] = s.work[Chain]
    BY <2>4, <2>5, <2>7
  <2>. QED  BY <2>5, <2>7, <2>8, <2>9
<1>. QED  BY <1>1, <1>2

LEMMA FailKeeps ==
  ASSUME NEW l \in [Refs -> Legs], NEW p \in [Ops -> Operation], NEW s, Ok(s, l, p)
  PROVE  LET t == Fail(s) IN Ok(t, l, p) /\ Same(s, t) /\ t.work[Chain] = s.work[Chain]
<1>. DEFINE t == Fail(s)
<1>1. CASE s.call.of = 0 \/ s.call.uncertain
  BY <1>1 DEF Fail, Same
<1>2. CASE s.call.of # 0 /\ ~s.call.uncertain
  <2>1. PICK m : m = StopMedia(s)
    OBVIOUS
  <2>2. Ok(m, l, p) /\ Same(s, m) /\ m.work = s.work
    BY <1>2, <2>1, StopMediaKeeps
  <2>3. PICK c : c = [m.call EXCEPT !.uncertain = TRUE]
    OBVIOUS
  <2>4. PICK n : n = [m EXCEPT !.call = c]
    OBVIOUS
  <2>5. /\ c \in Reserved /\ c.of = m.call.of /\ c.peer = m.call.peer /\ c.queue = m.call.queue
        /\ c.media = m.call.media /\ m.call.of # 0
    BY <1>2, <2>2, <2>3 DEF Ok, Driver, Reserved, Same
  <2>6. Ok(n, l, p) /\ Same(m, n) /\ n.work = m.work /\ n.call = c
    BY <2>2, <2>4, <2>5, MarkKeeps
  <2>7. [StopMedia(s) EXCEPT !.call.uncertain = TRUE] = n
    BY <2>1, <2>2, <2>3, <2>4 DEF Ok, Driver
  <2>8. PICK v : v = Tell(n, s.call.peer, "uncertain")
    OBVIOUS
  <2>9. n.call.peer = s.call.peer /\ s.call.peer \in MaybeRef
    BY <2>2, <2>5, <2>6 DEF Same, Ok, Driver, Reserved
  <2>10. s.call.peer # NoRef => n.told[s.call.peer] # "ended"
    BY <2>6, <2>9, PeerIs
  <2>11. Ok(v, l, p) /\ Same(n, v) /\ v.work = n.work
    BY <2>6, <2>8, <2>9, <2>10, TellKeeps
  <2>12. t = Discard(v)
    BY <1>2, <2>7, <2>8 DEF Fail
  <2>13. Ok(t, l, p) /\ Same(v, t) /\ t.work[Chain] = v.work[Chain]
    BY <2>11, <2>12, DiscardKeeps
  <2>14. Same(s, t)
    BY <1>2, <2>2, <2>6, <2>11, <2>13 DEF Same
  <2>. QED  BY <2>2, <2>6, <2>11, <2>13, <2>14
<1>. QED  BY <1>1, <1>2

LEMMA EndKeeps ==
  ASSUME NEW l \in [Refs -> Legs], NEW p \in [Ops -> Operation], NEW s, Ok(s, l, p), s.call.peer # NoRef
  PROVE  LET t == End(s) IN Ok(t, l, p) /\ Same(s, t) /\ t.work[Chain] = s.work[Chain]
<1>. DEFINE t == End(s)
<1>1. CASE s.call.ending
  BY <1>1 DEF End, Same
<1>2. CASE ~s.call.ending
  <2>3. PICK c : c = [s.call EXCEPT !.ending = TRUE]
    OBVIOUS
  <2>4. PICK n : n = [s EXCEPT !.call = c]
    OBVIOUS
  <2>5. /\ c \in Reserved /\ c.of = s.call.of /\ c.peer = s.call.peer /\ c.queue = s.call.queue
        /\ c.media = s.call.media /\ s.call.of # 0 /\ s.call.peer \in Refs
    BY <2>3, PeerIs DEF Ok, Driver, Reserved
  <2>6. Ok(n, l, p) /\ Same(s, n) /\ n.work = s.work /\ n.call = c
    BY <2>4, <2>5, MarkKeeps
  <2>7. [s EXCEPT !.call.ending = TRUE] = n
    BY <2>3, <2>4 DEF Ok, Driver
  <2>8. PICK v : v = Tell(n, s.call.peer, "ending")
    OBVIOUS
  <2>10. n.told[s.call.peer] # "ended"
    BY <2>5, <2>6, PeerIs
  <2>11. Ok(v, l, p) /\ Same(n, v) /\ v.work = n.work
    BY <2>5, <2>6, <2>8, <2>10, TellKeeps DEF MaybeRef
  <2>12. PICK w : w = Discard(v)
    OBVIOUS
  <2>13. Ok(w, l, p) /\ Same(v, w) /\ w.work[Chain] = v.work[Chain]
    BY <2>11, <2>12, DiscardKeeps
  <2>14. t = w \/ t = Fail(w)
    BY <1>2, <2>7, <2>8, <2>12 DEF End
  <2>15. Ok(t, l, p) /\ Same(w, t) /\ t.work[Chain] = w.work[Chain]
    BY <2>13, <2>14, FailKeeps DEF Same
  <2>16. Same(s, t)
    BY <2>5, <2>6, <2>11, <2>13, <2>15 DEF Same
  <2>. QED  BY <2>6, <2>11, <2>13, <2>15, <2>16
<1>. QED  BY <1>1, <1>2

LEMMA IdleKeeps ==
  ASSUME NEW l \in [Refs -> Legs], NEW p \in [Ops -> Operation], NEW s, Ok(s, l, p), NEW o \in Owners
  PROVE  /\ Ok(Idle(s, o), l, p) /\ Same(s, Idle(s, o)) /\ Idle(s, o).call = s.call
<1>1. PICK row : row = [at |-> "idle", of |-> 0, ref |-> NoRef, todo |-> s.work[o].todo]
  OBVIOUS
<1>2. PICK t : t = [s EXCEPT !.work[o] = row]
  OBVIOUS
<1>3. Idle(s, o) = t
  BY <1>1, <1>2 DEF Idle, Row
<1>4. s \in Driver /\ RequestedOf(s, l)
  BY DEF Ok, TgHolds
<1>5. row \in Waiting
  BY <1>1, <1>4 DEF Driver, Waiting, MaybeRef
<1>6. RowFits(s, l, o, row)
  BY <1>1, <1>4 DEF RequestedOf, RowFits
<1>7. Ok(t, l, p) /\ Same(s, t) /\ t.call = s.call
  BY <1>2, <1>5, <1>6, WorkKeeps
<1>. QED  BY <1>3, <1>7

LEMMA ThrowKeeps ==
  ASSUME NEW l \in [Refs -> Legs], NEW p \in [Ops -> Operation], NEW s, Ok(s, l, p), NEW o \in Owners
  PROVE  Ok(Throw(s, o), l, p) /\ Same(s, Throw(s, o))
<1>1. CASE o = Chain
  <2>1. PICK t : t = Idle(s, o)
    OBVIOUS
  <2>2. Throw(s, o) = Fail(t)
    BY <1>1, <2>1 DEF Throw
  <2>3. Ok(t, l, p) /\ Same(s, t)
    BY <2>1, IdleKeeps
  <2>4. Ok(Fail(t), l, p) /\ Same(t, Fail(t))
    BY <2>3, FailKeeps
  <2>. QED  BY <2>2, <2>3, <2>4 DEF Same
<1>2. CASE o # Chain
  <2>1. PICK row : row = Row("idle")
    OBVIOUS
  <2>2. PICK t : t = [s EXCEPT !.work[o] = row]
    OBVIOUS
  <2>3. row \in Waiting /\ RowFits(s, l, o, row)
    BY <1>2, <2>1 DEF Row, Waiting, MaybeRef, In, RowFits
  <2>4. Ok(t, l, p) /\ Same(s, t)
    BY <2>2, <2>3, WorkKeeps
  <2>5. Throw(s, o) = Fail(t)
    BY <1>2, <2>1, <2>2 DEF Throw
  <2>6. Ok(Fail(t), l, p) /\ Same(t, Fail(t))
    BY <2>4, FailKeeps
  <2>. QED  BY <2>4, <2>5, <2>6 DEF Same
<1>. QED  BY <1>1, <1>2

\* A report of an end.
LEMMA TellEnds ==
  ASSUME NEW s \in Driver, NEW r \in Refs
  PROVE  LET t == Tell(s, r, "ended") IN
         /\ t \in Driver
         /\ t.work = s.work /\ t.call = s.call /\ t.offers = s.offers
         /\ \A q \in Refs : t.told[q] = "ended" <=> q = r \/ s.told[q] = "ended"
<1>1. PICK t : t = [s EXCEPT !.told[r] = "ended"]
  OBVIOUS
<1>2. t = Tell(s, r, "ended")
  BY <1>1, RefsAssumption DEF Tell
<1>3. /\ t.told = [s.told EXCEPT ![r] = "ended"] /\ t \in Driver
      /\ t.work = s.work /\ t.call = s.call /\ t.offers = s.offers
  BY <1>1 DEF Driver
<1>4. \A q \in Refs : t.told[q] = "ended" <=> q = r \/ s.told[q] = "ended"
  BY <1>3 DEF Driver
<1>. QED  BY <1>2, <1>3, <1>4

\* An offer that is withdrawn is one the driver knows, and is down.
LEMMA WithdrawnKeeps ==
  ASSUME NEW l \in [Refs -> Legs], NEW p \in [Ops -> Operation], NEW s, Ok(s, l, p),
         NEW u \in Update, u.kind = "discarded" => l[u.ref] \in {"down", "gone"}
  PROVE  LET t == Withdrawn(s, u) IN
         /\ Ok(t, l, p) /\ t.work = s.work /\ t.call = s.call
         /\ \/ t = s
            \/ /\ u.kind = "discarded" /\ u.ref \in s.offers
               /\ t.offers = s.offers \ {u.ref}
               /\ \A r \in Refs : t.told[r] = "ended" <=> r = u.ref \/ s.told[r] = "ended"
<1>. SUFFICES ASSUME NEW t, t = Withdrawn(s, u)
              PROVE  /\ Ok(t, l, p) /\ t.work = s.work /\ t.call = s.call
                     /\ \/ t = s
                        \/ /\ u.kind = "discarded" /\ u.ref \in s.offers
                           /\ t.offers = s.offers \ {u.ref}
                           /\ \A r \in Refs : t.told[r] = "ended" <=> r = u.ref \/ s.told[r] = "ended"
  OBVIOUS
<1>1. CASE ~(u.kind = "discarded" /\ u.ref \in s.offers)
  BY <1>1 DEF Withdrawn
<1>2. CASE u.kind = "discarded" /\ u.ref \in s.offers
  <2>1. u.ref \in Refs /\ s \in Driver /\ u.ref # NoRef
    BY RefsAssumption DEF Update, Ok
  <2>2. PICK n : n = [s EXCEPT !.offers = s.offers \ {u.ref}]
    OBVIOUS
  <2>3. n \in Driver /\ n.offers = s.offers \ {u.ref} /\ n.told = s.told /\ n.work = s.work /\ n.call = s.call
    BY <2>1, <2>2 DEF Driver
  <2>11. t = Tell(n, u.ref, "ended")
    BY <1>2, <2>2 DEF Withdrawn
  <2>4. /\ t.offers = s.offers \ {u.ref}
        /\ t.work = s.work /\ t.call = s.call /\ t \in Driver
    BY <2>1, <2>3, <2>11, TellEnds
  <2>5. \A r \in Refs : t.told[r] = "ended" <=> r = u.ref \/ s.told[r] = "ended"
    BY <2>1, <2>3, <2>11, TellEnds
  <2>6. LegsOf(t, l) /\ OffersOf(t, l)
    BY <1>2, <2>4, <2>5 DEF Ok, TgHolds, LegsOf, OffersOf, Driver
  <2>7. PeerOf(t, l, p)
    BY <1>2, <2>1, <2>4, <2>5 DEF Ok, TgHolds, PeerOf, Driver, Reserved, MaybeRef
  <2>8. RequestedOf(t, l)
    <3>1. \A v \in In(s.work[Chain].todo) : v \in Update
      <4>1. s.work[Chain].todo \in Seq(Update)
        BY <2>1 DEF Driver, Waiting, Owners
      <4>. QED  BY <4>1 DEF In
    <3>. QED  BY <1>2, <2>1, <2>4, <2>5, <3>1 DEF Ok, TgHolds, RequestedOf, Update
  <2>9. DiscardedOf(t, l) /\ WorkOf(t, l, p)
    BY <2>4 DEF Ok, TgHolds, DiscardedOf, WorkOf
  <2>10. ASSUME NEW d \in Ops
         PROVE  OpOf(t, l, p, d)
    <3>1. OpOf(s, l, p, d) /\ l[u.ref] \in {"offered", "gone"} /\ OffersOf(s, l)
      BY <1>2 DEF Ok, TgHolds, OffersOf
    <3>. QED  BY <1>2, <2>1, <2>4, <2>5, <3>1 DEF OpOf, TgOurs
  <2>. QED  BY <1>2, <2>4, <2>5, <2>6, <2>7, <2>8, <2>9, <2>10 DEF Ok, TgHolds
<1>. QED  BY <1>1, <1>2

\* A handler that starts to wait.
LEMMA WaitsKeeps ==
  ASSUME NEW l \in [Refs -> Legs], NEW p \in [Ops -> Operation], NEW s, Ok(s, l, p), NEW o \in Owners,
         s.call.peer # NoRef, NEW at \in {"closing", "confirming", "keys", "connecting"},
         at = "closing" => s.call.media = "stopping" /\ l[s.call.peer] \in {"down", "gone"}
  PROVE  LET t == Waits(s, o, at) IN
         Ok(t, l, p) /\ Same(s, t) /\ t.call = s.call /\ t.told = s.told
<1>1. PICK row : row = [s.work[o] EXCEPT !.at = at, !.of = s.call.of, !.ref = s.call.peer]
  OBVIOUS
<1>2. PICK t : t = [s EXCEPT !.work[o] = row]
  OBVIOUS
<1>3. Waits(s, o, at) = t
  BY <1>1, <1>2 DEF Waits
<1>4. s \in Driver /\ RequestedOf(s, l)
  BY DEF Ok, TgHolds
<1>5. s.work[o] \in Waiting /\ s.call.peer \in Refs /\ s.call.of \in Ops /\ s.call.of # 0
  BY <1>4, PeerIs DEF Driver
<1>6. /\ row \in Waiting /\ row.at = at /\ row.of = s.call.of /\ row.ref = s.call.peer
      /\ row.todo = s.work[o].todo
  BY <1>1, <1>5 DEF Waiting, MaybeRef
<1>7. RowFits(s, l, o, row)
  BY <1>4, <1>5, <1>6 DEF RequestedOf, RowFits
<1>8. Ok(t, l, p) /\ Same(s, t) /\ t.call = s.call /\ t.told = s.told
  BY <1>2, <1>6, <1>7, WorkKeeps
<1>. QED  BY <1>3, <1>8

\* The reservation ends with the call it names.
LEMMA CallEnds ==
  ASSUME NEW l \in [Refs -> Legs], NEW p \in [Ops -> Operation], NEW s, Ok(s, l, p),
         s.call.peer # NoRef, l[s.call.peer] \in {"down", "gone"},
         \A o \in Owners : s.work[o].at # "closing",
         NEW t, t = Tell([s EXCEPT !.call = NoCall], s.call.peer, "ended")
  PROVE  /\ Ok(t, l, p) /\ t.call = NoCall /\ t.offers = s.offers
         /\ \A r \in Refs : t.told[r] = "ended" <=> r = s.call.peer \/ s.told[r] = "ended"
         /\ \A r \in Refs : l[r] \notin TgOurs
<1>1. PICK e : e = s.call.peer
  OBVIOUS
<1>2. e \in Refs /\ e # NoRef /\ s \in Driver /\ e \notin s.offers /\ s.call.of # 0
  BY <1>1, PeerIs DEF Ok, TgHolds, PeerOf
<1>3. NoCall \in Reserved /\ NoCall.of = 0 /\ NoCall.peer = NoRef /\ In(NoCall.queue) = {}
  BY DEF NoCall, Reservation, Reserved, MaybeRef, In
<1>4. PICK n : n = [s EXCEPT !.call = NoCall]
  OBVIOUS
<1>5. /\ t.call = NoCall
      /\ t.work = s.work /\ t.offers = s.offers /\ t \in Driver
      /\ \A r \in Refs : t.told[r] = "ended" <=> r = e \/ s.told[r] = "ended"
  <2>1. n \in Driver /\ n.offers = s.offers /\ n.told = s.told /\ n.work = s.work /\ n.call = NoCall
    BY <1>2, <1>3, <1>4 DEF Driver
  <2>2. t = Tell(n, e, "ended")
    BY <1>1, <1>4
  <2>3. t \in Driver /\ t.work = n.work /\ t.call = n.call /\ t.offers = n.offers
    BY <1>2, <2>1, <2>2, TellEnds
  <2>4. \A r \in Refs : t.told[r] = "ended" <=> r = e \/ n.told[r] = "ended"
    BY <1>2, <2>1, <2>2, TellEnds
  <2>. QED  BY <2>1, <2>3, <2>4
<1>6. \A r \in Refs : t.told[r] = "ended" <=> r = e \/ s.told[r] = "ended"
  BY <1>5
<1>7. \A r \in Refs : l[r] \notin TgOurs
  BY <1>1, <1>2 DEF Ok, TgHolds, LegsOf, TgOurs
<1>8. LegsOf(t, l) /\ OffersOf(t, l) /\ PeerOf(t, l, p)
  BY <1>1, <1>2, <1>3, <1>5, <1>6, <1>7 DEF Ok, TgHolds, LegsOf, OffersOf, PeerOf, Driver
<1>9. RequestedOf(t, l)
  <2>1. \A v \in In(s.work[Chain].todo) : v \in Update
    <3>1. s.work[Chain].todo \in Seq(Update)
      BY <1>2 DEF Driver, Waiting, Owners
    <3>. QED  BY <3>1 DEF In
  <2>. QED  BY <1>1, <1>2, <1>3, <1>5, <1>6, <2>1, RefsAssumption DEF Ok, TgHolds, RequestedOf, Update
<1>10. DiscardedOf(t, l)
  BY <1>3, <1>5 DEF Ok, TgHolds, DiscardedOf
<1>11. WorkOf(t, l, p)
  BY <1>3, <1>5 DEF Ok, TgHolds, WorkOf
<1>12. ASSUME NEW d \in Ops
       PROVE  OpOf(t, l, p, d)
  <2>1. OpOf(s, l, p, d)
    BY DEF Ok, TgHolds
  <2>. QED  BY <1>1, <1>2, <1>7, <2>1 DEF OpOf
<1>. QED  BY <1>1, <1>5, <1>6, <1>7, <1>8, <1>9, <1>10, <1>11, <1>12 DEF Ok, TgHolds

\* A handler takes its next update.
LEMMA TakenKeeps ==
  ASSUME leg \in [Refs -> Legs], op \in [Ops -> Operation], Ok(drv, leg, op),
         NEW o \in Owners, drv.work[o].todo # <<>>
  PROVE  LET t == Taken(o)  u == Next1(o) IN
         /\ Ok(t, leg, op) /\ Same(drv, t) /\ t.call = drv.call /\ t.told = drv.told
         /\ \A e \in Owners : t.work[e].at = drv.work[e].at
         /\ u \in Update
         /\ u.kind = "discarded" => leg[u.ref] \in {"down", "gone"}
         /\ u.kind = "requested" =>
              /\ o = Chain /\ leg[u.ref] \in {"offered", "gone"} /\ u.ref \notin drv.offers
              /\ drv.call.peer # u.ref /\ drv.told[u.ref] # "ended"
              /\ u \notin In(t.work[Chain].todo)
<1>1. PICK q : q = drv.work[o].todo
  OBVIOUS
<1>2. drv \in Driver /\ RequestedOf(drv, leg) /\ DiscardedOf(drv, leg) /\ WorkOf(drv, leg, op)
  BY DEF Ok, TgHolds
<1>3. drv.work[o] \in Waiting /\ q \in Seq(Update) /\ q # <<>>
  BY <1>1, <1>2 DEF Driver, Waiting
<1>4. Once("requested", q)
  <2>1. CASE o = Chain
    BY <1>1, <1>2, <2>1 DEF RequestedOf
  <2>2. CASE o # Chain
    <3>1. \A u \in In(q) : u.kind # "requested"
      BY <1>1, <1>2, <2>2 DEF RequestedOf
    <3>. QED  BY <3>1 DEF Once, In
  <2>. QED  BY <2>1, <2>2
<1>5. /\ Tail(q) \in Seq(Update) /\ Once("requested", Tail(q)) /\ Head(q) \in Update
      /\ In(Tail(q)) \subseteq In(q) /\ Head(q) \in In(q)
      /\ Head(q).kind = "requested" => Head(q) \notin In(Tail(q))
  BY <1>3, <1>4, TailOf
<1>6. PICK row : row = [drv.work[o] EXCEPT !.todo = Tail(q)]
  OBVIOUS
<1>7. PICK t : t = [drv EXCEPT !.work[o] = row]
  OBVIOUS
<1>8. Taken(o) = t /\ Next1(o) = Head(q)
  BY <1>1, <1>2, <1>3, <1>6, <1>7 DEF Taken, Next1, Driver
<1>9. /\ row \in Waiting /\ row.todo = Tail(q) /\ row.at = drv.work[o].at /\ row.of = drv.work[o].of
      /\ row.ref = drv.work[o].ref
  BY <1>3, <1>5, <1>6 DEF Waiting
<1>10. RowFits(drv, leg, o, row)
  BY <1>1, <1>2, <1>5, <1>9 DEF RowFits, WorkOf
<1>11. Ok(t, leg, op) /\ Same(drv, t) /\ t.call = drv.call /\ t.told = drv.told
  BY <1>7, <1>9, <1>10, WorkKeeps
<1>12. t.work = [drv.work EXCEPT ![o] = row]
  BY <1>2, <1>7 DEF Driver
<1>13. \A e \in Owners : t.work[e].at = drv.work[e].at
  BY <1>2, <1>9, <1>12 DEF Driver
<1>14. Head(q).kind = "discarded" => leg[Head(q).ref] \in {"down", "gone"}
  BY <1>1, <1>2, <1>5 DEF DiscardedOf
<1>15. ASSUME Head(q).kind = "requested"
       PROVE  /\ o = Chain /\ leg[Head(q).ref] \in {"offered", "gone"} /\ Head(q).ref \notin drv.offers
              /\ drv.call.peer # Head(q).ref /\ drv.told[Head(q).ref] # "ended"
              /\ Head(q) \notin In(t.work[Chain].todo)
  <2>1. o = Chain
    BY <1>1, <1>2, <1>5, <1>15 DEF RequestedOf
  <2>2. t.work[Chain].todo = Tail(q)
    BY <1>2, <1>9, <1>12, <2>1 DEF Driver
  <2>. QED  BY <1>1, <1>2, <1>5, <1>15, <2>1, <2>2 DEF RequestedOf
<1>. QED  BY <1>5, <1>8, <1>11, <1>13, <1>14, <1>15

-----------------------------------------------------------------------------
(* Steps of the contract *)

TgStep == [TgContract!Next]_(TgContract!vars)

TgAlive == {r \in Refs : leg[r] \in TgOurs}
TgOver == {r \in Refs : drv.told[r] = "ended"}
TgFree == drv.call.of = 0 /\ Up

LEMMA TgPrime ==
  ASSUME leg' \in [Refs -> Legs], op' \in [Ops -> Operation], host' = "up", Ok(drv', leg', op')
  PROVE  TgInv'
BY DEF TgInv, TgTypeOK, Up, Ok, TgHolds, LegsOf, PeerOf, OffersOf, RequestedOf, DiscardedOf, WorkOf, OpOf, In, Once

LEMMA QuietStep ==
  ASSUME leg' \in [Refs -> Legs], op' \in [Ops -> Operation], Ok(drv', leg', op'),
         \A r \in Refs : leg'[r] \in TgOurs <=> leg[r] \in TgOurs,
         \A r \in Refs : drv'.told[r] = "ended" <=> drv.told[r] = "ended",
         drv'.call.of = 0 <=> drv.call.of = 0, Up, host' = host
  PROVE  TgInv' /\ TgStep
<1>1. TgAlive' = TgAlive
  BY DEF TgAlive
<1>2. TgOver' = TgOver
  BY DEF TgOver
<1>3. TgFree' = TgFree
  BY DEF TgFree, Up
<1>4. UNCHANGED TgContract!vars
  BY <1>1, <1>2, <1>3 DEF TgContract!vars, TgAlive, TgOver, TgFree
<1>5. TgInv'
  BY TgPrime DEF Up
<1>. QED  BY <1>4, <1>5 DEF TgStep

LEMMA EndedStep ==
  ASSUME leg' \in [Refs -> Legs], op' \in [Ops -> Operation], Ok(drv', leg', op'), leg' = leg,
         NEW e \in Refs, leg[e] \notin TgOurs,
         \A r \in Refs : drv'.told[r] = "ended" <=> r = e \/ drv.told[r] = "ended",
         \/ drv'.call.of = 0 <=> drv.call.of = 0
         \/ drv'.call.of = 0 /\ \A r \in Refs : leg[r] \notin TgOurs,
         Up, host' = host
  PROVE  TgInv' /\ TgStep
<1>1. TgAlive' = TgAlive /\ e \notin TgAlive
  BY DEF TgAlive
<1>2. TgOver' = TgOver \cup {e}
  BY DEF TgOver
<1>3. TgFree' \in {TgFree, TgFree \/ TgAlive = {}}
  <2>1. TgFree' = TgFree \/ (TgFree' /\ TgAlive = {})
    BY DEF TgFree, Up, TgAlive
  <2>. QED  BY <2>1 DEF TgFree
<1>4. TgContract!ReportEnded(e)
  BY <1>1, <1>2, <1>3 DEF TgContract!ReportEnded, TgAlive, TgOver, TgFree
<1>5. TgInv'
  BY TgPrime DEF Up
<1>. QED  BY <1>4, <1>5 DEF TgStep, TgContract!Next

LEMMA TgNow ==
  ASSUME TgInv, Up
  PROVE  /\ Ok(drv, leg, op) /\ drv \in Driver /\ leg \in [Refs -> Legs] /\ op \in [Ops -> Operation]
BY DEF TgInv, TgTypeOK, Ok

\* A step of the driver alone that ends no call.
LEMMA CalmStep ==
  ASSUME TgInv, Up, UNCHANGED <<leg, op, host>>, Ok(drv', leg, op), Same(drv, drv')
  PROVE  TgInv' /\ TgStep
<1>1. leg' \in [Refs -> Legs] /\ op' \in [Ops -> Operation] /\ Ok(drv', leg', op') /\ leg' = leg /\ host' = host
  BY TgNow
<1>. QED  BY <1>1, QuietStep DEF Same

-----------------------------------------------------------------------------
(* An update *)

\* One more offer.
LEMMA OfferKeeps ==
  ASSUME NEW l \in [Refs -> Legs], NEW p \in [Ops -> Operation], NEW s, Ok(s, l, p),
         NEW u \in Update, u.kind = "requested", l[u.ref] \in {"offered", "gone"},
         s.call.peer # u.ref, s.told[u.ref] # "ended", u \notin In(s.work[Chain].todo),
         NEW t, t = [s EXCEPT !.offers = s.offers \cup {u.ref}]
  PROVE  Ok(t, l, p) /\ t.told = s.told /\ t.call = s.call
<1>1. s \in Driver /\ u.ref \in Refs
  BY DEF Ok, Update
<1>2. /\ t \in Driver /\ t.offers = s.offers \cup {u.ref} /\ t.told = s.told /\ t.work = s.work
      /\ t.call = s.call
  BY <1>1 DEF Driver
<1>3. LegsOf(t, l) /\ OffersOf(t, l) /\ PeerOf(t, l, p) /\ DiscardedOf(t, l) /\ WorkOf(t, l, p)
  BY <1>2 DEF Ok, TgHolds, LegsOf, OffersOf, PeerOf, DiscardedOf, WorkOf
<1>4. RequestedOf(t, l)
  <2>1. s.work[Chain].todo \in Seq(Update) /\ RequestedOf(s, l)
    BY <1>1 DEF Driver, Waiting, Owners, Ok, TgHolds
  <2>2. ASSUME NEW v \in In(s.work[Chain].todo), v.kind = "requested"
        PROVE  v.ref # u.ref
    <3>1. v \in Update
      BY <2>1 DEF In
    <3>. QED  BY <2>2, <3>1 DEF Update
  <2>. QED  BY <1>2, <2>1, <2>2 DEF RequestedOf
<1>5. \A d \in Ops : OpOf(t, l, p, d)
  BY <1>2 DEF Ok, TgHolds, OpOf
<1>. QED  BY <1>2, <1>3, <1>4, <1>5 DEF Ok, TgHolds

\* A step that ends at most a withdrawn offer.
LEMMA WithdrawnStep ==
  ASSUME TgInv, Up, UNCHANGED <<leg, op, host>>, Ok(drv', leg, op),
         NEW s, Ok(s, leg, op), Same(drv, s),
         NEW u \in Update, u.kind = "discarded" => leg[u.ref] \in {"down", "gone"},
         Same(Withdrawn(s, u), drv')
  PROVE  TgInv' /\ TgStep
<1>1. PICK w : w = Withdrawn(s, u)
  OBVIOUS
<1>2. leg \in [Refs -> Legs] /\ op \in [Ops -> Operation] /\ u.ref \in Refs
  BY TgNow DEF Update
<1>3. /\ w.call = s.call
      /\ \/ w = s
         \/ /\ u.kind = "discarded"
            /\ \A r \in Refs : w.told[r] = "ended" <=> r = u.ref \/ s.told[r] = "ended"
  BY <1>1, <1>2, WithdrawnKeeps
<1>4. CASE w = s
  <2>1. Same(s, drv')
    BY <1>1, <1>4
  <2>2. Same(drv, drv')
    BY <2>1 DEF Same
  <2>. QED  BY <2>2, CalmStep
<1>5. CASE /\ u.kind = "discarded"
           /\ \A r \in Refs : w.told[r] = "ended" <=> r = u.ref \/ s.told[r] = "ended"
  <2>1. \A r \in Refs : drv'.told[r] = "ended" <=> r = u.ref \/ drv.told[r] = "ended"
    BY <1>1, <1>5 DEF Same
  <2>2. drv'.call.of = drv.call.of
    BY <1>1, <1>3 DEF Same
  <2>3. leg[u.ref] \notin TgOurs
    BY <1>5 DEF TgOurs
  <2>4. leg' \in [Refs -> Legs] /\ op' \in [Ops -> Operation] /\ Ok(drv', leg', op') /\ leg' = leg /\ host' = host
    BY <1>2
  <2>. QED  BY <1>2, <2>1, <2>2, <2>3, <2>4, EndedStep
<1>. QED  BY <1>3, <1>4, <1>5

LEMMA HandleRequestedStep ==
  ASSUME TgInv, Up, leg' = leg, NEW o \in Owners, drv.work[o].todo # <<>>,
         Next1(o).kind = "requested", HandleRequested(o, Next1(o).ref)
  PROVE  TgInv' /\ TgStep
<1>1. PICK t : t = Taken(o)
  OBVIOUS
<1>2. PICK u : u = Next1(o)
  OBVIOUS
<1>3. leg \in [Refs -> Legs] /\ op \in [Ops -> Operation] /\ Ok(drv, leg, op)
  BY TgNow
<1>4. /\ Ok(t, leg, op) /\ Same(drv, t) /\ t.call = drv.call /\ t.told = drv.told /\ u \in Update
      /\ leg[u.ref] \in {"offered", "gone"} /\ u.ref \notin drv.offers
      /\ drv.call.peer # u.ref /\ drv.told[u.ref] # "ended" /\ u \notin In(t.work[Chain].todo)
  BY <1>1, <1>2, <1>3, TakenKeeps
<1>5. CASE drv' = t
  BY <1>4, <1>5, CalmStep DEF HandleRequested, Becomes
<1>6. CASE drv' # t
  <2>1. PICK n : n = [t EXCEPT !.offers = t.offers \cup {u.ref}]
    OBVIOUS
  <2>2. Ok(n, leg, op) /\ n.told = t.told /\ n.call = t.call
    BY <1>2, <1>3, <1>4, <2>1, OfferKeeps
  <2>3. drv' = Tell(n, u.ref, "incoming") /\ UNCHANGED <<op, host>>
    BY <1>1, <1>2, <1>6, <2>1 DEF HandleRequested, Becomes
  <2>4. u.ref \in MaybeRef /\ n.told[u.ref] # "ended"
    BY <1>4, <2>2 DEF Update, MaybeRef
  <2>5. Ok(drv', leg, op) /\ Same(n, drv') /\ drv'.call = n.call
    BY <1>3, <2>2, <2>3, <2>4, TellKeeps
  <2>6. \A r \in Refs : drv'.told[r] = "ended" <=> drv.told[r] = "ended"
    BY <1>4, <2>2, <2>5 DEF Same
  <2>7. leg' \in [Refs -> Legs] /\ op' \in [Ops -> Operation] /\ Ok(drv', leg', op') /\ host' = host
    BY <1>3, <2>3, <2>5
  <2>. QED  BY <1>4, <2>2, <2>5, <2>6, <2>7, QuietStep
<1>. QED  BY <1>5, <1>6

LEMMA HandleEarlyStep ==
  ASSUME TgInv, Up, leg' = leg, NEW o \in Owners, drv.work[o].todo # <<>>,
         Next1(o).kind # "requested", HandleEarly(o, Next1(o))
  PROVE  TgInv' /\ TgStep
<1>1. PICK t : t = Taken(o)
  OBVIOUS
<1>2. PICK u : u = Next1(o)
  OBVIOUS
<1>3. leg \in [Refs -> Legs] /\ op \in [Ops -> Operation] /\ Ok(drv, leg, op)
  BY TgNow
<1>4. /\ Ok(t, leg, op) /\ Same(drv, t) /\ t.call = drv.call /\ u \in Update
      /\ u.kind = "discarded" => leg[u.ref] \in {"down", "gone"}
  BY <1>1, <1>2, <1>3, TakenKeeps
<1>5. PICK w : w = Withdrawn(t, u)
  OBVIOUS
<1>6. Ok(w, leg, op) /\ w.call = drv.call /\ w.work = t.work
  BY <1>3, <1>4, <1>5, WithdrawnKeeps
<1>7. UNCHANGED <<leg, op, host>> /\ drv.call.of # 0
  BY DEF HandleEarly, Becomes
<1>8. Ok(drv', leg, op) /\ Same(w, drv')
  <2>1. CASE drv' = Fail(w)
    BY <1>3, <1>6, <2>1, FailKeeps
  <2>2. CASE drv' # Fail(w)
    <3>1. PICK c : c = [w.call EXCEPT !.queue = Append(w.call.queue, u)]
      OBVIOUS
    <3>2. PICK n : n = [w EXCEPT !.call = c]
      OBVIOUS
    <3>3. w \in Driver /\ w.call \in Reserved
      BY <1>6 DEF Ok, Driver
    <3>4. w.call.queue \in Seq(Update)
      BY <3>3 DEF Reserved
    <3>5. Append(w.call.queue, u) \in Seq(Update) /\ In(Append(w.call.queue, u)) = In(w.call.queue) \cup {u}
      BY <1>4, <3>4, AppendIs
    <3>6. /\ c \in Reserved /\ c.of = w.call.of /\ c.peer = w.call.peer /\ c.media = w.call.media
          /\ c.queue = Append(w.call.queue, u)
      BY <3>1, <3>3, <3>5 DEF Reserved
    <3>7. Harmless(u, leg)
      BY <1>2, <1>4 DEF Harmless
    <3>10. w.call.of # 0 /\ \A v \in In(c.queue) : v \in In(w.call.queue) \/ Harmless(v, leg)
      BY <1>6, <1>7, <3>5, <3>6, <3>7
    <3>8. Ok(n, leg, op) /\ Same(w, n)
      BY <1>3, <1>6, <3>2, <3>6, <3>10, MarkKeeps
    <3>9. drv' = n
      BY <1>1, <1>2, <1>5, <2>2, <3>1, <3>2, <3>3 DEF HandleEarly, Becomes, Driver
    <3>. QED  BY <3>8, <3>9
  <2>. QED  BY <2>1, <2>2
<1>. QED  BY <1>4, <1>5, <1>7, <1>8, WithdrawnStep

LEMMA HandleStaleStep ==
  ASSUME TgInv, Up, leg' = leg, NEW o \in Owners, drv.work[o].todo # <<>>,
         Next1(o).kind # "requested", HandleStale(o, Next1(o))
  PROVE  TgInv' /\ TgStep
<1>1. PICK t : t = Taken(o)
  OBVIOUS
<1>2. PICK u : u = Next1(o)
  OBVIOUS
<1>3. leg \in [Refs -> Legs] /\ op \in [Ops -> Operation] /\ Ok(drv, leg, op)
  BY TgNow
<1>4. /\ Ok(t, leg, op) /\ Same(drv, t) /\ u \in Update
      /\ u.kind = "discarded" => leg[u.ref] \in {"down", "gone"}
  BY <1>1, <1>2, <1>3, TakenKeeps
<1>5. UNCHANGED <<leg, op, host>> /\ drv' = Withdrawn(t, u)
  BY <1>1, <1>2 DEF HandleStale, Becomes
<1>6. Ok(drv', leg, op) /\ Same(Withdrawn(t, u), drv')
  <2>1. Ok(Withdrawn(t, u), leg, op)
    BY <1>3, <1>4, WithdrawnKeeps
  <2>. QED  BY <1>5, <2>1 DEF Same
<1>. QED  BY <1>4, <1>5, <1>6, WithdrawnStep

LEMMA HandleDiscardedStep ==
  ASSUME TgInv, Up, leg' = leg, NEW o \in Owners, drv.work[o].todo # <<>>,
         Next1(o).kind = "discarded", HandleDiscarded(o, Next1(o))
  PROVE  TgInv' /\ TgStep
<1>1. PICK t : t = Taken(o)
  OBVIOUS
<1>2. PICK u : u = Next1(o)
  OBVIOUS
<1>3. leg \in [Refs -> Legs] /\ op \in [Ops -> Operation] /\ Ok(drv, leg, op)
  BY TgNow
<1>4. /\ Ok(t, leg, op) /\ Same(drv, t) /\ t.call = drv.call /\ t.told = drv.told /\ u \in Update
      /\ leg[u.ref] \in {"down", "gone"}
  BY <1>1, <1>2, <1>3, TakenKeeps
<1>5. PICK w : w = Withdrawn(t, u)
  OBVIOUS
<1>6. Ok(w, leg, op) /\ w.call = drv.call
  BY <1>3, <1>4, <1>5, WithdrawnKeeps
<1>7. drv.call.of # 0 /\ drv.call.peer = u.ref /\ u.ref \in Refs /\ u.ref # NoRef /\ UNCHANGED <<leg, op, host>>
  BY <1>2, <1>4, RefsAssumption DEF HandleDiscarded, Mine, Update, Becomes
<1>8. PICK s : s = StopMedia(w)
  OBVIOUS
<1>9. /\ Ok(s, leg, op) /\ Same(w, s) /\ s.told = w.told /\ s.call.media # "open"
  BY <1>3, <1>6, <1>7, <1>8, StopMediaKeeps
<1>10. s.call.peer = u.ref /\ s.call.of # 0
  BY <1>6, <1>7, <1>9 DEF Same
<1>11. CASE s.call.media = "stopped"
  <2>1. drv' = Tell([s EXCEPT !.call = NoCall], s.call.peer, "ended")
    BY <1>1, <1>2, <1>5, <1>8, <1>10, <1>11 DEF HandleDiscarded, Becomes
  <2>2. \A e \in Owners : s.work[e].at # "closing"
    BY <1>9, <1>11 DEF Ok, TgHolds, WorkOf
  <2>3. /\ Ok(drv', leg, op) /\ drv'.call = NoCall
        /\ \A r \in Refs : drv'.told[r] = "ended" <=> r = u.ref \/ s.told[r] = "ended"
        /\ \A r \in Refs : leg[r] \notin TgOurs
    BY <1>3, <1>4, <1>7, <1>9, <1>10, <2>1, <2>2, CallEnds
  <2>4. \A r \in Refs : w.told[r] = "ended" => r = u.ref \/ drv.told[r] = "ended"
    BY <1>3, <1>4, <1>5, WithdrawnKeeps
  <2>5. \A r \in Refs : drv.told[r] = "ended" => w.told[r] = "ended"
    BY <1>3, <1>4, <1>5, WithdrawnKeeps
  <2>6. \A r \in Refs : drv'.told[r] = "ended" <=> r = u.ref \/ drv.told[r] = "ended"
    BY <1>9, <2>3, <2>4, <2>5
  <2>7. leg' \in [Refs -> Legs] /\ op' \in [Ops -> Operation] /\ Ok(drv', leg', op') /\ host' = host
    BY <1>3, <1>7, <2>3
  <2>8. drv'.call.of = 0
    BY <2>3 DEF NoCall, Reservation
  <2>. QED  BY <1>7, <2>3, <2>6, <2>7, <2>8, EndedStep
<1>12. ASSUME Ok(drv', leg, op), Same(s, drv')
       PROVE  TgInv' /\ TgStep
  <2>1. Same(Withdrawn(t, u), drv')
    BY <1>5, <1>9, <1>12 DEF Same
  <2>. QED  BY <1>4, <1>7, <1>12, <2>1, WithdrawnStep
<1>13. CASE s.call.media = "stuck"
  <2>1. drv' = Fail(s)
    BY <1>1, <1>2, <1>5, <1>8, <1>13 DEF HandleDiscarded, Becomes
  <2>. QED  BY <1>3, <1>9, <1>12, <2>1, FailKeeps
<1>14. CASE s.call.media = "stopping"
  <2>1. drv' = Waits(s, o, "closing")
    BY <1>1, <1>2, <1>5, <1>8, <1>14 DEF HandleDiscarded, Becomes
  <2>2. Ok(drv', leg, op) /\ Same(s, drv')
    BY <1>3, <1>4, <1>7, <1>9, <1>10, <1>14, <2>1, WaitsKeeps
  <2>. QED  BY <1>12, <2>2
<1>15. s.call.media \in {"stopping", "stopped", "stuck"}
  BY <1>9 DEF Ok, Driver, Reserved
<1>. QED  BY <1>11, <1>13, <1>14, <1>15

LEMMA HandleWaitingStep ==
  ASSUME TgInv, Up, leg' = leg, NEW o \in Owners, drv.work[o].todo # <<>>,
         HandleWaiting(o, Next1(o).ref)
  PROVE  TgInv' /\ TgStep
<1>1. PICK t : t = Taken(o)
  OBVIOUS
<1>2. PICK r : r = Next1(o).ref
  OBVIOUS
<1>3. leg \in [Refs -> Legs] /\ op \in [Ops -> Operation] /\ Ok(drv, leg, op)
  BY TgNow
<1>4. Ok(t, leg, op) /\ Same(drv, t) /\ t.call = drv.call /\ t.told = drv.told /\ r \in Refs
  BY <1>1, <1>2, <1>3, TakenKeeps DEF Update
<1>5. drv.call.peer = r /\ r # NoRef /\ UNCHANGED <<leg, op, host>>
  BY <1>2, <1>4, RefsAssumption DEF HandleWaiting, Mine, Becomes
<1>6. r \in MaybeRef /\ t.told[r] # "ended"
  BY <1>3, <1>4, <1>5, PeerIs DEF MaybeRef
<1>7. drv' = t \/ drv' = Tell(t, r, "ringing")
  BY <1>1, <1>2 DEF HandleWaiting, Becomes
<1>8. Ok(drv', leg, op) /\ Same(drv, drv')
  <2>1. Ok(Tell(t, r, "ringing"), leg, op) /\ Same(t, Tell(t, r, "ringing"))
    BY <1>3, <1>4, <1>6, TellKeeps
  <2>. QED  BY <1>4, <1>7, <2>1 DEF Same
<1>. QED  BY <1>5, <1>8, CalmStep

LEMMA HandleAcceptedStep ==
  ASSUME TgInv, Up, leg' = leg, NEW o \in Owners, drv.work[o].todo # <<>>,
         HandleAccepted(o, Next1(o).ref)
  PROVE  TgInv' /\ TgStep
<1>1. PICK t : t = Taken(o)
  OBVIOUS
<1>2. PICK r : r = Next1(o).ref
  OBVIOUS
<1>3. leg \in [Refs -> Legs] /\ op \in [Ops -> Operation] /\ Ok(drv, leg, op)
  BY TgNow
<1>4. Ok(t, leg, op) /\ Same(drv, t) /\ t.call = drv.call /\ r \in Refs
  BY <1>1, <1>2, <1>3, TakenKeeps DEF Update
<1>5. drv.call.peer = r /\ r # NoRef /\ drv.call.of # 0 /\ UNCHANGED <<leg, op, host>>
  BY <1>2, <1>4, RefsAssumption DEF HandleAccepted, Mine, Becomes
<1>6. PICK c : c = [t.call EXCEPT !.confirmed = TRUE]
  OBVIOUS
<1>7. PICK n : n = [t EXCEPT !.call = c]
  OBVIOUS
<1>8. t \in Driver /\ t.call \in Reserved
  BY <1>4 DEF Ok, Driver
<1>9. c \in Reserved /\ c.of = t.call.of /\ c.peer = t.call.peer /\ c.queue = t.call.queue /\ c.media = t.call.media
  BY <1>6, <1>8 DEF Reserved
<1>10. t.call.of # 0 /\ \A v \in In(c.queue) : v \in In(t.call.queue) \/ Harmless(v, leg)
  BY <1>4, <1>5, <1>9
<1>11. Ok(n, leg, op) /\ Same(t, n) /\ n.call = c
  BY <1>3, <1>4, <1>7, <1>9, <1>10, MarkKeeps
<1>12. drv' = t \/ drv' = Waits(n, o, "confirming")
  <2>1. [t EXCEPT !.call.confirmed = TRUE] = n
    BY <1>6, <1>7, <1>8 DEF Driver
  <2>. QED  BY <1>1, <1>2, <2>1 DEF HandleAccepted, Becomes
<1>13. n.call.peer # NoRef
  BY <1>4, <1>5, <1>9, <1>11
<1>14. Ok(drv', leg, op) /\ Same(drv, drv')
  <2>1. Ok(Waits(n, o, "confirming"), leg, op) /\ Same(n, Waits(n, o, "confirming"))
    BY <1>3, <1>11, <1>13, WaitsKeeps
  <2>2. Same(drv, n)
    BY <1>4, <1>5, <1>11 DEF Same
  <2>3. Same(drv, Waits(n, o, "confirming"))
    BY <1>5, <2>1, <2>2 DEF Same
  <2>. QED  BY <1>4, <1>12, <2>1, <2>3
<1>. QED  BY <1>5, <1>14, CalmStep

LEMMA HandleConnectedStep ==
  ASSUME TgInv, Up, leg' = leg, NEW o \in Owners, drv.work[o].todo # <<>>,
         HandleConnected(o, Next1(o).ref)
  PROVE  TgInv' /\ TgStep
<1>1. PICK t : t = Taken(o)
  OBVIOUS
<1>2. PICK r : r = Next1(o).ref
  OBVIOUS
<1>3. leg \in [Refs -> Legs] /\ op \in [Ops -> Operation] /\ Ok(drv, leg, op)
  BY TgNow
<1>4. Ok(t, leg, op) /\ Same(drv, t) /\ t.call = drv.call /\ r \in Refs
  BY <1>1, <1>2, <1>3, TakenKeeps DEF Update
<1>5. drv.call.peer = r /\ r # NoRef /\ drv.call.of # 0 /\ UNCHANGED <<leg, op, host>>
  BY <1>2, <1>4, RefsAssumption DEF HandleConnected, Mine, Becomes
<1>6. PICK c : c = [t.call EXCEPT !.connected = TRUE]
  OBVIOUS
<1>7. PICK n : n = [t EXCEPT !.call = c]
  OBVIOUS
<1>8. t \in Driver /\ t.call \in Reserved
  BY <1>4 DEF Ok, Driver
<1>9. c \in Reserved /\ c.of = t.call.of /\ c.peer = t.call.peer /\ c.queue = t.call.queue /\ c.media = t.call.media
  BY <1>6, <1>8 DEF Reserved
<1>10. t.call.of # 0 /\ \A v \in In(c.queue) : v \in In(t.call.queue) \/ Harmless(v, leg)
  BY <1>4, <1>5, <1>9
<1>11. Ok(n, leg, op) /\ Same(t, n) /\ n.call = c
  BY <1>3, <1>4, <1>7, <1>9, <1>10, MarkKeeps
<1>12. PICK m : m = Tell(n, r, "connected")
  OBVIOUS
<1>13. drv' = t \/ drv' = Waits(n, o, "keys") \/ drv' = Waits(m, o, "connecting")
  <2>1. [t EXCEPT !.call.connected = TRUE] = n
    BY <1>6, <1>7, <1>8 DEF Driver
  <2>. QED  BY <1>1, <1>2, <1>12, <2>1 DEF HandleConnected, Becomes
<1>14. n.call.peer = r
  BY <1>4, <1>5, <1>9, <1>11
<1>15. r \in MaybeRef /\ n.told[r] # "ended"
  BY <1>4, <1>5, <1>11, <1>14, <1>3, PeerIs DEF MaybeRef
<1>16. Ok(m, leg, op) /\ Same(n, m) /\ m.call = n.call
  BY <1>3, <1>11, <1>12, <1>15, TellKeeps
<1>17. Ok(drv', leg, op) /\ Same(drv, drv')
  <2>1. Ok(Waits(n, o, "keys"), leg, op) /\ Same(n, Waits(n, o, "keys"))
    BY <1>3, <1>5, <1>11, <1>14, WaitsKeeps
  <2>2. Ok(Waits(m, o, "connecting"), leg, op) /\ Same(m, Waits(m, o, "connecting"))
    BY <1>3, <1>5, <1>14, <1>16, WaitsKeeps
  <2>3. Same(drv, n)
    BY <1>4, <1>5, <1>11 DEF Same
  <2>4. Same(drv, m)
    BY <1>5, <1>16, <2>3 DEF Same
  <2>5. Same(drv, Waits(n, o, "keys")) /\ Same(drv, Waits(m, o, "connecting"))
    BY <1>5, <2>1, <2>2, <2>3, <2>4 DEF Same
  <2>. QED  BY <1>4, <1>13, <2>1, <2>2, <2>5
<1>. QED  BY <1>5, <1>17, CalmStep

LEMMA HandleCallStep ==
  ASSUME TgInv, NEW o \in Owners, HandleCall(o)
  PROVE  TgInv' /\ TgStep
<1>1. Up /\ leg' = leg /\ drv.work[o].todo # <<>>
  BY DEF HandleCall, Ready
<1>2. PICK u : u = Next1(o)
  OBVIOUS
<1>3. /\ u \in Update
  BY <1>1, <1>2, TgNow, TakenKeeps
<1>4. \/ u.kind = "requested" /\ HandleRequested(o, u.ref)
      \/ u.kind # "requested" /\ HandleEarly(o, u)
      \/ u.kind # "requested" /\ HandleStale(o, u)
      \/ u.kind = "discarded" /\ HandleDiscarded(o, u)
      \/ u.kind = "waiting" /\ HandleWaiting(o, u.ref)
      \/ u.kind = "accepted" /\ HandleAccepted(o, u.ref)
      \/ u.kind = "call" /\ HandleConnected(o, u.ref)
  BY <1>2 DEF HandleCall
<1>5. CASE u.kind = "requested" /\ HandleRequested(o, u.ref)
  BY <1>1, <1>2, <1>5, HandleRequestedStep
<1>6. CASE u.kind # "requested" /\ HandleEarly(o, u)
  BY <1>1, <1>2, <1>6, HandleEarlyStep
<1>7. CASE u.kind # "requested" /\ HandleStale(o, u)
  BY <1>1, <1>2, <1>7, HandleStaleStep
<1>8. CASE u.kind = "discarded" /\ HandleDiscarded(o, u)
  BY <1>1, <1>2, <1>8, HandleDiscardedStep
<1>9. CASE u.kind = "waiting" /\ HandleWaiting(o, u.ref)
  BY <1>1, <1>2, <1>9, HandleWaitingStep
<1>10. CASE u.kind = "accepted" /\ HandleAccepted(o, u.ref)
  BY <1>1, <1>2, <1>10, HandleAcceptedStep
<1>11. CASE u.kind = "call" /\ HandleConnected(o, u.ref)
  BY <1>1, <1>2, <1>11, HandleConnectedStep
<1>. QED  BY <1>4, <1>5, <1>6, <1>7, <1>8, <1>9, <1>10, <1>11

-----------------------------------------------------------------------------
(* What settles *)

\* A leg of ours goes on or down, an offer is gone.
LEMMA LegMoves ==
  ASSUME NEW l \in [Refs -> Legs], NEW p \in [Ops -> Operation], NEW s, Ok(s, l, p), NEW r \in Refs, NEW to,
         \/ l[r] \in TgOurs /\ to \in TgOurs \cup {"down"}
         \/ l[r] \in {"offered", "gone"} /\ to = "gone"
         \/ to = l[r],
         NEW k, k = [l EXCEPT ![r] = to]
  PROVE  /\ Ok(s, k, p) /\ k \in [Refs -> Legs] /\ k[r] = to
         /\ \A q \in Refs \ {r} : k[q] = l[q]
<1>1. /\ k \in [Refs -> Legs] /\ k[r] = to /\ \A q \in Refs \ {r} : k[q] = l[q]
  BY DEF Legs
<1>2. s \in Driver
  BY DEF Ok
<1>3. \A q \in Refs : /\ k[q] \in TgOurs => l[q] \in TgOurs
                      /\ l[q] \in {"down", "gone"} => k[q] \in {"down", "gone"}
                      /\ l[q] \in {"offered", "gone"} => k[q] \in {"offered", "gone"}
                      /\ l[q] # "none" => k[q] # "none"
                      /\ l[q] \in TgOurs \cup {"down"} => k[q] \in TgOurs \cup {"down"}
                      /\ k[q] = "offered" => l[q] = "offered"
  BY <1>1 DEF TgOurs
<1>4. LegsOf(s, k) /\ OffersOf(s, k)
  BY <1>2, <1>3 DEF Ok, TgHolds, LegsOf, OffersOf, Driver
<1>5. PeerOf(s, k, p)
  BY <1>2, <1>3 DEF Ok, TgHolds, PeerOf, Driver, Reserved, MaybeRef
<1>6. ASSUME NEW q \in Seq(Update)
      PROVE  In(q) \subseteq Update
  BY <1>6 DEF In
<1>7. \A o \in Owners : In(s.work[o].todo) \subseteq Update
  <2>1. \A o \in Owners : s.work[o].todo \in Seq(Update)
    BY <1>2 DEF Driver, Waiting
  <2>. QED  BY <1>6, <2>1
<1>8. In(s.call.queue) \subseteq Update
  <2>1. s.call.queue \in Seq(Update)
    BY <1>2 DEF Driver, Reserved
  <2>. QED  BY <1>6, <2>1
<1>9. \A u \in Update : u.ref \in Refs
  BY DEF Update
<1>10. RequestedOf(s, k)
  <2>1. Chain \in Owners
    BY DEF Owners
  <2>. QED  BY <1>3, <1>7, <1>9, <2>1 DEF Ok, TgHolds, RequestedOf
<1>11. DiscardedOf(s, k)
  BY <1>3, <1>7, <1>8, <1>9 DEF Ok, TgHolds, DiscardedOf
<1>12. WorkOf(s, k, p)
  BY <1>3 DEF Ok, TgHolds, WorkOf
<1>13. ASSUME NEW d \in Ops
       PROVE  OpOf(s, k, p, d)
  BY <1>3 DEF Ok, TgHolds, OpOf
<1>. QED  BY <1>1, <1>2, <1>4, <1>5, <1>10, <1>11, <1>12, <1>13 DEF Ok, TgHolds

\* More to handle.
LEMMA MoreKeeps ==
  ASSUME NEW l \in [Refs -> Legs], NEW p \in [Ops -> Operation], NEW s, Ok(s, l, p), NEW o \in Owners,
         NEW todo \in Seq(Update), \A u \in In(todo) : u \in In(s.work[o].todo) \/ Harmless(u, l),
         o = Chain => Once("requested", todo),
         NEW t, t = [s EXCEPT !.work[o] = [s.work[o] EXCEPT !.todo = todo]]
  PROVE  Ok(t, l, p) /\ Same(s, t) /\ t.call = s.call /\ t.told = s.told
<1>1. PICK row : row = [s.work[o] EXCEPT !.todo = todo]
  OBVIOUS
<1>2. s \in Driver /\ s.work[o] \in Waiting /\ WorkOf(s, l, p)
  BY DEF Ok, TgHolds, Driver
<1>3. /\ row \in Waiting /\ row.at = s.work[o].at /\ row.of = s.work[o].of /\ row.ref = s.work[o].ref
      /\ row.todo = todo
  BY <1>1, <1>2 DEF Waiting
<1>4. RowFits(s, l, o, row)
  BY <1>2, <1>3 DEF WorkOf, RowFits
<1>5. t = [s EXCEPT !.work[o] = row]
  BY <1>1
<1>. QED  BY <1>3, <1>4, <1>5, WorkKeeps

LEMMA DropStep ==
  ASSUME TgInv, Up, leg' \in [Refs -> Legs], op' \in [Ops -> Operation], Ok(drv', leg', op'), host' = host,
         NEW r \in Refs, leg[r] \in TgOurs, leg'[r] \notin TgOurs, \A q \in Refs \ {r} : leg'[q] = leg[q],
         \A q \in Refs : drv'.told[q] = "ended" <=> drv.told[q] = "ended",
         drv'.call.of = 0 <=> drv.call.of = 0
  PROVE  TgInv' /\ TgStep
<1>1. \A q \in Refs : leg[q] \in TgOurs => q = r
  BY TgNow DEF Ok, TgHolds, LegsOf
<1>2. r \in TgAlive /\ TgAlive' = {}
  BY <1>1 DEF TgAlive
<1>3. TgOver' = TgOver
  BY DEF TgOver
<1>4. TgFree' = TgFree
  BY DEF TgFree, Up
<1>5. TgContract!Drop(r)
  BY <1>2, <1>3, <1>4 DEF TgContract!Drop, TgAlive, TgOver, TgFree
<1>6. TgInv'
  BY TgPrime DEF Up
<1>. QED  BY <1>5, <1>6 DEF TgStep, TgContract!Next

LEMMA StopSettlesStep ==
  ASSUME TgInv, Up, StopSettles
  PROVE  TgInv' /\ TgStep
<1>1. /\ Ok(drv, leg, op) /\ drv \in Driver /\ leg \in [Refs -> Legs] /\ op \in [Ops -> Operation]
      /\ WorkOf(drv, leg, op)
  BY TgNow DEF Ok, TgHolds
<1>2. UNCHANGED <<leg, op, host>>
  BY DEF StopSettles, Becomes
<1>3. drv.call.media = "stopping" /\ drv.call.of # 0
  BY <1>1 DEF StopSettles, Ok, TgHolds, PeerOf, NoCall, Reservation
\* The state in which the handlers that waited have resumed.
<1>4. PICK f : f = [o \in Owners |-> IF o \in {e \in Owners : drv.work[e].at = "closing"}
                                     THEN Idle(drv, o).work[o] ELSE drv.work[o]]
  OBVIOUS
<1>5. PICK s : s = [drv EXCEPT !.work = f]
  OBVIOUS
<1>6. \A o \in Owners :
        /\ f[o].todo = drv.work[o].todo
        /\ f[o] = drv.work[o] \/ f[o] = [at |-> "idle", of |-> 0, ref |-> NoRef, todo |-> drv.work[o].todo]
        /\ f[o].at # "closing"
  <2>1. ASSUME NEW o \in Owners
        PROVE  Idle(drv, o).work[o] = [at |-> "idle", of |-> 0, ref |-> NoRef, todo |-> drv.work[o].todo]
    BY <1>1, <2>1 DEF Idle, Row, Driver
  <2>. QED  BY <1>4, <2>1
<1>7. f \in [Owners -> Waiting]
  <2>1. ASSUME NEW o \in Owners
        PROVE  [at |-> "idle", of |-> 0, ref |-> NoRef, todo |-> drv.work[o].todo] \in Waiting
    BY <1>1, <2>1 DEF Driver, Waiting, MaybeRef
  <2>2. \A o \in Owners : f[o] \in Waiting
    BY <1>1, <1>6, <2>1 DEF Driver
  <2>. QED  BY <1>4, <2>2
<1>8. s \in Driver /\ s.work = f /\ s.call = drv.call /\ s.told = drv.told /\ s.offers = drv.offers
  BY <1>1, <1>5, <1>7 DEF Driver
<1>9. Same(drv, s)
  BY <1>8 DEF Same
<1>10. Todos(drv, s, leg)
  <2>1. RequestedOf(drv, leg) /\ Chain \in Owners
    BY <1>1 DEF Ok, TgHolds, Owners
  <2>. QED  BY <1>6, <1>8, <2>1 DEF Todos, RequestedOf
<1>11. WorkOf(s, leg, op)
  <2>1. ASSUME NEW o \in Owners, f[o] # drv.work[o]
        PROVE  f[o].of = 0 /\ f[o].at = "idle"
    <3>1. PICK row : row = [at |-> "idle", of |-> 0, ref |-> NoRef, todo |-> drv.work[o].todo]
      OBVIOUS
    <3>2. f[o] = row
      BY <1>6, <2>1, <3>1
    <3>. QED  BY <3>1, <3>2
  <2>2. \A o \in Owners : f[o] = drv.work[o] \/ (f[o].of = 0 /\ f[o].at = "idle")
    BY <2>1
  <2>3. \A o \in Owners : f[o].at # "closing"
    BY <1>6
  <2>. QED  BY <1>1, <1>8, <2>2, <2>3 DEF WorkOf
<1>12. Ok(s, leg, op)
  BY <1>1, <1>8, <1>9, <1>10, <1>11, Congruent DEF Ok
<1>13. ASSUME NEW m \in {"stopped", "stuck"}, NEW n, n = [s EXCEPT !.call.media = m]
       PROVE  Ok(n, leg, op) /\ Same(s, n)
  <2>1. PICK c : c = [s.call EXCEPT !.media = m]
    OBVIOUS
  <2>2. c \in Reserved /\ c.of = s.call.of /\ c.peer = s.call.peer /\ c.queue = s.call.queue
    BY <1>8, <2>1 DEF Driver, Reserved
  <2>3. n = [s EXCEPT !.call = c]
    BY <1>8, <1>13, <2>1 DEF Driver
  <2>4. s.call.of # 0 /\ (\A v \in In(c.queue) : v \in In(s.call.queue) \/ Harmless(v, leg))
        /\ \A o \in Owners : s.work[o].at # "closing"
    BY <1>3, <1>6, <1>8, <2>2
  <2>. QED  BY <1>1, <1>12, <2>2, <2>3, <2>4, MarkKeeps
<1>14. CASE \A o \in Owners : drv.work[o].at # "closing"
  <2>1. PICK m \in {"stopped", "stuck"} : drv' = [drv EXCEPT !.call.media = m]
    BY <1>14 DEF StopSettles, Becomes
  <2>2. f = drv.work
    BY <1>1, <1>4, <1>14 DEF Driver
  <2>3. s = drv
    BY <1>1, <1>5, <2>2 DEF Driver
  <2>4. Ok(drv', leg, op) /\ Same(drv, drv')
    BY <1>13, <2>1, <2>3
  <2>. QED  BY <1>2, <2>4, CalmStep
<1>15. ASSUME NEW o \in Owners, drv.work[o].at = "closing"
       PROVE  TgInv' /\ TgStep
  <2>1. PICK e : e = drv.call.peer
    OBVIOUS
  <2>2. drv.work[o].ref = e /\ e \in Refs /\ e # NoRef /\ leg[e] \in {"down", "gone"}
    BY <1>1, <1>15, <2>1, RefsAssumption DEF WorkOf
  <2>3. \/ drv' = Tell([s EXCEPT !.call = NoCall], e, "ended")
        \/ drv' = Fail([s EXCEPT !.call.media = "stuck"])
    BY <1>4, <1>5, <1>15, <2>1 DEF StopSettles, Becomes
  <2>4. CASE drv' = Fail([s EXCEPT !.call.media = "stuck"])
    <3>1. PICK n : n = [s EXCEPT !.call.media = "stuck"]
      OBVIOUS
    <3>2. Ok(n, leg, op) /\ Same(s, n)
      BY <1>13, <3>1
    <3>3. Ok(drv', leg, op) /\ Same(n, drv')
      BY <1>1, <2>4, <3>1, <3>2, FailKeeps
    <3>4. Same(drv, drv')
      BY <1>3, <1>8, <1>9, <3>2, <3>3 DEF Same
    <3>. QED  BY <1>2, <3>3, <3>4, CalmStep
  <2>5. CASE drv' = Tell([s EXCEPT !.call = NoCall], e, "ended")
    <3>1. \A q \in Owners : s.work[q].at # "closing"
      BY <1>6, <1>8
    <3>2. s.call.peer = e /\ drv' = Tell([s EXCEPT !.call = NoCall], s.call.peer, "ended")
      BY <1>8, <2>1, <2>5
    <3>3. /\ Ok(drv', leg, op) /\ drv'.call = NoCall
          /\ \A r \in Refs : drv'.told[r] = "ended" <=> r = s.call.peer \/ s.told[r] = "ended"
          /\ \A r \in Refs : leg[r] \notin TgOurs
      BY <1>1, <1>12, <2>2, <3>1, <3>2, CallEnds
    <3>4. \A r \in Refs : drv'.told[r] = "ended" <=> r = e \/ drv.told[r] = "ended"
      BY <1>8, <3>2, <3>3
    <3>5. leg' \in [Refs -> Legs] /\ op' \in [Ops -> Operation] /\ Ok(drv', leg', op') /\ host' = host /\ leg' = leg
      BY <1>1, <1>2, <3>3
    <3>6. drv'.call.of = 0
      BY <3>3 DEF NoCall, Reservation
    <3>. QED  BY <2>2, <3>3, <3>4, <3>5, <3>6, EndedStep
  <2>. QED  BY <2>3, <2>4, <2>5
<1>. QED  BY <1>14, <1>15

LEMMA ConfirmSettlesStep ==
  ASSUME TgInv, Up, NEW o \in Owners, ConfirmSettles(o)
  PROVE  TgInv' /\ TgStep
<1>1. /\ Ok(drv, leg, op) /\ drv \in Driver /\ leg \in [Refs -> Legs] /\ op \in [Ops -> Operation]
      /\ WorkOf(drv, leg, op)
  BY TgNow DEF Ok, TgHolds
<1>2. PICK r : r = drv.work[o].ref
  OBVIOUS
<1>3. r \in Refs
  BY <1>1, <1>2 DEF ConfirmSettles, WorkOf
<1>4. UNCHANGED <<op, host>>
  BY DEF ConfirmSettles, Becomes
<1>5. CASE leg' = leg /\ drv' = Throw(drv, o)
  <2>1. Ok(drv', leg, op) /\ Same(drv, drv')
    BY <1>1, <1>5, ThrowKeeps
  <2>. QED  BY <1>4, <1>5, <2>1, CalmStep
<1>6. CASE /\ leg[r] = "answered" /\ leg' = [leg EXCEPT ![r] = "up"]
           /\ \/ drv' = [Idle(drv, o) EXCEPT !.work[o].todo = <<[kind |-> "call", ref |-> r]>> \o @]
              \/ drv' = Throw(drv, o)
  <2>1. leg[r] \in TgOurs /\ "up" \in TgOurs
    BY <1>6 DEF TgOurs
  <2>2. /\ Ok(drv, leg', op) /\ leg' \in [Refs -> Legs] /\ leg'[r] = "up"
        /\ \A q \in Refs \ {r} : leg'[q] = leg[q]
    BY <1>1, <1>3, <1>6, <2>1, LegMoves
  <2>3. \A q \in Refs : leg'[q] \in TgOurs <=> leg[q] \in TgOurs
    BY <2>1, <2>2
  <2>4. Ok(drv', leg', op) /\ Same(drv, drv')
    <3>1. CASE drv' = Throw(drv, o)
      BY <1>1, <2>2, <3>1, ThrowKeeps
    <3>2. CASE drv' = [Idle(drv, o) EXCEPT !.work[o].todo = <<[kind |-> "call", ref |-> r]>> \o @]
      <4>1. PICK s : s = Idle(drv, o)
        OBVIOUS
      <4>2. Ok(s, leg', op) /\ Same(drv, s) /\ s.call = drv.call
        BY <1>1, <2>2, <4>1, IdleKeeps
      <4>3. PICK u : u = [kind |-> "call", ref |-> r]
        OBVIOUS
      <4>4. u \in Update /\ u.kind = "call" /\ Harmless(u, leg')
        BY <1>3, <4>3 DEF Update, Harmless
      <4>5. s \in Driver /\ s.work[o] \in Waiting /\ s.work[o].todo \in Seq(Update)
        BY <4>2 DEF Ok, Driver, Waiting
      <4>6. PICK todo : todo = <<u>> \o s.work[o].todo
        OBVIOUS
      <4>7. /\ todo \in Seq(Update) /\ In(todo) = {u} \cup In(s.work[o].todo)
            /\ Once("requested", s.work[o].todo) => Once("requested", todo)
        BY <4>4, <4>5, <4>6, PrependOf
      <4>8. o = Chain => Once("requested", todo)
        BY <4>2, <4>7 DEF Ok, TgHolds, RequestedOf
      <4>9. drv' = [s EXCEPT !.work[o] = [s.work[o] EXCEPT !.todo = todo]]
        BY <3>2, <4>1, <4>3, <4>5, <4>6 DEF Driver
      <4>10. Ok(drv', leg', op) /\ Same(s, drv')
        BY <1>1, <2>2, <4>2, <4>4, <4>7, <4>8, <4>9, MoreKeeps
      <4>. QED  BY <4>2, <4>10 DEF Same
    <3>. QED  BY <1>6, <3>1, <3>2
  <2>5. op' \in [Ops -> Operation] /\ Ok(drv', leg', op') /\ host' = host
    BY <1>1, <1>4, <2>4
  <2>. QED  BY <2>2, <2>3, <2>4, <2>5, QuietStep DEF Same
<1>. QED  BY <1>2, <1>5, <1>6 DEF ConfirmSettles, Becomes

LEMMA KeysSettleStep ==
  ASSUME TgInv, Up, NEW o \in Owners, KeysSettle(o)
  PROVE  TgInv' /\ TgStep
<1>1. /\ Ok(drv, leg, op) /\ drv \in Driver /\ leg \in [Refs -> Legs] /\ op \in [Ops -> Operation]
      /\ WorkOf(drv, leg, op)
  BY TgNow DEF Ok, TgHolds
<1>2. UNCHANGED <<leg, op, host>>
  BY DEF KeysSettle, Becomes
<1>3. CASE drv' = Throw(drv, o)
  BY <1>1, <1>2, <1>3, ThrowKeeps, CalmStep
<1>4. CASE /\ drv.call.of = drv.work[o].of
           /\ drv' = Tell([drv EXCEPT !.work[o].at = "connecting"], drv.work[o].ref, "connected")
  <2>1. PICK r : r = drv.work[o].ref
    OBVIOUS
  <2>2. r \in Refs /\ r = drv.call.peer /\ r # NoRef /\ drv.work[o].of # 0
    BY <1>1, <1>4, <2>1, RefsAssumption DEF KeysSettle, WorkOf
  <2>3. PICK row : row = [drv.work[o] EXCEPT !.at = "connecting"]
    OBVIOUS
  <2>4. PICK s : s = [drv EXCEPT !.work[o] = row]
    OBVIOUS
  <2>12. drv.work[o] \in Waiting
    BY <1>1 DEF Driver
  <2>5. /\ row \in Waiting /\ row.at = "connecting" /\ row.of = drv.work[o].of
        /\ row.ref = drv.work[o].ref /\ row.todo = drv.work[o].todo
    BY <2>3, <2>12 DEF Waiting
  <2>6. RowFits(drv, leg, o, row)
    BY <1>1, <2>2, <2>5 DEF RowFits, Ok, TgHolds, RequestedOf
  <2>7. Ok(s, leg, op) /\ Same(drv, s) /\ s.told = drv.told
    BY <1>1, <2>4, <2>5, <2>6, WorkKeeps
  <2>8. r \in MaybeRef /\ s.told[r] # "ended"
    BY <1>1, <2>2, <2>7, PeerIs DEF MaybeRef
  <2>9. drv' = Tell(s, r, "connected")
    BY <1>1, <1>4, <2>1, <2>3, <2>4 DEF Driver
  <2>10. Ok(drv', leg, op) /\ Same(s, drv')
    BY <1>1, <2>7, <2>8, <2>9, TellKeeps
  <2>11. Same(drv, drv')
    BY <2>7, <2>10 DEF Same
  <2>. QED  BY <1>2, <2>10, <2>11, CalmStep
<1>. QED  BY <1>3, <1>4 DEF KeysSettle, Becomes

\* Marking the path of the media.
LEMMA PathKeeps ==
  ASSUME NEW l \in [Refs -> Legs], NEW p \in [Ops -> Operation], NEW s, Ok(s, l, p), s.call.of # 0,
         NEW b \in BOOLEAN, NEW t, t = [s EXCEPT !.call.path = b]
  PROVE  Ok(t, l, p) /\ Same(s, t) /\ t.told = s.told /\ t.call.peer = s.call.peer
<1>1. s \in Driver
  BY DEF Ok
<1>2. PICK c : c = [s.call EXCEPT !.path = b]
  OBVIOUS
<1>3. c \in Reserved /\ c.of = s.call.of /\ c.peer = s.call.peer /\ c.queue = s.call.queue /\ c.media = s.call.media
  BY <1>1, <1>2 DEF Driver, Reserved
<1>4. PICK n : n = [s EXCEPT !.call = c]
  OBVIOUS
<1>5. \A v \in In(c.queue) : v \in In(s.call.queue) \/ Harmless(v, l)
  BY <1>3
<1>6. Ok(n, l, p) /\ Same(s, n) /\ n.told = s.told /\ n.call = c
  BY <1>3, <1>4, <1>5, MarkKeeps
<1>7. t = n
  BY <1>1, <1>2, <1>4 DEF Driver
<1>. QED  BY <1>3, <1>6, <1>7

LEMMA ConnectSettlesStep ==
  ASSUME TgInv, Up, NEW o \in Owners, ConnectSettles(o)
  PROVE  TgInv' /\ TgStep
<1>1. /\ Ok(drv, leg, op) /\ drv \in Driver /\ leg \in [Refs -> Legs] /\ op \in [Ops -> Operation]
      /\ WorkOf(drv, leg, op)
  BY TgNow DEF Ok, TgHolds
<1>2. UNCHANGED <<leg, op, host>>
  BY DEF ConnectSettles, Becomes
<1>3. CASE drv' = Throw(drv, o)
  BY <1>1, <1>2, <1>3, ThrowKeeps, CalmStep
<1>4. CASE drv.call.of = drv.work[o].of /\ drv' = [Idle(drv, o) EXCEPT !.call.path = TRUE]
  <2>1. drv.call.of # 0
    BY <1>1, <1>4 DEF ConnectSettles, WorkOf
  <2>2. PICK s : s = Idle(drv, o)
    OBVIOUS
  <2>3. Ok(s, leg, op) /\ Same(drv, s) /\ s.call = drv.call
    BY <1>1, <2>2, IdleKeeps
  <2>4. drv' = [s EXCEPT !.call.path = TRUE] /\ s.call.of # 0
    BY <1>4, <2>1, <2>2, <2>3
  <2>5. Ok(drv', leg, op) /\ Same(s, drv')
    BY <1>1, <2>3, <2>4, PathKeeps
  <2>6. Same(drv, drv')
    BY <2>1, <2>3, <2>5 DEF Same
  <2>. QED  BY <1>2, <2>5, <2>6, CalmStep
<1>. QED  BY <1>3, <1>4 DEF ConnectSettles, Becomes

LEMMA TgMediaStep ==
  ASSUME TgInv, Up, MediaConnects \/ MediaFails
  PROVE  TgInv' /\ TgStep
<1>1. /\ Ok(drv, leg, op) /\ drv \in Driver /\ leg \in [Refs -> Legs] /\ op \in [Ops -> Operation]
  BY TgNow
<1>2. UNCHANGED <<leg, op, host>>
  BY DEF MediaConnects, MediaFails, Becomes
<1>3. CASE MediaFails
  BY <1>1, <1>2, <1>3, FailKeeps, CalmStep DEF MediaFails, Becomes
<1>4. CASE MediaConnects
  <2>1. drv.call.of # 0
    BY <1>1, <1>4 DEF MediaConnects, Ok, TgHolds, PeerOf, NoCall, Reservation
  <2>9. PICK c : c = [drv.call EXCEPT !.path = FALSE]
    OBVIOUS
  <2>2. PICK s : s = [drv EXCEPT !.call = c]
    OBVIOUS
  <2>10. drv.call \in Reserved
    BY <1>1 DEF Driver
  <2>11. /\ c \in Reserved /\ c.of = drv.call.of /\ c.peer = drv.call.peer /\ c.queue = drv.call.queue
         /\ c.media = drv.call.media
    BY <2>9, <2>10 DEF Reserved
  <2>12. \A v \in In(c.queue) : v \in In(drv.call.queue) \/ Harmless(v, leg)
    BY <2>11
  <2>13. Ok(s, leg, op) /\ Same(drv, s) /\ s.told = drv.told /\ s.call = c
    BY <1>1, <2>1, <2>2, <2>11, <2>12, MarkKeeps
  <2>3. Ok(s, leg, op) /\ Same(drv, s) /\ s.told = drv.told /\ s.call.peer = drv.call.peer
    BY <2>11, <2>13
  <2>14. s = [drv EXCEPT !.call.path = FALSE]
    BY <1>1, <2>2, <2>9 DEF Driver
  <2>4. PICK r : r = drv.call.peer
    OBVIOUS
  <2>5. r \in MaybeRef /\ (r # NoRef => s.told[r] # "ended")
    BY <1>1, <2>3, <2>4, PeerIs DEF Driver, Reserved
  <2>6. drv' = Tell(s, r, "audio")
    BY <1>4, <2>4, <2>14 DEF MediaConnects, Becomes
  <2>7. Ok(drv', leg, op) /\ Same(s, drv')
    BY <1>1, <2>3, <2>5, <2>6, TellKeeps
  <2>8. Same(drv, drv')
    BY <2>1, <2>3, <2>7 DEF Same
  <2>. QED  BY <1>2, <2>7, <2>8, CalmStep
<1>. QED  BY <1>3, <1>4

\* The answer of a hang-up, or what is pushed with it.
LEMMA HangupReachesStep ==
  ASSUME TgInv, Up, NEW g \in Ops, HangupReaches(g)
  PROVE  TgInv' /\ TgStep
<1>1. /\ Ok(drv, leg, op) /\ drv \in Driver /\ leg \in [Refs -> Legs] /\ op \in [Ops -> Operation]
      /\ WorkOf(drv, leg, op) /\ RequestedOf(drv, leg)
  BY TgNow DEF Ok, TgHolds
<1>2. PICK h : h = Hangup(g)
  OBVIOUS
<1>3. PICK r : r = drv.work[h].ref
  OBVIOUS
<1>4. h \in Owners /\ h # Chain /\ Chain \in Owners
  BY <1>2 DEF Hangup, Owners, Chain
<1>5. r \in Refs /\ leg[r] # "none" /\ leg[r] \in Legs
  BY <1>1, <1>2, <1>3, <1>4 DEF HangupReaches, WorkOf
<1>6. PICK to : to = CASE leg[r] \in TgOurs -> "down" [] leg[r] = "offered" -> "gone" [] OTHER -> leg[r]
  OBVIOUS
<1>7. leg' = [leg EXCEPT ![r] = to] /\ UNCHANGED <<op, host>>
  BY <1>2, <1>3, <1>6 DEF HangupReaches, Becomes
<1>8. /\ leg[r] \in TgOurs => to = "down"
      /\ leg[r] = "offered" => to = "gone"
      /\ leg[r] \in {"gone", "down"} => to = leg[r]
  BY <1>6 DEF TgOurs
<1>9. /\ Ok(drv, leg', op) /\ leg' \in [Refs -> Legs] /\ leg'[r] = to
      /\ \A q \in Refs \ {r} : leg'[q] = leg[q]
  <2>1. \/ leg[r] \in TgOurs /\ to \in TgOurs \cup {"down"}
        \/ leg[r] \in {"offered", "gone"} /\ to = "gone"
        \/ to = leg[r]
    BY <1>5, <1>8 DEF Legs
  <2>. QED  BY <1>1, <1>5, <1>7, <2>1, LegMoves
<1>10. leg'[r] \in {"down", "gone"}
  BY <1>5, <1>8, <1>9 DEF Legs
<1>11. PICK u : u = [kind |-> "discarded", ref |-> r]
  OBVIOUS
<1>12. u \in Update /\ Harmless(u, leg') /\ u.kind = "discarded"
  BY <1>5, <1>10, <1>11 DEF Update, Harmless
<1>13. PICK pushed \in {<<>>, <<u>>} :
         LET s == [drv EXCEPT !.work[Chain].todo = @ \o pushed]
         IN \/ \E answer \in {<<>>, <<u>>} :
                 Becomes([s EXCEPT !.work[h].at = "idle", !.work[h].todo = answer])
            \/ Becomes(Throw(s, h))
  BY <1>2, <1>3, <1>11 DEF HangupReaches
<1>14. PICK todo : todo = drv.work[Chain].todo \o pushed
  OBVIOUS
<1>15. /\ todo \in Seq(Update) /\ Once("requested", todo)
       /\ \A v \in In(todo) : v \in In(drv.work[Chain].todo) \/ Harmless(v, leg')
  <2>1. drv.work[Chain].todo \in Seq(Update) /\ Once("requested", drv.work[Chain].todo)
    BY <1>1, <1>4 DEF Driver, Waiting, RequestedOf
  <2>2. CASE pushed = <<>>
    BY <1>14, <2>1, <2>2
  <2>3. CASE pushed = <<u>>
    <3>1. todo = Append(drv.work[Chain].todo, u)
      BY <1>12, <1>14, <2>1, <2>3
    <3>. QED  BY <1>12, <2>1, <3>1, AppendOf
  <2>. QED  BY <1>13, <2>2, <2>3
<1>16. PICK s : s = [drv EXCEPT !.work[Chain] = [drv.work[Chain] EXCEPT !.todo = todo]]
  OBVIOUS
<1>17. Ok(s, leg', op) /\ Same(drv, s)
  BY <1>1, <1>4, <1>9, <1>15, <1>16, MoreKeeps
<1>18. s = [drv EXCEPT !.work[Chain].todo = @ \o pushed]
  BY <1>1, <1>4, <1>14, <1>16 DEF Driver
<1>19. Ok(drv', leg', op) /\ Same(s, drv')
  <2>1. CASE drv' = Throw(s, h)
    BY <1>1, <1>4, <1>9, <1>17, <2>1, ThrowKeeps
  <2>2. ASSUME NEW answer \in {<<>>, <<u>>},
               drv' = [s EXCEPT !.work[h].at = "idle", !.work[h].todo = answer]
        PROVE  Ok(drv', leg', op) /\ Same(s, drv')
    <3>1. s \in Driver /\ s.work[h] \in Waiting /\ WorkOf(s, leg', op)
      BY <1>4, <1>17 DEF Ok, TgHolds, Driver
    <3>2. PICK row : row = [s.work[h] EXCEPT !.at = "idle", !.todo = answer]
      OBVIOUS
    <3>3. answer \in Seq(Update) /\ \A v \in In(answer) : v = u
      BY <1>12, OneOf
    <3>4. /\ row \in Waiting /\ row.at = "idle" /\ row.of = s.work[h].of /\ row.ref = s.work[h].ref
          /\ row.todo = answer
      BY <3>1, <3>2, <3>3 DEF Waiting
    <3>5. RowFits(s, leg', h, row)
      BY <1>4, <1>12, <3>3, <3>4 DEF RowFits
    <3>6. drv' = [s EXCEPT !.work[h] = row]
      BY <1>4, <2>2, <3>1, <3>2 DEF Driver, Waiting
    <3>. QED  BY <1>1, <1>4, <1>9, <1>17, <3>4, <3>5, <3>6, WorkKeeps
  <2>. QED  BY <1>13, <1>18, <2>1, <2>2 DEF Becomes
<1>20. /\ op' \in [Ops -> Operation] /\ Ok(drv', leg', op') /\ host' = host
       /\ \A q \in Refs : drv'.told[q] = "ended" <=> drv.told[q] = "ended"
       /\ drv'.call.of = 0 <=> drv.call.of = 0
  BY <1>1, <1>7, <1>17, <1>19 DEF Same
<1>21. CASE leg[r] \in TgOurs
  <2>1. leg'[r] \notin TgOurs
    BY <1>10 DEF TgOurs
  <2>. QED  BY <1>5, <1>9, <1>20, <1>21, <2>1, DropStep
<1>22. CASE leg[r] \notin TgOurs
  <2>1. \A q \in Refs : leg'[q] \in TgOurs <=> leg[q] \in TgOurs
    BY <1>9, <1>10, <1>22 DEF TgOurs
  <2>. QED  BY <1>9, <1>20, <2>1, QuietStep
<1>. QED  BY <1>21, <1>22

LEMMA HangupFailsStep ==
  ASSUME TgInv, Up, NEW g \in Ops, HangupFails(g)
  PROVE  TgInv' /\ TgStep
<1>1. Ok(drv, leg, op) /\ leg \in [Refs -> Legs] /\ op \in [Ops -> Operation]
  BY TgNow
<1>2. Hangup(g) \in Owners
  BY DEF Hangup, Owners
<1>3. UNCHANGED <<leg, op, host>> /\ drv' = Throw(drv, Hangup(g))
  BY DEF HangupFails, Becomes
<1>. QED  BY <1>1, <1>2, <1>3, ThrowKeeps, CalmStep

LEMMA HangupDoneStep ==
  ASSUME TgInv, Up, NEW g \in Ops, HangupDone(g)
  PROVE  TgInv' /\ TgStep
<1>1. Ok(drv, leg, op) /\ leg \in [Refs -> Legs] /\ op \in [Ops -> Operation]
  BY TgNow
<1>2. PICK h : h = Hangup(g)
  OBVIOUS
<1>3. h \in Owners /\ h # Chain
  BY <1>2 DEF Hangup, Owners, Chain
<1>4. PICK row : row = Row("done")
  OBVIOUS
<1>5. PICK s : s = [drv EXCEPT !.work[h] = row]
  OBVIOUS
<1>6. row \in Waiting /\ RowFits(drv, leg, h, row)
  BY <1>3, <1>4 DEF Row, Waiting, MaybeRef, In, RowFits
<1>7. Ok(s, leg, op) /\ Same(drv, s)
  BY <1>1, <1>3, <1>5, <1>6, WorkKeeps
<1>8. UNCHANGED <<leg, op, host>> /\ (drv' = s \/ drv' = Fail(s))
  BY <1>2, <1>4, <1>5 DEF HangupDone, Becomes
<1>9. Ok(drv', leg, op) /\ Same(drv, drv')
  BY <1>1, <1>7, <1>8, FailKeeps DEF Same
<1>. QED  BY <1>8, <1>9, CalmStep

-----------------------------------------------------------------------------
(* The host's requests *)

\* An operation goes on.
LEMMA OpMoves ==
  ASSUME NEW l \in [Refs -> Legs], NEW p \in [Ops -> Operation], NEW s, Ok(s, l, p), NEW d \in Ops,
         NEW x \in Operation, p[d].at \notin {"none", "identity"} => x.at \notin {"none", "identity"},
         NEW k, k = [p EXCEPT ![d] = x], OpOf(s, l, k, d)
  PROVE  Ok(s, l, k) /\ k \in [Ops -> Operation]
<1>1. k \in [Ops -> Operation] /\ k[d] = x /\ \A e \in Ops \ {d} : k[e] = p[e]
  OBVIOUS
<1>2. s \in Driver /\ s.call.of \in {0} \cup Ops /\ \A o \in Owners : s.work[o].of \in {0} \cup Ops
  BY DEF Ok, Driver, Reserved, Waiting
<1>3. \A e \in Ops : p[e].at \notin {"none", "identity"} => k[e].at \notin {"none", "identity"}
  BY <1>1
<1>4. PeerOf(s, l, k)
  BY <1>2, <1>3 DEF Ok, TgHolds, PeerOf
<1>5. WorkOf(s, l, k)
  BY <1>2, <1>3 DEF Ok, TgHolds, WorkOf
<1>6. \A e \in Ops : OpOf(s, l, k, e)
  BY <1>1 DEF Ok, TgHolds, OpOf
<1>. QED  BY <1>1, <1>4, <1>5, <1>6 DEF Ok, TgHolds

\* An operation that has nothing reserved and asked goes anywhere.
LEMMA OpRests ==
  ASSUME NEW l \in [Refs -> Legs], NEW p \in [Ops -> Operation], NEW s, Ok(s, l, p), NEW d \in Ops,
         NEW x \in Operation, p[d].at \notin {"none", "identity"} => x.at \notin {"none", "identity"},
         x.at \notin {"setup", "asked", "accepting", "accepted"},
         NEW k, k = [p EXCEPT ![d] = x]
  PROVE  Ok(s, l, k) /\ k \in [Ops -> Operation]
<1>1. k[d] = x
  OBVIOUS
<1>2. OpOf(s, l, k, d)
  BY <1>1 DEF OpOf
<1>. QED  BY <1>2, OpMoves

\* What Goes does to the operation.
LEMMA GoesTo ==
  ASSUME op \in [Ops -> Operation], NEW d \in Ops, NEW s,
         NEW at \in {"identity", "setup", "accepted", "handling", "ending", "over"}, Goes(d, at, s)
  PROVE  /\ drv' = s /\ UNCHANGED host
         /\ \E x \in Operation : x.at = at /\ op' = [op EXCEPT ![d] = x]
                                 /\ (at # "over" => x.ref = op[d].ref)
<1>1. CASE at = "over"
  <2>1. PICK x : x = NoOp(at)
    OBVIOUS
  <2>2. x \in Operation /\ x.at = at
    BY <1>1, <2>1 DEF NoOp, Operation, MaybeRef
  <2>. QED  BY <1>1, <2>1, <2>2 DEF Goes
<1>2. CASE at # "over"
  <2>1. PICK x : x = [op[d] EXCEPT !.at = at]
    OBVIOUS
  <2>2. x \in Operation /\ x.at = at /\ x.ref = op[d].ref
    BY <1>2, <2>1 DEF Operation
  <2>. QED  BY <1>2, <2>1, <2>2 DEF Goes
<1>. QED  BY <1>1, <1>2

\* A step of the driver and of one operation that ends no call.
LEMMA OpStep ==
  ASSUME TgInv, Up, leg' = leg, NEW d \in Ops, NEW s, NEW at \in {"handling", "ending", "over"},
         Goes(d, at, s), Ok(s, leg, op), Same(drv, s)
  PROVE  TgInv' /\ TgStep
<1>1. leg \in [Refs -> Legs] /\ op \in [Ops -> Operation]
  BY TgNow
<1>2. drv' = s /\ host' = host
  BY DEF Goes
<1>3. PICK x \in Operation : x.at = at /\ op' = [op EXCEPT ![d] = x]
  BY <1>1, GoesTo
<1>4. /\ x.at \notin {"none", "identity"} /\ x.at \notin {"setup", "asked", "accepting", "accepted"}
  BY <1>3
<1>5. Ok(s, leg, op') /\ op' \in [Ops -> Operation]
  BY <1>1, <1>3, <1>4, OpRests
<1>. QED  BY <1>1, <1>2, <1>5, QuietStep DEF Same

\* The driver is reserved, for a call still to be placed or for one that was offered.
LEMMA ReserveKeeps ==
  ASSUME NEW l \in [Refs -> Legs], NEW p \in [Ops -> Operation], NEW s, Ok(s, l, p), s.call.of = 0,
         NEW d \in Ops, p[d].at \in {"none", "identity"},
         NEW k \in [Ops -> Operation], \A e \in Ops \ {d} : k[e] = p[e],
         NEW t \in Driver, t.work = s.work, t.told = s.told, t.offers = s.offers \ {t.call.peer},
         t.call.of = d, t.call.queue = <<>>,
         \/ t.call.peer = NoRef /\ k[d].at = "setup"
         \/ t.call.peer \in s.offers /\ k[d].at = "accepting" /\ k[d].ref = t.call.peer
  PROVE  Ok(t, l, k)
<1>1. PICK c : c = t.call
  OBVIOUS
<1>16. PICK x : x = k[d]
  OBVIOUS
<1>17. PICK r : r = t.call.peer
  OBVIOUS
<1>2. d # 0
  BY DEF Ops
<1>3. In(c.queue) = {} /\ c.of = d /\ c.peer = r
  BY <1>1, <1>17 DEF In
<1>4. /\ s \in Driver /\ LegsOf(s, l) /\ PeerOf(s, l, p) /\ OffersOf(s, l) /\ RequestedOf(s, l)
      /\ DiscardedOf(s, l) /\ WorkOf(s, l, p) /\ \A e \in Ops : OpOf(s, l, p, e)
  BY DEF Ok, TgHolds
<1>5. /\ t \in Driver /\ t.call = c /\ t.offers = s.offers \ {r} /\ t.work = s.work /\ t.told = s.told
  BY <1>1, <1>17
<1>6. k[d] = x /\ \A e \in Ops \ {d} : k[e] = p[e]
  BY <1>16
<1>7. x.at \notin {"none", "identity"}
  BY <1>16
<1>18. \/ r = NoRef /\ x.at = "setup"
       \/ r \in s.offers /\ x.at = "accepting" /\ x.ref = r
  BY <1>16, <1>17
<1>8. \A q \in Refs : l[q] \notin TgOurs
  BY <1>4 DEF LegsOf
<1>9. r # NoRef => r \in s.offers /\ r \in Refs /\ l[r] \in {"offered", "gone"} /\ s.told[r] # "ended"
  BY <1>4, <1>18 DEF OffersOf, Driver
<1>10. LegsOf(t, l) /\ OffersOf(t, l)
  BY <1>4, <1>5, <1>8 DEF LegsOf, OffersOf
<1>11. PeerOf(t, l, k)
  BY <1>2, <1>3, <1>5, <1>6, <1>7, <1>9 DEF PeerOf
<1>12. RequestedOf(t, l)
  <2>1. \A u \in In(s.work[Chain].todo) : u \in Update
    <3>1. s.work[Chain].todo \in Seq(Update)
      BY <1>4 DEF Driver, Waiting, Owners
    <3>. QED  BY <3>1 DEF In
  <2>2. \A u \in In(s.work[Chain].todo) : u.kind = "requested" => c.peer # u.ref
    BY <1>3, <1>4, <1>9, <2>1, RefsAssumption DEF RequestedOf, Update
  <2>. QED  BY <1>3, <1>4, <1>5, <2>2 DEF RequestedOf
<1>13. DiscardedOf(t, l)
  BY <1>3, <1>4, <1>5 DEF DiscardedOf
<1>14. WorkOf(t, l, k)
  <2>1. \A o \in Owners : s.work[o].of \in {0} \cup Ops
    BY <1>4 DEF Driver, Waiting
  <2>2. \A o \in Owners : s.work[o].of # 0 =>
          s.work[o].of # d /\ k[s.work[o].of].at \notin {"none", "identity"}
    BY <1>4, <1>6, <2>1 DEF WorkOf
  <2>3. \A o \in Owners : s.work[o].at # "closing"
    BY <1>4 DEF WorkOf
  <2>. QED  BY <1>3, <1>4, <1>5, <2>2, <2>3 DEF WorkOf
<1>15. ASSUME NEW e \in Ops
       PROVE  OpOf(t, l, k, e)
  <2>1. CASE e = d
    <3>1. k[e] = x
      BY <1>6, <2>1
    <3>2. CASE r = NoRef /\ x.at = "setup"
      BY <1>3, <1>5, <1>8, <2>1, <3>1, <3>2 DEF OpOf
    <3>3. CASE r \in s.offers /\ x.at = "accepting" /\ x.ref = r
      BY <1>3, <1>4, <1>5, <1>9, <2>1, <3>1, <3>3, RefsAssumption DEF OpOf, Driver
    <3>. QED  BY <1>18, <3>2, <3>3
  <2>2. CASE e # d
    <3>1. OpOf(s, l, p, e) /\ k[e] = p[e] /\ e # 0
      BY <1>4, <1>6, <2>2 DEF Ops
    <3>. QED  BY <3>1 DEF OpOf
  <2>. QED  BY <2>1, <2>2
<1>. QED  BY <1>10, <1>11, <1>12, <1>13, <1>14, <1>15 DEF Ok, TgHolds

LEMMA ReservationIs ==
  ASSUME NEW d \in Ops, NEW r \in MaybeRef
  PROVE  /\ Reservation(d, r, TRUE) \in Reserved /\ Reservation(d, r, FALSE) \in Reserved
         /\ Reservation(d, r, TRUE).of = d /\ Reservation(d, r, FALSE).of = d
         /\ Reservation(d, r, TRUE).peer = r /\ Reservation(d, r, FALSE).peer = r
         /\ Reservation(d, r, TRUE).queue = <<>> /\ Reservation(d, r, FALSE).queue = <<>>
<1>1. <<>> \in Seq(Update)
  OBVIOUS
<1>. QED  BY <1>1 DEF Reservation, Reserved

LEMMA ReserveStep ==
  ASSUME TgInv, Up, leg' = leg, host' = host, op' \in [Ops -> Operation], Ok(drv', leg, op'),
         drv.call.of = 0, drv'.call.of # 0, drv'.told = drv.told
  PROVE  TgInv' /\ TgStep
<1>1. TgAlive' = TgAlive /\ TgOver' = TgOver /\ TgFree /\ TgFree' = FALSE
  BY DEF TgAlive, TgOver, TgFree
<1>2. TgContract!Reserve
  BY <1>1 DEF TgContract!Reserve, TgAlive, TgOver, TgFree
<1>3. TgInv'
  BY TgNow, TgPrime DEF Up
<1>. QED  BY <1>2, <1>3 DEF TgStep, TgContract!Next

LEMMA DialAskedStep ==
  ASSUME TgInv, Up, NEW d \in Ops, DialAsked(d)
  PROVE  TgInv' /\ TgStep
<1>1. Ok(drv, leg, op) /\ leg \in [Refs -> Legs] /\ op \in [Ops -> Operation]
  BY TgNow
<1>2. op[d].at = "none" /\ leg' = leg /\ Goes(d, "identity", drv)
  BY DEF DialAsked, Fresh
<1>3. PICK x \in Operation : x.at = "identity" /\ op' = [op EXCEPT ![d] = x]
  BY <1>1, <1>2, GoesTo
<1>4. drv' = drv /\ host' = host
  BY <1>2 DEF Goes
<1>5. Ok(drv, leg, op') /\ op' \in [Ops -> Operation]
  BY <1>1, <1>2, <1>3, OpRests
<1>. QED  BY <1>1, <1>2, <1>4, <1>5, QuietStep

LEMMA DialReservesStep ==
  ASSUME TgInv, Up, NEW d \in Ops, DialReserves(d)
  PROVE  TgInv' /\ TgStep
<1>1. Ok(drv, leg, op) /\ drv \in Driver /\ leg \in [Refs -> Legs] /\ op \in [Ops -> Operation]
  BY TgNow
<1>2. op[d].at = "identity" /\ leg' = leg
  BY DEF DialReserves
<1>3. CASE Goes(d, "over", drv)
  BY <1>1, <1>2, <1>3, OpStep DEF Same
<1>4. CASE drv.call.of = 0 /\ Goes(d, "setup", [drv EXCEPT !.call = Reservation(d, NoRef, FALSE)])
  <2>1. PICK c : c = Reservation(d, NoRef, FALSE)
    OBVIOUS
  <2>2. NoRef \in MaybeRef
    BY DEF MaybeRef
  <2>3. c \in Reserved /\ c.of = d /\ c.peer = NoRef /\ c.queue = <<>>
    BY <2>1, <2>2, ReservationIs
  <2>4. PICK x \in Operation : x.at = "setup" /\ op' = [op EXCEPT ![d] = x]
    BY <1>1, <1>4, GoesTo
  <2>5. op' \in [Ops -> Operation] /\ op'[d].at = "setup" /\ \A e \in Ops \ {d} : op'[e] = op[e]
    BY <1>1, <2>4
  <2>6. drv' = [drv EXCEPT !.call = c] /\ host' = host
    BY <1>4, <2>1 DEF Goes
  <2>7. /\ drv' \in Driver /\ drv'.call = c /\ drv'.work = drv.work /\ drv'.told = drv.told
        /\ drv'.offers = drv.offers \ {NoRef}
    BY <1>1, <2>3, <2>6, RefsAssumption DEF Driver
  <2>8. Ok(drv', leg, op')
    BY <1>1, <1>2, <1>4, <2>3, <2>5, <2>7, ReserveKeeps
  <2>9. drv'.call.of # 0
    BY <2>3, <2>7 DEF Ops
  <2>. QED  BY <1>2, <1>4, <2>5, <2>6, <2>7, <2>8, <2>9, ReserveStep
<1>. QED  BY <1>3, <1>4 DEF DialReserves

LEMMA AcceptAskedStep ==
  ASSUME TgInv, Up, NEW d \in Ops, NEW r \in Refs, AcceptAsked(d, r)
  PROVE  TgInv' /\ TgStep
<1>1. Ok(drv, leg, op) /\ drv \in Driver /\ leg \in [Refs -> Legs] /\ op \in [Ops -> Operation]
  BY TgNow
<1>2. op[d].at = "none" /\ drv.call.of = 0 /\ r \in drv.offers /\ UNCHANGED <<leg, host>>
  BY DEF AcceptAsked, Fresh
<1>3. PICK x : x = [op[d] EXCEPT !.at = "accepting", !.ref = r]
  OBVIOUS
<1>4. x \in Operation /\ x.at = "accepting" /\ x.ref = r
  BY <1>1, <1>3 DEF Operation, MaybeRef
<1>5. op' = [op EXCEPT ![d] = x]
  BY <1>1, <1>3 DEF AcceptAsked, Operation
<1>6. /\ op' \in [Ops -> Operation] /\ op'[d].at = "accepting" /\ op'[d].ref = r
      /\ \A e \in Ops \ {d} : op'[e] = op[e]
  BY <1>1, <1>4, <1>5
<1>7. PICK c : c = Reservation(d, r, TRUE)
  OBVIOUS
<1>8. r \in MaybeRef
  BY DEF MaybeRef
<1>9. c \in Reserved /\ c.of = d /\ c.peer = r /\ c.queue = <<>>
  BY <1>7, <1>8, ReservationIs
<1>10. drv' = [drv EXCEPT !.call = c, !.offers = drv.offers \ {r}]
  BY <1>1, <1>7 DEF AcceptAsked, Driver
<1>11. /\ drv' \in Driver /\ drv'.call = c /\ drv'.work = drv.work /\ drv'.told = drv.told
       /\ drv'.offers = drv.offers \ {r}
  BY <1>1, <1>9, <1>10 DEF Driver
<1>12. Ok(drv', leg, op')
  BY <1>1, <1>2, <1>6, <1>9, <1>11, ReserveKeeps
<1>13. drv'.call.of # 0
  BY <1>9, <1>11 DEF Ops
<1>. QED  BY <1>2, <1>6, <1>11, <1>12, <1>13, ReserveStep

\* The one leg of ours is placed.
LEMMA PlaceKeeps ==
  ASSUME NEW l \in [Refs -> Legs], NEW p \in [Ops -> Operation], NEW s, Ok(s, l, p), s.call.of # 0,
         NEW r \in Refs, l[r] \in {"none", "offered"},
         l[r] = "none" => s.call.peer = NoRef, l[r] = "offered" => s.call.peer = r,
         \A q \in Refs : l[q] \notin TgOurs,
         NEW k \in [Refs -> Legs], k[r] \in TgOurs, \A q \in Refs \ {r} : k[q] = l[q],
         NEW m \in [Ops -> Operation],
         \A d \in Ops : p[d].at \notin {"none", "identity"} => m[d].at \notin {"none", "identity"},
         \A d \in Ops : OpOf(s, k, m, d)
  PROVE  Ok(s, k, m)
<1>1. /\ s \in Driver /\ LegsOf(s, l) /\ PeerOf(s, l, p) /\ OffersOf(s, l) /\ RequestedOf(s, l)
      /\ DiscardedOf(s, l) /\ WorkOf(s, l, p)
  BY DEF Ok, TgHolds
<1>2. k[r] # "none" /\ s.told[r] # "ended" /\ r \notin s.offers
  BY <1>1, RefsAssumption DEF LegsOf, PeerOf, OffersOf, TgOurs
<1>3. LegsOf(s, k) /\ OffersOf(s, k)
  BY <1>1, <1>2 DEF LegsOf, OffersOf, Driver
<1>4. PeerOf(s, k, m)
  <2>1. s.call.of \in Ops /\ s.call.peer \in MaybeRef
    BY <1>1 DEF Driver, Reserved
  <2>. QED  BY <1>1, <1>2, <2>1 DEF PeerOf, MaybeRef
<1>5. ASSUME NEW q \in Seq(Update)
      PROVE  In(q) \subseteq Update
  BY <1>5 DEF In
<1>6. \A o \in Owners : In(s.work[o].todo) \subseteq Update
  <2>1. \A o \in Owners : s.work[o].todo \in Seq(Update)
    BY <1>1 DEF Driver, Waiting
  <2>. QED  BY <1>5, <2>1
<1>7. In(s.call.queue) \subseteq Update
  <2>1. s.call.queue \in Seq(Update)
    BY <1>1 DEF Driver, Reserved
  <2>. QED  BY <1>5, <2>1
<1>8. \A u \in Update : u.ref \in Refs
  BY DEF Update
<1>9. RequestedOf(s, k)
  <2>1. \A u \in In(s.work[Chain].todo) : u.kind = "requested" => u.ref # r
    BY <1>1 DEF RequestedOf
  <2>2. Chain \in Owners
    BY DEF Owners
  <2>. QED  BY <1>1, <1>6, <1>8, <2>1, <2>2 DEF RequestedOf
<1>10. DiscardedOf(s, k)
  BY <1>1, <1>6, <1>7, <1>8 DEF DiscardedOf
<1>11. WorkOf(s, k, m)
  <2>1. \A o \in Owners : s.work[o].of \in {0} \cup Ops
    BY <1>1 DEF Driver, Waiting
  <2>2. \A o \in Owners : s.work[o].of # 0 => m[s.work[o].of].at \notin {"none", "identity"}
    BY <1>1, <2>1 DEF WorkOf
  <2>3. \A q \in Refs : /\ l[q] \in {"down", "gone"} => k[q] \in {"down", "gone"}
                        /\ l[q] # "none" => k[q] # "none"
    BY <1>2
  <2>. QED  BY <1>1, <2>2, <2>3 DEF WorkOf
<1>. QED  BY <1>1, <1>3, <1>4, <1>9, <1>10, <1>11 DEF Ok, TgHolds

LEMMA PlaceStep ==
  ASSUME TgInv, Up, drv' = drv, leg' \in [Refs -> Legs], op' \in [Ops -> Operation], host' = host,
         Ok(drv, leg', op'), drv.call.of # 0, NEW r \in Refs, leg[r] \in {"none", "offered"},
         leg'[r] \in TgOurs, \A q \in Refs : leg[q] \notin TgOurs, \A q \in Refs \ {r} : leg'[q] = leg[q]
  PROVE  TgInv' /\ TgStep
<1>1. TgAlive = {} /\ TgAlive' = {r}
  BY DEF TgAlive
<1>2. ~TgFree /\ TgFree' = TgFree /\ TgOver' = TgOver
  BY DEF TgFree, TgOver, Up
<1>3. r \notin TgOver
  BY TgNow DEF Ok, TgHolds, LegsOf, TgOver
<1>4. TgContract!Place(r)
  BY <1>1, <1>2, <1>3 DEF TgContract!Place, TgAlive, TgOver, TgFree
<1>5. TgInv'
  BY TgPrime DEF Up
<1>. QED  BY <1>4, <1>5 DEF TgStep, TgContract!Next

LEMMA RequestReachesStep ==
  ASSUME TgInv, Up, NEW d \in Ops, NEW r \in Refs, RequestReaches(d, r)
  PROVE  TgInv' /\ TgStep
<1>1. /\ Ok(drv, leg, op) /\ drv \in Driver /\ leg \in [Refs -> Legs] /\ op \in [Ops -> Operation]
      /\ (\A e \in Ops : OpOf(drv, leg, op, e)) /\ LegsOf(drv, leg)
  BY TgNow DEF Ok, TgHolds
<1>2. /\ op[d].at = "setup" /\ leg[r] = "none" /\ UNCHANGED <<drv, host>>
      /\ leg' = [leg EXCEPT ![r] = "asked"]
  BY DEF RequestReaches
<1>3. drv.call.of = d /\ drv.call.peer = NoRef /\ d # 0 /\ \A q \in Refs : leg[q] \notin TgOurs
  BY <1>1, <1>2 DEF OpOf, Ops
<1>4. PICK x : x = [op[d] EXCEPT !.at = "asked", !.ref = r]
  OBVIOUS
<1>5. x \in Operation /\ x.at = "asked" /\ x.ref = r
  BY <1>1, <1>4 DEF Operation, MaybeRef
<1>6. op' = [op EXCEPT ![d] = x]
  BY <1>1, <1>4 DEF RequestReaches, Operation
<1>7. op' \in [Ops -> Operation] /\ op'[d] = x /\ \A e \in Ops \ {d} : op'[e] = op[e]
  BY <1>1, <1>5, <1>6
<1>8. leg' \in [Refs -> Legs] /\ leg'[r] = "asked" /\ \A q \in Refs \ {r} : leg'[q] = leg[q]
  BY <1>1, <1>2 DEF Legs, TgOurs
<1>9. ASSUME NEW e \in Ops
      PROVE  OpOf(drv, leg', op', e)
  <2>1. CASE e = d
    <3>1. drv.told[r] # "ended"
      BY <1>1, <1>2 DEF LegsOf
    <3>. QED  BY <1>3, <1>5, <1>7, <1>8, <2>1, <3>1 DEF OpOf, TgOurs
  <2>2. CASE e # d
    <3>1. OpOf(drv, leg, op, e) /\ op'[e] = op[e]
      BY <1>1, <1>7, <2>2
    <3>. QED  BY <1>2, <1>3, <1>8, <2>2, <3>1 DEF OpOf
  <2>. QED  BY <2>1, <2>2
<1>10. \A e \in Ops : op[e].at \notin {"none", "identity"} => op'[e].at \notin {"none", "identity"}
  BY <1>5, <1>7
<1>11. leg'[r] \in TgOurs
  BY <1>8 DEF TgOurs
<1>13. /\ drv.call.of # 0 /\ leg[r] \in {"none", "offered"} /\ (leg[r] = "none" => drv.call.peer = NoRef)
       /\ (leg[r] = "offered" => drv.call.peer = r) /\ \A q \in Refs : leg[q] \notin TgOurs
  BY <1>2, <1>3
<1>14. leg' \in [Refs -> Legs] /\ op' \in [Ops -> Operation] /\ \A q \in Refs \ {r} : leg'[q] = leg[q]
  BY <1>7, <1>8
<1>12. Ok(drv, leg', op')
  BY <1>1, <1>9, <1>10, <1>11, <1>13, <1>14, PlaceKeeps
<1>. QED  BY <1>2, <1>3, <1>7, <1>8, <1>11, <1>12, PlaceStep

LEMMA AcceptReachesStep ==
  ASSUME TgInv, Up, NEW d \in Ops, AcceptReaches(d)
  PROVE  TgInv' /\ TgStep
<1>1. /\ Ok(drv, leg, op) /\ drv \in Driver /\ leg \in [Refs -> Legs] /\ op \in [Ops -> Operation]
      /\ (\A e \in Ops : OpOf(drv, leg, op, e)) /\ LegsOf(drv, leg)
  BY TgNow DEF Ok, TgHolds
<1>2. PICK r : r = op[d].ref
  OBVIOUS
<1>3. /\ op[d].at = "accepting" /\ leg[r] = "offered" /\ Goes(d, "accepted", drv)
      /\ leg' = [leg EXCEPT ![r] = "accepted"]
  BY <1>2 DEF AcceptReaches
<1>4. r \in Refs /\ drv.call.of = d /\ drv.call.peer = r /\ d # 0 /\ r # NoRef
  BY <1>1, <1>2, <1>3, RefsAssumption DEF OpOf, Ops
<1>5. \A q \in Refs : leg[q] \notin TgOurs
  BY <1>1, <1>3, <1>4 DEF LegsOf, TgOurs
<1>6. PICK x \in Operation : x.at = "accepted" /\ op' = [op EXCEPT ![d] = x] /\ x.ref = r
  BY <1>1, <1>2, <1>3, GoesTo
<1>7. op' \in [Ops -> Operation] /\ op'[d] = x /\ \A e \in Ops \ {d} : op'[e] = op[e]
  BY <1>1, <1>6
<1>8. leg' \in [Refs -> Legs] /\ leg'[r] = "accepted" /\ \A q \in Refs \ {r} : leg'[q] = leg[q]
  BY <1>1, <1>3, <1>4 DEF Legs, TgOurs
<1>9. ASSUME NEW e \in Ops
      PROVE  OpOf(drv, leg', op', e)
  <2>1. CASE e = d
    BY <1>4, <1>6, <1>7, <2>1 DEF OpOf
  <2>2. CASE e # d
    <3>1. OpOf(drv, leg, op, e) /\ op'[e] = op[e]
      BY <1>1, <1>7, <2>2
    <3>2. op[e].at \notin {"setup", "asked"}
      BY <1>4, <2>2, <3>1 DEF OpOf
    <3>. QED  BY <1>3, <1>4, <1>8, <2>2, <3>1, <3>2 DEF OpOf
  <2>. QED  BY <2>1, <2>2
<1>10. \A e \in Ops : op[e].at \notin {"none", "identity"} => op'[e].at \notin {"none", "identity"}
  BY <1>6, <1>7
<1>11. leg'[r] \in TgOurs
  BY <1>8 DEF TgOurs
<1>12. Ok(drv, leg', op')
  BY <1>1, <1>3, <1>4, <1>5, <1>7, <1>8, <1>9, <1>10, <1>11, PlaceKeeps
<1>13. drv' = drv /\ host' = host
  BY <1>3 DEF Goes
<1>. QED  BY <1>3, <1>4, <1>5, <1>7, <1>8, <1>11, <1>12, <1>13, PlaceStep

\* The reservation learns the call it is of.
LEMMA BindKeeps ==
  ASSUME NEW l \in [Refs -> Legs], NEW p \in [Ops -> Operation], NEW s, Ok(s, l, p),
         NEW d \in Ops, p[d].at = "asked",
         NEW k \in [Ops -> Operation], k[d].at \in {"ending", "handling"}, \A e \in Ops \ {d} : k[e] = p[e],
         NEW c \in Reserved, c.of = d, c.peer = p[d].ref, c.queue = s.call.queue, c.media = s.call.media,
         NEW t, t = [s EXCEPT !.call = c]
  PROVE  Ok(t, l, k) /\ t.told = s.told /\ t.call = c /\ t.work = s.work
<1>1. /\ s \in Driver /\ LegsOf(s, l) /\ PeerOf(s, l, p) /\ OffersOf(s, l) /\ RequestedOf(s, l)
      /\ DiscardedOf(s, l) /\ WorkOf(s, l, p) /\ \A e \in Ops : OpOf(s, l, p, e)
  BY DEF Ok, TgHolds
<1>2. PICK r : r = p[d].ref
  OBVIOUS
<1>3. /\ r \in Refs /\ l[r] \in TgOurs \cup {"down"} /\ s.told[r] # "ended" /\ r # NoRef /\ d # 0
      /\ s.call.of = d /\ s.call.peer = NoRef /\ \A q \in Refs : l[q] \in TgOurs => q = r
  BY <1>1, <1>2, RefsAssumption DEF OpOf, Ops
<1>4. t \in Driver /\ t.call = c /\ t.work = s.work /\ t.told = s.told /\ t.offers = s.offers
  BY <1>1 DEF Driver
<1>5. LegsOf(t, l) /\ OffersOf(t, l)
  BY <1>1, <1>2, <1>3, <1>4 DEF LegsOf, OffersOf
<1>6. PeerOf(t, l, k)
  <2>1. r \notin s.offers /\ l[r] # "none"
    BY <1>1, <1>3 DEF OffersOf, TgOurs
  <2>. QED  BY <1>2, <1>3, <1>4, <2>1 DEF PeerOf
<1>7. RequestedOf(t, l)
  <2>1. \A u \in In(s.work[Chain].todo) : u.kind = "requested" => u.ref # r
    BY <1>1, <1>3 DEF RequestedOf, TgOurs
  <2>. QED  BY <1>1, <1>2, <1>4, <2>1 DEF RequestedOf
<1>8. DiscardedOf(t, l)
  BY <1>1, <1>4 DEF DiscardedOf
<1>9. WorkOf(t, l, k)
  <2>1. \A o \in Owners : s.work[o].of \in {0} \cup Ops
    BY <1>1 DEF Driver, Waiting
  <2>2. \A o \in Owners : s.work[o].of # 0 => s.work[o].of # d /\ k[s.work[o].of].at \notin {"none", "identity"}
    BY <1>1, <1>3, <2>1, RefsAssumption DEF WorkOf
  <2>3. \A o \in Owners : s.work[o].at # "closing"
    BY <1>1, <1>3, <2>2 DEF WorkOf
  <2>. QED  BY <1>1, <1>3, <1>4, <2>2, <2>3 DEF WorkOf
<1>10. ASSUME NEW e \in Ops
       PROVE  OpOf(t, l, k, e)
  <2>1. CASE e = d
    BY <2>1 DEF OpOf
  <2>2. CASE e # d
    <3>1. OpOf(s, l, p, e) /\ k[e] = p[e]
      BY <1>1, <2>2
    <3>. QED  BY <1>3, <1>4, <2>2, <3>1 DEF OpOf
  <2>. QED  BY <2>1, <2>2
<1>. QED  BY <1>4, <1>5, <1>6, <1>7, <1>8, <1>9, <1>10 DEF Ok, TgHolds

LEMMA RequestAnsweredStep ==
  ASSUME TgInv, Up, NEW d \in Ops, RequestAnswered(d)
  PROVE  TgInv' /\ TgStep
<1>1. /\ Ok(drv, leg, op) /\ drv \in Driver /\ leg \in [Refs -> Legs] /\ op \in [Ops -> Operation]
      /\ drv.call \in Reserved
  BY TgNow DEF Driver
<1>2. op[d].at = "asked" /\ leg' = leg
  BY DEF RequestAnswered
<1>3. drv.call.of = d /\ op[d].ref \in Refs
  BY <1>1, <1>2 DEF Ok, TgHolds, OpOf
<1>4. PICK c : c = [drv.call EXCEPT !.peer = op[d].ref]
  OBVIOUS
<1>5. PICK s : s = [drv EXCEPT !.call = c]
  OBVIOUS
<1>6. /\ c \in Reserved /\ c.of = d /\ c.peer = op[d].ref /\ c.queue = drv.call.queue
      /\ c.media = drv.call.media
  BY <1>1, <1>3, <1>4 DEF Reserved, MaybeRef
<1>7. s = [drv EXCEPT !.call.peer = op[d].ref]
  BY <1>1, <1>4, <1>5 DEF Driver
<1>8. PICK o : o = <<"op", d>>
  OBVIOUS
<1>9. o \in Owners /\ o # Chain
  BY <1>8 DEF Owners, Chain
<1>10. \/ Goes(d, "ending", End(s))
       \/ Goes(d, "handling", [s EXCEPT !.call.queue = <<>>, !.work[o].todo = s.call.queue])
  BY <1>7, <1>8 DEF RequestAnswered
<1>11. PICK at \in {"ending", "handling"} : \E t : Goes(d, at, t)
  BY <1>10
<1>12. PICK x \in Operation : x.at = at /\ op' = [op EXCEPT ![d] = x]
  BY <1>1, <1>11, GoesTo
<1>13. op' \in [Ops -> Operation] /\ op'[d].at \in {"ending", "handling"} /\ \A e \in Ops \ {d} : op'[e] = op[e]
  BY <1>1, <1>12
<1>14. Ok(s, leg, op') /\ s.told = drv.told /\ s.call = c /\ s.work = drv.work
  BY <1>1, <1>2, <1>5, <1>6, <1>13, BindKeeps
<1>15. ASSUME Ok(drv', leg, op'), Same(s, drv')
       PROVE  TgInv' /\ TgStep
  <2>1. \A r \in Refs : drv'.told[r] = "ended" <=> drv.told[r] = "ended"
    BY <1>14, <1>15 DEF Same
  <2>2. drv'.call.of = 0 <=> drv.call.of = 0
    BY <1>3, <1>6, <1>14, <1>15 DEF Same
  <2>3. host' = host
    BY <1>10 DEF Goes
  <2>. QED  BY <1>1, <1>2, <1>13, <1>15, <2>1, <2>2, <2>3, QuietStep
<1>16. s.call.peer # NoRef /\ s.call.of # 0
  BY <1>3, <1>6, <1>14, RefsAssumption DEF Ops
<1>17. CASE Goes(d, "ending", End(s))
  <2>1. drv' = End(s)
    BY <1>17 DEF Goes
  <2>. QED  BY <1>1, <1>13, <1>14, <1>15, <1>16, <2>1, EndKeeps
<1>18. CASE Goes(d, "handling", [s EXCEPT !.call.queue = <<>>, !.work[o].todo = s.call.queue])
  <2>1. PICK todo : todo = s.call.queue
    OBVIOUS
  <2>2. s \in Driver /\ s.call \in Reserved /\ s.work[o] \in Waiting
    BY <1>9, <1>14 DEF Ok, Driver
  <2>3. todo \in Seq(Update) /\ \A u \in In(todo) : Harmless(u, leg)
    BY <1>14, <2>1, <2>2 DEF Ok, TgHolds, RequestedOf, DiscardedOf, Harmless, Reserved
  <2>4. PICK n : n = [s EXCEPT !.work[o] = [s.work[o] EXCEPT !.todo = todo]]
    OBVIOUS
  <2>5. Ok(n, leg, op') /\ Same(s, n) /\ n.call = s.call
    BY <1>1, <1>9, <1>13, <1>14, <2>3, <2>4, MoreKeeps
  <2>6. PICK e : e = [n.call EXCEPT !.queue = <<>>]
    OBVIOUS
  <2>7. PICK m : m = [n EXCEPT !.call = e]
    OBVIOUS
  <2>8. /\ e \in Reserved /\ e.of = n.call.of /\ e.peer = n.call.peer /\ e.media = n.call.media
        /\ e.queue = <<>>
    <3>1. n.call \in Reserved /\ <<>> \in Seq(Update)
      BY <2>2, <2>5
    <3>. QED  BY <2>6, <3>1 DEF Reserved
  <2>9. n.call.of # 0 /\ \A u \in In(e.queue) : u \in In(n.call.queue) \/ Harmless(u, leg)
    BY <1>16, <2>5, <2>8 DEF In
  <2>10. Ok(m, leg, op') /\ Same(n, m)
    BY <1>1, <1>13, <2>5, <2>7, <2>8, <2>9, MarkKeeps
  <2>11. drv' = m
    BY <1>9, <1>18, <2>1, <2>2, <2>4, <2>5, <2>6, <2>7 DEF Goes, Driver
  <2>12. Same(s, m)
    BY <1>16, <2>5, <2>10 DEF Same
  <2>. QED  BY <1>15, <2>10, <2>11, <2>12
<1>. QED  BY <1>10, <1>17, <1>18

LEMMA AcceptAnsweredStep ==
  ASSUME TgInv, Up, NEW d \in Ops, AcceptAnswered(d)
  PROVE  TgInv' /\ TgStep
<1>1. Ok(drv, leg, op) /\ drv \in Driver /\ leg \in [Refs -> Legs] /\ op \in [Ops -> Operation]
  BY TgNow
<1>2. PICK r : r = op[d].ref
  OBVIOUS
<1>3. r \in Refs /\ op[d].at = "accepted"
  BY <1>1, <1>2 DEF AcceptAnswered, Ok, TgHolds, OpOf
<1>4. PICK o : o = <<"op", d>>
  OBVIOUS
<1>5. o \in Owners /\ o # Chain
  BY <1>4 DEF Owners, Chain
<1>6. PICK u : u = [kind |-> "call", ref |-> r]
  OBVIOUS
<1>7. CASE Goes(d, "handling", drv) /\ leg' = leg
  BY <1>1, <1>7, OpStep DEF Same
<1>8. CASE /\ leg[r] = "accepted" /\ leg' = [leg EXCEPT ![r] = "up"]
           /\ Goes(d, "handling", [drv EXCEPT !.work[o].todo = <<u>>])
  <2>1. leg[r] \in TgOurs /\ "up" \in TgOurs
    BY <1>8 DEF TgOurs
  <2>2. /\ Ok(drv, leg', op) /\ leg' \in [Refs -> Legs] /\ leg'[r] = "up"
        /\ \A q \in Refs \ {r} : leg'[q] = leg[q]
    BY <1>1, <1>3, <1>8, <2>1, LegMoves
  <2>3. \A q \in Refs : leg'[q] \in TgOurs <=> leg[q] \in TgOurs
    BY <2>1, <2>2
  <2>4. PICK todo : todo = <<u>>
    OBVIOUS
  <2>5. u \in Update /\ Harmless(u, leg')
    BY <1>3, <1>6 DEF Update, Harmless
  <2>6. todo \in Seq(Update) /\ \A v \in In(todo) : Harmless(v, leg')
    BY <2>4, <2>5, OneOf
  <2>7. drv.work[o] \in Waiting
    BY <1>1, <1>5 DEF Driver
  <2>8. drv' = [drv EXCEPT !.work[o] = [drv.work[o] EXCEPT !.todo = todo]]
    BY <1>1, <1>5, <1>8, <2>4 DEF Goes, Driver
  <2>9. Ok(drv', leg', op) /\ Same(drv, drv')
    BY <1>1, <1>5, <2>2, <2>6, <2>8, MoreKeeps
  <2>10. PICK x \in Operation : x.at = "handling" /\ op' = [op EXCEPT ![d] = x]
    BY <1>1, <1>8, GoesTo
  <2>11. Ok(drv', leg', op') /\ op' \in [Ops -> Operation]
    BY <1>1, <2>2, <2>9, <2>10, OpRests
  <2>12. host' = host
    BY <1>8 DEF Goes
  <2>. QED  BY <2>2, <2>3, <2>9, <2>11, <2>12, QuietStep DEF Same
<1>. QED  BY <1>2, <1>4, <1>6, <1>7, <1>8 DEF AcceptAnswered

LEMMA SetupFailsStep ==
  ASSUME TgInv, Up, NEW d \in Ops, SetupFails(d)
  PROVE  TgInv' /\ TgStep
<1>1. Ok(drv, leg, op) /\ leg \in [Refs -> Legs] /\ op \in [Ops -> Operation]
  BY TgNow
<1>2. Ok(Fail(drv), leg, op) /\ Same(drv, Fail(drv))
  BY <1>1, FailKeeps
<1>. QED  BY <1>2, OpStep DEF SetupFails

LEMMA ReturnsStep ==
  ASSUME TgInv, Up, NEW d \in Ops, Returns(d)
  PROVE  TgInv' /\ TgStep
<1>1. Ok(drv, leg, op) /\ leg \in [Refs -> Legs] /\ op \in [Ops -> Operation]
  BY TgNow
<1>2. PICK s : s = IF op[d].at = "ending" THEN Fail(drv) ELSE drv
  OBVIOUS
<1>3. Ok(s, leg, op) /\ Same(drv, s)
  BY <1>1, <1>2, FailKeeps DEF Same
<1>. QED  BY <1>2, <1>3, OpStep DEF Returns

\* What fail() and end() do to the driver as it stands.
LEMMA InterruptKeeps ==
  ASSUME TgInv, Up
  PROVE  /\ Ok(Fail(drv), leg, op) /\ Same(drv, Fail(drv))
         /\ drv.call.peer # NoRef => Ok(End(drv), leg, op) /\ Same(drv, End(drv))
<1>1. Ok(drv, leg, op) /\ leg \in [Refs -> Legs] /\ op \in [Ops -> Operation]
  BY TgNow
<1>. QED  BY <1>1, FailKeeps, EndKeeps

LEMMA EndAskedStep ==
  ASSUME TgInv, Up, EndAsked
  PROVE  TgInv' /\ TgStep
BY InterruptKeeps, CalmStep DEF EndAsked, Becomes

LEMMA CloseAskedStep ==
  ASSUME TgInv, Up, CloseAsked
  PROVE  TgInv' /\ TgStep
BY InterruptKeeps, CalmStep DEF CloseAsked, Becomes

LEMMA AbortAskedStep ==
  ASSUME TgInv, Up, NEW d \in Ops, AbortAsked(d)
  PROVE  TgInv' /\ TgStep
<1>1. Ok(drv, leg, op) /\ leg \in [Refs -> Legs] /\ op \in [Ops -> Operation]
  BY TgNow
<1>2. UNCHANGED <<leg, host>>
  BY DEF AbortAsked
<1>3. drv' = drv \/ drv' = Fail(drv) \/ (drv.call.peer # NoRef /\ drv' = End(drv))
  BY DEF AbortAsked
<1>4. Ok(drv', leg, op) /\ Same(drv, drv')
  BY <1>1, <1>3, InterruptKeeps DEF Same
<1>5. PICK x : x = [op[d] EXCEPT !.aborted = TRUE]
  OBVIOUS
<1>6. op[d] \in Operation
  BY <1>1
<1>7. x \in Operation /\ x.at = op[d].at /\ x.ref = op[d].ref
  BY <1>5, <1>6 DEF Operation
<1>8. op' = [op EXCEPT ![d] = x]
  BY <1>1, <1>5 DEF AbortAsked
<1>9. op'[d] = x
  BY <1>1, <1>8
<1>10. OpOf(drv', leg, op', d)
  BY <1>4, <1>7, <1>9 DEF Ok, TgHolds, OpOf
<1>11. Ok(drv', leg, op') /\ op' \in [Ops -> Operation]
  BY <1>1, <1>4, <1>7, <1>8, <1>10, OpMoves
<1>. QED  BY <1>1, <1>2, <1>4, <1>11, QuietStep DEF Same

LEMMA RejectAskedStep ==
  ASSUME TgInv, Up, NEW r \in Refs, RejectAsked(r)
  PROVE  TgInv' /\ TgStep
<1>1. /\ Ok(drv, leg, op) /\ drv \in Driver /\ leg \in [Refs -> Legs] /\ op \in [Ops -> Operation]
      /\ OffersOf(drv, leg)
  BY TgNow DEF Ok, TgHolds
<1>2. r \in drv.offers /\ leg[r] \in {"offered", "gone"} /\ leg' = [leg EXCEPT ![r] = "gone"]
  BY <1>1 DEF RejectAsked, OffersOf
<1>3. PICK offers : offers = drv.offers \ {r}
  OBVIOUS
<1>4. drv' = [drv EXCEPT !.offers = offers] /\ UNCHANGED <<op, host>>
  BY <1>1, <1>3 DEF RejectAsked, Becomes, Driver
<1>5. /\ Ok(drv, leg', op) /\ leg' \in [Refs -> Legs] /\ leg'[r] = "gone"
      /\ \A q \in Refs \ {r} : leg'[q] = leg[q]
  BY <1>1, <1>2, LegMoves
<1>6. /\ drv' \in Driver /\ drv'.call = drv.call /\ drv'.work = drv.work /\ drv'.told = drv.told
      /\ drv'.offers = drv.offers \ {r}
  BY <1>1, <1>3, <1>4 DEF Driver
<1>7. LegsOf(drv', leg') /\ PeerOf(drv', leg', op) /\ OffersOf(drv', leg') /\ RequestedOf(drv', leg')
  BY <1>5, <1>6 DEF Ok, TgHolds, LegsOf, PeerOf, OffersOf, RequestedOf
<1>8. DiscardedOf(drv', leg') /\ WorkOf(drv', leg', op) /\ \A d \in Ops : OpOf(drv', leg', op, d)
  BY <1>5, <1>6 DEF Ok, TgHolds, DiscardedOf, WorkOf, OpOf
<1>9. Ok(drv', leg', op)
  BY <1>6, <1>7, <1>8 DEF Ok, TgHolds
<1>10. \A q \in Refs : leg'[q] \in TgOurs <=> leg[q] \in TgOurs
  BY <1>2, <1>5 DEF TgOurs
<1>11. op' \in [Ops -> Operation] /\ Ok(drv', leg', op') /\ host' = host
  BY <1>1, <1>4, <1>9
<1>. QED  BY <1>5, <1>6, <1>10, <1>11, QuietStep

\* What is left of a worker that is gone.
LEMMA WorkerGoneStep ==
  ASSUME TgInv, Up, WorkerGone
  PROVE  TgInv' /\ TgStep
<1>1. Ok(drv, leg, op) /\ drv \in Driver /\ leg \in [Refs -> Legs] /\ op \in [Ops -> Operation]
  BY TgNow
<1>2. host' = "gone" /\ leg' = leg /\ ~Up'
  BY DEF WorkerGone, Up
<1>3. NoRef \in MaybeRef /\ <<>> \in Seq(Update)
  BY DEF MaybeRef
<1>4. NoCall \in Reserved
  BY <1>3 DEF NoCall, Reservation, Reserved
<1>5. NoWork \in [Owners -> Waiting]
  <2>1. Row("none") \in Waiting /\ Row("idle") \in Waiting
    BY <1>3 DEF Row, Waiting
  <2>. QED  BY <2>1 DEF NoWork
<1>6. drv' \in Driver /\ drv'.told = drv.told
  BY <1>1, <1>4, <1>5 DEF WorkerGone, Driver
<1>7. op' \in [Ops -> Operation]
  <2>1. NoOp("over") \in Operation
    BY <1>3 DEF NoOp, Operation
  <2>. QED  BY <2>1 DEF WorkerGone
<1>8. TgInv'
  BY <1>1, <1>2, <1>6, <1>7 DEF TgInv, TgTypeOK
<1>9. TgAlive' = TgAlive /\ TgOver' = TgOver /\ TgFree' = FALSE
  BY <1>2, <1>6 DEF TgAlive, TgOver, TgFree
<1>10. CASE TgFree
  <2>1. TgContract!Retire
    BY <1>9, <1>10 DEF TgContract!Retire, TgAlive, TgOver, TgFree
  <2>. QED  BY <1>8, <2>1 DEF TgStep, TgContract!Next
<1>11. CASE ~TgFree
  <2>1. TgFree' = TgFree
    BY <1>9, <1>11 DEF TgFree
  <2>2. UNCHANGED TgContract!vars
    BY <1>9, <2>1 DEF TgContract!vars, TgAlive, TgOver, TgFree
  <2>. QED  BY <1>8, <2>2 DEF TgStep
<1>. QED  BY <1>10, <1>11

-----------------------------------------------------------------------------
(* The platform *)

\* What Platform does.
LEMMA PlatformIs ==
  ASSUME TgInv, Up, NEW r \in Refs, NEW from, NEW to \in Legs,
         NEW kind \in {"requested", "discarded", "waiting", "accepted", "call"}, Platform(r, from, to, kind)
  PROVE  /\ leg[r] \in from /\ leg' \in [Refs -> Legs] /\ leg'[r] = to /\ \A q \in Refs \ {r} : leg'[q] = leg[q]
         /\ leg' = [leg EXCEPT ![r] = to]
         /\ UNCHANGED <<op, host>>
         /\ \E u \in Update : /\ u.kind = kind /\ u.ref = r
              /\ drv' = [drv EXCEPT !.work[Chain] = [drv.work[Chain] EXCEPT !.todo = Append(drv.work[Chain].todo, u)]]
<1>1. drv \in Driver /\ leg \in [Refs -> Legs] /\ Chain \in Owners
  BY TgNow DEF Owners
<1>2. PICK u : u = [kind |-> kind, ref |-> r]
  OBVIOUS
<1>3. u \in Update /\ u.kind = kind /\ u.ref = r
  BY <1>2 DEF Update
<1>4. drv' = [drv EXCEPT !.work[Chain] = [drv.work[Chain] EXCEPT !.todo = Append(drv.work[Chain].todo, u)]]
  BY <1>1, <1>2 DEF Platform, Becomes, Driver
<1>5. leg[r] \in from /\ leg' = [leg EXCEPT ![r] = to] /\ UNCHANGED <<op, host>>
  BY DEF Platform, Becomes
<1>. QED  BY <1>1, <1>3, <1>4, <1>5

\* An update of a call that was known.
LEMMA PlatformStep ==
  ASSUME TgInv, Up, NEW r \in Refs, NEW from, NEW to \in Legs,
         NEW kind \in {"discarded", "waiting", "accepted", "call"}, Platform(r, from, to, kind),
         \/ leg[r] \in TgOurs /\ to = "down"
         \/ leg[r] \in TgOurs /\ to \in TgOurs
         \/ leg[r] = "offered" /\ to = "gone",
         kind = "discarded" => to \in {"down", "gone"}
  PROVE  TgInv' /\ TgStep
<1>1. /\ Ok(drv, leg, op) /\ drv \in Driver /\ leg \in [Refs -> Legs] /\ op \in [Ops -> Operation]
      /\ RequestedOf(drv, leg)
  BY TgNow DEF Ok, TgHolds
<1>2. /\ leg' \in [Refs -> Legs] /\ leg'[r] = to /\ (\A q \in Refs \ {r} : leg'[q] = leg[q])
      /\ leg' = [leg EXCEPT ![r] = to] /\ UNCHANGED <<op, host>>
  BY PlatformIs
<1>3. PICK u \in Update : /\ u.kind = kind /\ u.ref = r
        /\ drv' = [drv EXCEPT !.work[Chain] = [drv.work[Chain] EXCEPT !.todo = Append(drv.work[Chain].todo, u)]]
  BY PlatformIs
<1>4. Ok(drv, leg', op)
  <2>1. \/ leg[r] \in TgOurs /\ to \in TgOurs \cup {"down"}
        \/ leg[r] \in {"offered", "gone"} /\ to = "gone"
        \/ to = leg[r]
    OBVIOUS
  <2>2. leg' = [leg EXCEPT ![r] = to]
    BY <1>2
  <2>. QED  BY <1>1, <2>1, <2>2, LegMoves
<1>5. Harmless(u, leg')
  BY <1>2, <1>3 DEF Harmless
<1>6. Chain \in Owners /\ drv.work[Chain].todo \in Seq(Update)
  BY <1>1 DEF Driver, Waiting, Owners
<1>7. PICK todo : todo = Append(drv.work[Chain].todo, u)
  OBVIOUS
<1>8. /\ todo \in Seq(Update) /\ In(todo) = In(drv.work[Chain].todo) \cup {u}
      /\ Once("requested", todo)
  BY <1>1, <1>3, <1>6, <1>7, AppendOf DEF RequestedOf
<1>9. drv' = [drv EXCEPT !.work[Chain] = [drv.work[Chain] EXCEPT !.todo = todo]]
  BY <1>3, <1>7
<1>10. Ok(drv', leg', op) /\ Same(drv, drv')
  BY <1>1, <1>2, <1>4, <1>5, <1>6, <1>8, <1>9, MoreKeeps
<1>11. op' \in [Ops -> Operation] /\ Ok(drv', leg', op') /\ host' = host
  BY <1>1, <1>2, <1>10
<1>12. CASE leg[r] \in TgOurs /\ to = "down"
  <2>1. leg'[r] \notin TgOurs
    BY <1>2, <1>12 DEF TgOurs
  <2>. QED  BY <1>2, <1>10, <1>11, <1>12, <2>1, DropStep DEF Same
<1>13. CASE (leg[r] \in TgOurs /\ to \in TgOurs) \/ (leg[r] = "offered" /\ to = "gone")
  <2>1. \A q \in Refs : leg'[q] \in TgOurs <=> leg[q] \in TgOurs
    BY <1>2, <1>13 DEF TgOurs
  <2>. QED  BY <1>2, <1>10, <1>11, <2>1, QuietStep DEF Same
<1>. QED  BY <1>12, <1>13

\* A call is offered.
LEMMA OfferedStep ==
  ASSUME TgInv, Up, NEW r \in Refs, Platform(r, {"none"}, "offered", "requested")
  PROVE  TgInv' /\ TgStep
<1>1. /\ Ok(drv, leg, op) /\ drv \in Driver /\ leg \in [Refs -> Legs] /\ op \in [Ops -> Operation]
      /\ LegsOf(drv, leg) /\ PeerOf(drv, leg, op) /\ OffersOf(drv, leg) /\ RequestedOf(drv, leg)
      /\ DiscardedOf(drv, leg) /\ WorkOf(drv, leg, op) /\ \A d \in Ops : OpOf(drv, leg, op, d)
  BY TgNow DEF Ok, TgHolds
<1>2. "offered" \in Legs /\ "offered" \notin TgOurs /\ "none" \notin TgOurs
  BY DEF Legs, TgOurs
<1>3. /\ leg[r] = "none" /\ leg' \in [Refs -> Legs] /\ leg'[r] = "offered"
      /\ (\A q \in Refs \ {r} : leg'[q] = leg[q])
      /\ UNCHANGED <<op, host>>
  BY <1>2, PlatformIs
<1>4. PICK u \in Update : /\ u.kind = "requested" /\ u.ref = r
        /\ drv' = [drv EXCEPT !.work[Chain] = [drv.work[Chain] EXCEPT !.todo = Append(drv.work[Chain].todo, u)]]
  BY <1>2, PlatformIs
<1>5. Chain \in Owners /\ drv.work[Chain] \in Waiting /\ drv.work[Chain].todo \in Seq(Update)
  BY <1>1 DEF Driver, Waiting, Owners
<1>6. PICK todo : todo = Append(drv.work[Chain].todo, u)
  OBVIOUS
<1>7. /\ todo \in Seq(Update) /\ In(todo) = In(drv.work[Chain].todo) \cup {u}
      /\ Once("requested", todo)
  <2>1. u \notin In(drv.work[Chain].todo)
    BY <1>1, <1>3, <1>4 DEF RequestedOf
  <2>. QED  BY <1>1, <1>5, <1>6, <2>1, AppendOf DEF RequestedOf
<1>8. PICK row : row = [drv.work[Chain] EXCEPT !.todo = todo]
  OBVIOUS
<1>9. /\ row \in Waiting /\ row.at = drv.work[Chain].at /\ row.of = drv.work[Chain].of
      /\ row.ref = drv.work[Chain].ref /\ row.todo = todo
  BY <1>5, <1>7, <1>8 DEF Waiting
<1>10. /\ drv' \in Driver /\ drv'.call = drv.call /\ drv'.told = drv.told /\ drv'.offers = drv.offers
       /\ drv'.work = [drv.work EXCEPT ![Chain] = row]
  BY <1>1, <1>4, <1>5, <1>6, <1>8, <1>9 DEF Driver
<1>11. drv'.work[Chain] = row /\ \A o \in Owners \ {Chain} : drv'.work[o] = drv.work[o]
  BY <1>1, <1>5, <1>10 DEF Driver
<1>12. /\ drv.told[r] # "ended" /\ r \notin drv.offers /\ drv.call.peer # r
       /\ drv.call.peer \in MaybeRef
  BY <1>1, <1>3, RefsAssumption DEF LegsOf, OffersOf, PeerOf, Driver, Reserved
<1>13. \A q \in Refs : leg'[q] \in TgOurs <=> leg[q] \in TgOurs
  BY <1>2, <1>3
<1>14. LegsOf(drv', leg') /\ OffersOf(drv', leg') /\ PeerOf(drv', leg', op)
  <2>1. LegsOf(drv', leg')
    BY <1>1, <1>3, <1>10, <1>12, <1>13 DEF LegsOf
  <2>2. OffersOf(drv', leg')
    BY <1>1, <1>3, <1>10, <1>12 DEF OffersOf, Driver
  <2>3. PeerOf(drv', leg', op)
    BY <1>1, <1>3, <1>10, <1>12 DEF PeerOf, MaybeRef
  <2>. QED  BY <2>1, <2>2, <2>3
<1>15. ASSUME NEW q \in Seq(Update)
       PROVE  In(q) \subseteq Update
  BY <1>15 DEF In
<1>16. \A o \in Owners : In(drv.work[o].todo) \subseteq Update
  <2>1. \A o \in Owners : drv.work[o].todo \in Seq(Update)
    BY <1>1 DEF Driver, Waiting
  <2>. QED  BY <1>15, <2>1
<1>17. In(drv.call.queue) \subseteq Update
  <2>1. drv.call.queue \in Seq(Update)
    BY <1>1 DEF Driver, Reserved
  <2>. QED  BY <1>15, <2>1
<1>18. \A v \in Update : v.ref \in Refs
  BY DEF Update
<1>19. \A v \in In(todo) : v = u \/ v \in In(drv.work[Chain].todo)
  BY <1>7
<1>20. RequestedOf(drv', leg')
  <2>1. ASSUME NEW v \in In(todo), v.kind = "requested"
        PROVE  /\ leg'[v.ref] \in {"offered", "gone"} /\ v.ref \notin drv.offers
               /\ drv.call.peer # v.ref /\ drv.told[v.ref] # "ended"
    <3>1. CASE v = u
      BY <1>3, <1>4, <1>12, <3>1
    <3>2. CASE v \in In(drv.work[Chain].todo)
      BY <1>1, <1>3, <1>5, <1>16, <1>18, <2>1, <3>2 DEF RequestedOf
    <3>. QED  BY <1>19, <3>1, <3>2
  <2>. QED  BY <1>1, <1>7, <1>9, <1>10, <1>11, <2>1 DEF RequestedOf
<1>21. DiscardedOf(drv', leg')
  <2>1. \A v \in In(drv.call.queue) : v.kind = "discarded" => leg'[v.ref] \in {"down", "gone"}
    BY <1>1, <1>3, <1>17, <1>18 DEF DiscardedOf
  <2>2. \A o \in Owners : \A v \in In(drv.work[o].todo) : v.kind = "discarded" => leg'[v.ref] \in {"down", "gone"}
    BY <1>1, <1>3, <1>16, <1>18 DEF DiscardedOf
  <2>3. ASSUME NEW o \in Owners, NEW v \in In(drv'.work[o].todo), v.kind = "discarded"
        PROVE  leg'[v.ref] \in {"down", "gone"}
    <3>1. v \in In(drv.work[o].todo)
      BY <1>4, <1>9, <1>11, <1>19, <2>3
    <3>. QED  BY <2>2, <2>3, <3>1
  <2>. QED  BY <1>10, <2>1, <2>3 DEF DiscardedOf
<1>22. WorkOf(drv', leg', op)
  <2>1. \A o \in Owners : /\ drv'.work[o].at = drv.work[o].at /\ drv'.work[o].of = drv.work[o].of
                          /\ drv'.work[o].ref = drv.work[o].ref
    BY <1>9, <1>11
  <2>2. \A q \in Refs : /\ leg[q] \in {"down", "gone"} => leg'[q] \in {"down", "gone"}
                        /\ leg[q] # "none" => leg'[q] # "none"
    BY <1>3
  <2>. QED  BY <1>1, <1>10, <2>1, <2>2 DEF WorkOf
<1>23. ASSUME NEW d \in Ops
       PROVE  OpOf(drv', leg', op, d)
  <2>1. OpOf(drv, leg, op, d)
    BY <1>1
  <2>2. op[d].at \in {"asked", "accepting"} => op[d].ref # r
    BY <1>2, <1>3, <2>1 DEF OpOf
  <2>. QED  BY <1>2, <1>3, <1>10, <1>13, <2>1, <2>2 DEF OpOf
<1>24. Ok(drv', leg', op)
  BY <1>10, <1>14, <1>20, <1>21, <1>22, <1>23 DEF Ok, TgHolds
<1>25. op' \in [Ops -> Operation] /\ Ok(drv', leg', op') /\ host' = host
  BY <1>1, <1>3, <1>24
<1>. QED  BY <1>3, <1>10, <1>13, <1>25, QuietStep

LEMMA PeerActsStep ==
  ASSUME TgInv, Up, NEW r \in Refs, PeerActs(r)
  PROVE  TgInv' /\ TgStep
<1>. USE DEF TgOurs, Legs
<1>1. CASE Platform(r, {"asked"}, "ringing", "waiting")
  BY <1>1, PlatformStep DEF Platform
<1>2. CASE Platform(r, {"asked", "ringing"}, "answered", "accepted")
  BY <1>2, PlatformStep DEF Platform
<1>3. CASE Platform(r, {"none"}, "offered", "requested")
  BY <1>3, OfferedStep
<1>4. CASE Platform(r, {"accepted"}, "up", "call")
  BY <1>4, PlatformStep DEF Platform
<1>5. CASE Platform(r, TgOurs, "down", "discarded")
  BY <1>5, PlatformStep DEF Platform
<1>6. CASE Platform(r, {"offered"}, "gone", "discarded")
  BY <1>6, PlatformStep DEF Platform
<1>. QED  BY <1>1, <1>2, <1>3, <1>4, <1>5, <1>6 DEF PeerActs

-----------------------------------------------------------------------------
LEMMA TgStarts == TgInit => TgInv /\ TgContract!Init
<1> SUFFICES ASSUME TgInit PROVE TgInv /\ TgContract!Init
  OBVIOUS
<1>1. NoRef \in MaybeRef /\ <<>> \in Seq(Update) /\ In(<<>>) = {} /\ Once("requested", <<>>)
  BY DEF MaybeRef, In, Once
<1>2. NoCall \in Reserved /\ NoCall.of = 0 /\ NoCall.peer = NoRef /\ NoCall.queue = <<>>
  BY <1>1 DEF NoCall, Reservation, Reserved
<1>3. /\ NoWork \in [Owners -> Waiting]
      /\ \A o \in Owners : /\ NoWork[o].todo = <<>> /\ NoWork[o].of = 0
                           /\ NoWork[o].at \in {"none", "idle"}
  <2>1. /\ Row("none") \in Waiting /\ Row("idle") \in Waiting
        /\ \A at \in {"none", "idle"} : Row(at).todo = <<>> /\ Row(at).of = 0 /\ Row(at).at = at
    BY <1>1 DEF Row, Waiting
  <2>. QED  BY <2>1 DEF NoWork
<1>4. /\ drv \in Driver /\ drv.call = NoCall /\ drv.offers = {} /\ drv.work = NoWork
      /\ \A r \in Refs : drv.told[r] = "nothing"
  BY <1>2, <1>3 DEF TgInit, Driver
<1>5. /\ leg \in [Refs -> Legs] /\ \A r \in Refs : leg[r] = "none" /\ leg[r] \notin TgOurs
  BY DEF TgInit, Legs, TgOurs
<1>6. op \in [Ops -> Operation] /\ \A d \in Ops : op[d].at = "none"
  <2>1. NoOp("none") \in Operation /\ NoOp("none").at = "none"
    BY <1>1 DEF NoOp, Operation
  <2>. QED  BY <2>1 DEF TgInit
<1>7. host = "up" /\ Chain \in Owners
  BY DEF TgInit, Owners
<1>8. LegsOf(drv, leg) /\ PeerOf(drv, leg, op) /\ OffersOf(drv, leg)
  BY <1>2, <1>4, <1>5 DEF LegsOf, PeerOf, OffersOf
<1>9. RequestedOf(drv, leg) /\ DiscardedOf(drv, leg)
  BY <1>1, <1>2, <1>3, <1>4, <1>7 DEF RequestedOf, DiscardedOf
<1>10. WorkOf(drv, leg, op)
  BY <1>3, <1>4 DEF WorkOf
<1>11. \A d \in Ops : OpOf(drv, leg, op, d)
  BY <1>6 DEF OpOf
<1>12. TgInv
  BY <1>4, <1>5, <1>6, <1>7, <1>8, <1>9, <1>10, <1>11 DEF TgInv, TgTypeOK, TgHolds
<1>13. TgAlive = {} /\ TgOver = {} /\ TgFree = TRUE
  BY <1>2, <1>4, <1>5, <1>7 DEF TgAlive, TgOver, TgFree, Up
<1>14. TgContract!Init
  BY <1>13 DEF TgContract!Init, TgAlive, TgOver, TgFree
<1>. QED  BY <1>12, <1>14

LEMMA TgMoves ==
  ASSUME TgInv, TgNext
  PROVE  TgInv' /\ TgStep
<1>1. ASSUME TgMicrotasks
      PROVE  TgInv' /\ TgStep
  <2>1. ASSUME NEW o \in Owners, HandleCall(o)
        PROVE  TgInv' /\ TgStep
    BY <2>1, HandleCallStep
  <2>2. ASSUME NEW g \in Ops, HangupDone(g)
        PROVE  TgInv' /\ TgStep
    <3>1. Up
      BY <2>2 DEF HangupDone
    <3>. QED  BY <2>2, <3>1, HangupDoneStep
  <2>3. ASSUME NEW g \in Ops, Returns(g)
        PROVE  TgInv' /\ TgStep
    <3>1. Up
      BY <2>3 DEF Returns
    <3>. QED  BY <2>3, <3>1, ReturnsStep
  <2>. QED  BY <1>1, <2>1, <2>2, <2>3 DEF TgMicrotasks
<1>2. ASSUME Up, TgSettles
      PROVE  TgInv' /\ TgStep
  <2>1. CASE StopSettles
    BY <1>2, <2>1, StopSettlesStep
  <2>2. ASSUME NEW o \in Owners, ConfirmSettles(o) \/ KeysSettle(o) \/ ConnectSettles(o)
        PROVE  TgInv' /\ TgStep
    BY <1>2, <2>2, ConfirmSettlesStep, KeysSettleStep, ConnectSettlesStep
  <2>3. ASSUME NEW d \in Ops, HangupReaches(d) \/ HangupFails(d) \/ DialReserves(d) \/ RequestAnswered(d)
        PROVE  TgInv' /\ TgStep
    BY <1>2, <2>3, HangupReachesStep, HangupFailsStep, DialReservesStep, RequestAnsweredStep
  <2>4. ASSUME NEW d \in Ops, AcceptReaches(d) \/ AcceptAnswered(d) \/ SetupFails(d)
        PROVE  TgInv' /\ TgStep
    BY <1>2, <2>4, AcceptReachesStep, AcceptAnsweredStep, SetupFailsStep
  <2>5. ASSUME NEW d \in Ops, NEW r \in Refs, RequestReaches(d, r)
        PROVE  TgInv' /\ TgStep
    BY <1>2, <2>5, RequestReachesStep
  <2>. QED  BY <1>2, <2>1, <2>2, <2>3, <2>4, <2>5 DEF TgSettles
<1>3. ASSUME Up, TgEvents
      PROVE  TgInv' /\ TgStep
  <2>1. CASE MediaConnects \/ MediaFails
    BY <1>3, <2>1, TgMediaStep
  <2>2. CASE EndAsked
    BY <1>3, <2>2, EndAskedStep
  <2>3. CASE CloseAsked
    BY <1>3, <2>3, CloseAskedStep
  <2>4. CASE WorkerGone
    BY <1>3, <2>4, WorkerGoneStep
  <2>5. ASSUME NEW d \in Ops, DialAsked(d) \/ AbortAsked(d)
        PROVE  TgInv' /\ TgStep
    BY <1>3, <2>5, DialAskedStep, AbortAskedStep
  <2>6. ASSUME NEW d \in Ops, NEW r \in Refs, AcceptAsked(d, r)
        PROVE  TgInv' /\ TgStep
    BY <1>3, <2>6, AcceptAskedStep
  <2>7. ASSUME NEW r \in Refs, RejectAsked(r) \/ PeerActs(r)
        PROVE  TgInv' /\ TgStep
    BY <1>3, <2>7, RejectAskedStep, PeerActsStep
  <2>. QED  BY <1>3, <2>1, <2>2, <2>3, <2>4, <2>5, <2>6, <2>7 DEF TgEvents
<1>. QED  BY <1>1, <1>2, <1>3 DEF TgNext, TgProgress, Turn

LEMMA TgKeeps == TgInv /\ [TgNext]_tgVars => TgInv' /\ TgStep
<1>1. ASSUME TgInv, UNCHANGED tgVars
      PROVE  TgInv' /\ TgStep
  <2>1. TgInv'
    BY <1>1 DEF tgVars, TgInv, TgTypeOK, Up, TgHolds, LegsOf, PeerOf, OffersOf, RequestedOf, DiscardedOf, WorkOf, OpOf,
                In, Once
  <2>2. TgAlive' = TgAlive /\ TgOver' = TgOver /\ TgFree' = TgFree
    BY <1>1 DEF tgVars, TgAlive, TgOver, TgFree, Up
  <2>3. UNCHANGED TgContract!vars
    BY <2>2 DEF TgContract!vars, TgAlive, TgOver, TgFree
  <2>. QED  BY <2>1, <2>3 DEF TgStep
<1>. QED  BY <1>1, TgMoves

-----------------------------------------------------------------------------
(* WhatsApp: the inductive invariant *)

Kinds == {"incoming", "dialing", "connected", "sure", "claimed", "unsure"}
WaEvent == [kind : Kinds, ref : Refs]
WaLegs == {"none", "offered", "gone", "down"} \cup WaOurs
WaDriver ==
  [service : {"up", "failed", "closed"}, active : Refs \cup {NoRef}, reserving : BOOLEAN,
   early : Seq(WaEvent), offers : SUBSET Refs,
   told : [Refs -> {"nothing", "progress", "uncertain", "ended"}],
   media : [Refs -> {"none", "off", "token", "upgrade", "open"}],
   ending : SUBSET Refs, terminal : SUBSET Refs, mediaFailed : SUBSET Refs]
WaHttp ==
  [dial : Refs \cup {"idle", "sent"}, deletes : SUBSET Refs, accept : Refs \cup {NoRef}]

WaTypeOK ==
  /\ wa \in WaDriver /\ http \in WaHttp /\ stream \in Seq(WaEvent) /\ wleg \in [Refs -> WaLegs]

\* A leg of ours is the active call's, or that of a dial whose answer is out; `ended` is told
\* only of a call that is down, and a call that is ending has no media.
WaLegsOf(s, h, l) ==
  /\ \A r \in Refs : l[r] \in WaOurs => s.active = r \/ h.dial = r
  /\ \A r \in Refs : s.told[r] = "ended" => r \in s.terminal /\ l[r] \in {"down", "gone"}
  /\ \A r \in s.ending \cup s.terminal : l[r] # "none" /\ s.media[r] \in {"none", "off"}

\* An active call excludes a dial, and its end has not been told.
ActiveOf(s, h, l) ==
  s.active # NoRef =>
    /\ ~s.reserving /\ h.dial = "idle"
    /\ s.told[s.active] # "ended" /\ l[s.active] # "none" /\ s.active \notin s.offers

\* A request that is out keeps the driver reserved, or it serves no more.
RequestsOf(s, h, l) ==
  /\ h.dial # "idle" => s.reserving \/ ~Serving(s)
  /\ h.dial \in Refs =>
       l[h.dial] \notin {"none", "offered", "gone"} /\ h.dial \notin s.ending \cup s.terminal
  /\ h.accept # NoRef => l[h.accept] # "none" /\ (l[h.accept] = "offered" => s.active = h.accept)
  /\ h.deletes \subseteq s.ending

WaOffersOf(s, l) == \A r \in s.offers : l[r] \in {"offered", "gone"} /\ s.told[r] # "ended"

\* What an event says of the end of a call.
IsTrue(e, s, l) ==
  /\ e.kind = "sure" => l[e.ref] \in {"down", "gone"}
  /\ e.kind = "claimed" => l[e.ref] = "down" \/ e.ref \in s.ending

\* An offer is announced once, before anything else is known of it.
EventsOf(s, q, l) ==
  /\ \A e \in In(q) :
       /\ IsTrue(e, s, l)
       /\ e.kind = "incoming" =>
            /\ l[e.ref] \in {"offered", "gone"} /\ e.ref \notin s.offers
            /\ s.active # e.ref /\ s.told[e.ref] # "ended"
  /\ Once("incoming", q)
  /\ \A e \in In(s.early) : IsTrue(e, s, l) /\ e.kind # "incoming"

WaHolds(s, h, q, l) ==
  WaLegsOf(s, h, l) /\ ActiveOf(s, h, l) /\ RequestsOf(s, h, l) /\ WaOffersOf(s, l) /\ EventsOf(s, q, l)

WaInv == WaTypeOK /\ WaHolds(wa, http, stream, wleg)

WaOk(s, h, q, l) == s \in WaDriver /\ WaHolds(s, h, q, l)

\* The same call is active, and the same ends are told; a call that is ending stays without
\* media.
Alike(s, t) ==
  /\ t.active = s.active /\ t.reserving = s.reserving /\ t.early = s.early /\ t.offers = s.offers
  /\ t.ending = s.ending /\ t.terminal = s.terminal
  /\ \A r \in Refs : t.told[r] = "ended" <=> s.told[r] = "ended"
  /\ \A r \in s.ending \cup s.terminal : t.media[r] \in {s.media[r], "off"}
  /\ Serving(t) => Serving(s)

LEMMA AlikeKeeps ==
  ASSUME NEW l \in [Refs -> WaLegs], NEW h \in WaHttp, NEW q \in Seq(WaEvent),
         NEW s, WaOk(s, h, q, l), NEW t \in WaDriver, Alike(s, t)
  PROVE  WaOk(t, h, q, l)
<1>1. /\ s \in WaDriver /\ WaLegsOf(s, h, l) /\ ActiveOf(s, h, l) /\ RequestsOf(s, h, l)
      /\ WaOffersOf(s, l) /\ EventsOf(s, q, l)
  BY DEF WaOk, WaHolds
<1>2. WaLegsOf(t, h, l)
  BY <1>1 DEF WaLegsOf, Alike
<1>3. ActiveOf(t, h, l)
  BY <1>1 DEF ActiveOf, Alike, WaDriver
<1>4. RequestsOf(t, h, l)
  BY <1>1 DEF RequestsOf, Alike
<1>5. WaOffersOf(t, l)
  BY <1>1 DEF WaOffersOf, Alike, WaDriver
<1>6. EventsOf(t, q, l)
  <2>1. \A e \in In(q) : e.ref \in Refs
    <3>1. In(q) \subseteq WaEvent
      BY InOf
    <3>. QED  BY <3>1 DEF WaEvent
  <2>2. \A e : IsTrue(e, s, l) => IsTrue(e, t, l)
    BY DEF IsTrue, Alike
  <2>. QED  BY <1>1, <2>1, <2>2 DEF EventsOf, Alike
<1>. QED  BY <1>2, <1>3, <1>4, <1>5, <1>6 DEF WaOk, WaHolds

-----------------------------------------------------------------------------
(* The driver's helpers *)

\* All but what is told and the media.
Rest(s, t) ==
  /\ t.service = s.service /\ t.active = s.active /\ t.reserving = s.reserving /\ t.early = s.early
  /\ t.offers = s.offers /\ t.ending = s.ending /\ t.terminal = s.terminal
  /\ t.mediaFailed = s.mediaFailed

LEMMA TellIs ==
  ASSUME NEW s \in WaDriver, NEW r \in Refs \cup {NoRef}, NEW what
  PROVE  LET t == Tell(s, r, what) IN
         /\ t \in WaDriver /\ Rest(s, t) /\ t.media = s.media
         /\ \A q \in Refs : q # r => t.told[q] = s.told[q]
         /\ r # NoRef => (t.told[r] = "ended" <=> what = "ended")
<1>1. CASE r = NoRef
  BY <1>1, RefsAssumption DEF Tell, Rest
<1>2. CASE r # NoRef
  <2>1. PICK w \in {"uncertain", "progress", "ended"} :
          /\ Tell(s, r, what) = [s EXCEPT !.told[r] = w]
          /\ w = "ended" <=> what = "ended"
    BY <1>2 DEF Tell
  <2>2. PICK t : t = [s EXCEPT !.told[r] = w]
    OBVIOUS
  <2>3. /\ t \in WaDriver /\ Rest(s, t) /\ t.media = s.media /\ t.told = [s.told EXCEPT ![r] = w]
    BY <1>2, <2>2 DEF WaDriver, Rest
  <2>4. s.told \in [Refs -> {"nothing", "progress", "uncertain", "ended"}]
    BY DEF WaDriver
  <2>. QED  BY <1>2, <2>1, <2>2, <2>3, <2>4
<1>. QED  BY <1>1, <1>2

LEMMA MediaOffIs ==
  ASSUME NEW s \in WaDriver, NEW r \in Refs \cup {NoRef}
  PROVE  LET t == MediaOff(s, r) IN
         /\ t \in WaDriver /\ Rest(s, t) /\ t.told = s.told
         /\ \A q \in Refs : t.media[q] \in {s.media[q], "off"}
         /\ r # NoRef => t.media[r] \in {"none", "off"}
<1>1. CASE r = NoRef \/ s.media[r] = "none"
  BY <1>1, RefsAssumption DEF MediaOff, Rest
<1>2. CASE ~(r = NoRef \/ s.media[r] = "none")
  <2>1. PICK t : t = [s EXCEPT !.media[r] = "off"]
    OBVIOUS
  <2>2. t = MediaOff(s, r)
    BY <1>2, <2>1 DEF MediaOff
  <2>3. /\ t \in WaDriver /\ Rest(s, t) /\ t.told = s.told /\ t.media = [s.media EXCEPT ![r] = "off"]
    BY <1>2, <2>1 DEF WaDriver, Rest
  <2>4. s.media \in [Refs -> {"none", "off", "token", "upgrade", "open"}]
    BY DEF WaDriver
  <2>. QED  BY <1>2, <2>2, <2>3, <2>4
<1>. QED  BY <1>1, <1>2

LEMMA FaultIs ==
  ASSUME NEW s \in WaDriver, s.active # NoRef => s.told[s.active] # "ended"
  PROVE  LET t == Fault(s) IN t \in WaDriver /\ Alike(s, t) /\ ~Serving(t)
<1>1. CASE ~Serving(s)
  BY <1>1 DEF Fault, Alike
<1>2. CASE Serving(s)
  <2>1. PICK f : f = [s EXCEPT !.service = "failed"]
    OBVIOUS
  <2>2. /\ f \in WaDriver /\ f.service = "failed" /\ f.active = s.active /\ f.reserving = s.reserving
        /\ f.early = s.early /\ f.offers = s.offers /\ f.ending = s.ending
        /\ f.terminal = s.terminal /\ f.mediaFailed = s.mediaFailed /\ f.told = s.told /\ f.media = s.media
    BY <2>1 DEF WaDriver
  <2>3. PICK m : m = MediaOff(f, s.active)
    OBVIOUS
  <2>4. s.active \in Refs \cup {NoRef}
    BY DEF WaDriver
  <2>5. /\ m \in WaDriver /\ Rest(f, m) /\ m.told = f.told
        /\ \A q \in Refs : m.media[q] \in {f.media[q], "off"}
    BY <2>2, <2>3, <2>4, MediaOffIs
  <2>6. PICK t : t = Tell(m, s.active, "uncertain")
    OBVIOUS
  <2>7. /\ t \in WaDriver /\ Rest(m, t) /\ t.media = m.media
        /\ \A q \in Refs : q # s.active => t.told[q] = m.told[q]
        /\ s.active # NoRef => t.told[s.active] # "ended"
    BY <2>4, <2>5, <2>6, TellIs
  <2>8. t = Fault(s)
    BY <1>2, <2>1, <2>3, <2>6 DEF Fault
  <2>9. Alike(s, t) /\ ~Serving(t)
    <3>1. t.service = "failed"
      BY <2>2, <2>5, <2>7 DEF Rest
    <3>2. \A r \in Refs : t.told[r] = "ended" <=> s.told[r] = "ended"
      BY <2>2, <2>4, <2>5, <2>7, RefsAssumption
    <3>3. s.ending \cup s.terminal \subseteq Refs
      BY DEF WaDriver
    <3>. QED  BY <2>2, <2>5, <2>7, <3>1, <3>2, <3>3 DEF Alike, Rest, Serving
  <2>. QED  BY <2>7, <2>8, <2>9
<1>. QED  BY <1>1, <1>2

LEMMA FailMediaIs ==
  ASSUME NEW s \in WaDriver, s.active # NoRef => s.told[s.active] # "ended", NEW r \in Refs
  PROVE  LET t == FailMedia(s, r) IN t \in WaDriver /\ Alike(s, t)
<1>1. CASE ~Serving(s) \/ s.active # r \/ r \in s.ending \cup s.terminal \cup s.mediaFailed
  BY <1>1 DEF FailMedia, Alike
<1>2. CASE ~(~Serving(s) \/ s.active # r \/ r \in s.ending \cup s.terminal \cup s.mediaFailed)
  <2>1. PICK f : f = [s EXCEPT !.mediaFailed = @ \cup {r}]
    OBVIOUS
  <2>2. /\ f \in WaDriver /\ f.service = s.service /\ f.active = s.active /\ f.reserving = s.reserving
        /\ f.early = s.early /\ f.offers = s.offers /\ f.ending = s.ending
        /\ f.terminal = s.terminal /\ f.told = s.told /\ f.media = s.media
    BY <2>1 DEF WaDriver
  <2>3. PICK m : m = MediaOff(f, r)
    OBVIOUS
  <2>5. /\ m \in WaDriver /\ Rest(f, m) /\ m.told = f.told
        /\ \A q \in Refs : m.media[q] \in {f.media[q], "off"}
    BY <2>2, <2>3, MediaOffIs
  <2>6. PICK t : t = Tell(m, r, "uncertain")
    OBVIOUS
  <2>7. /\ t \in WaDriver /\ Rest(m, t) /\ t.media = m.media
        /\ \A q \in Refs : q # r => t.told[q] = m.told[q]
        /\ t.told[r] # "ended"
    BY <2>5, <2>6, TellIs, RefsAssumption
  <2>8. t = FailMedia(s, r)
    BY <1>2, <2>1, <2>3, <2>6 DEF FailMedia
  <2>9. Alike(s, t)
    <3>1. s.told[r] # "ended"
      BY <1>2, RefsAssumption
    <3>2. \A c \in Refs : t.told[c] = "ended" <=> s.told[c] = "ended"
      BY <2>2, <2>5, <2>7, <3>1
    <3>3. s.ending \cup s.terminal \subseteq Refs
      BY DEF WaDriver
    <3>. QED  BY <2>2, <2>5, <2>7, <3>2, <3>3 DEF Alike, Rest, Serving
  <2>. QED  BY <2>7, <2>8, <2>9
<1>. QED  BY <1>1, <1>2

-----------------------------------------------------------------------------
(* An event *)

\* What is known of an offer that is announced.
NewOffer(e, s, q, l) ==
  /\ l[e.ref] \in {"offered", "gone"} /\ e.ref \notin s.offers
  /\ s.active # e.ref /\ s.told[e.ref] # "ended" /\ e \notin In(q)

\* What an event does: at most it ends the active call, which is down.
Outcome(s, t, l) ==
  /\ t.reserving = s.reserving /\ t.ending = s.ending /\ (Serving(t) => Serving(s))
  /\ \/ /\ t.active = s.active
        /\ \A r \in Refs : t.told[r] = "ended" <=> s.told[r] = "ended"
     \/ /\ s.active # NoRef /\ t.active = NoRef /\ l[s.active] \in {"down", "gone"}
        /\ \A r \in Refs : t.told[r] = "ended" <=> r = s.active \/ s.told[r] = "ended"

LEMMA AlikeOutcome ==
  ASSUME NEW s, NEW t, Alike(s, t), NEW l
  PROVE  Outcome(s, t, l)
BY DEF Alike, Outcome

LEMMA ActiveIs ==
  ASSUME NEW l \in [Refs -> WaLegs], NEW h \in WaHttp, NEW q \in Seq(WaEvent), NEW s, WaOk(s, h, q, l)
  PROVE  /\ s \in WaDriver /\ s.active \in Refs \cup {NoRef}
         /\ s.active # NoRef => s.active \in Refs /\ s.told[s.active] # "ended" /\ h.dial = "idle"
                                /\ s.active \notin s.offers /\ ~s.reserving
BY DEF WaOk, WaHolds, ActiveOf, WaDriver

LEMMA FaultKeeps ==
  ASSUME NEW l \in [Refs -> WaLegs], NEW h \in WaHttp, NEW q \in Seq(WaEvent), NEW s, WaOk(s, h, q, l)
  PROVE  WaOk(Fault(s), h, q, l) /\ Outcome(s, Fault(s), l) /\ ~Serving(Fault(s)) /\ Alike(s, Fault(s))
<1>1. PICK t : t = Fault(s)
  OBVIOUS
<1>2. t \in WaDriver /\ Alike(s, t) /\ ~Serving(t)
  BY <1>1, ActiveIs, FaultIs
<1>3. WaOk(t, h, q, l) /\ Outcome(s, t, l)
  BY <1>2, AlikeKeeps, AlikeOutcome
<1>. QED  BY <1>1, <1>2, <1>3

LEMMA OfferedKeeps ==
  ASSUME NEW l \in [Refs -> WaLegs], NEW h \in WaHttp, NEW q \in Seq(WaEvent), NEW s, WaOk(s, h, q, l),
         NEW e \in WaEvent, e.kind = "incoming", NewOffer(e, s, q, l)
  PROVE  WaOk(Offered(s, e.ref), h, q, l) /\ Outcome(s, Offered(s, e.ref), l)
<1>1. CASE Cardinality(s.offers) >= OfferLimit
  BY <1>1, FaultKeeps DEF Offered, NewOffer
<1>2. CASE ~(Cardinality(s.offers) >= OfferLimit)
  <2>1. PICK r \in Refs : r = e.ref
    BY DEF WaEvent
  <2>2. PICK f : f = [s EXCEPT !.offers = @ \cup {r}]
    OBVIOUS
  <2>3. PICK t : t = Tell(f, r, "incoming")
    OBVIOUS
  <2>4. t = Offered(s, e.ref)
    BY <1>2, <2>1, <2>2, <2>3 DEF Offered, NewOffer
  <2>5. s \in WaDriver
    BY DEF WaOk
  <2>6. /\ f \in WaDriver /\ f.service = s.service /\ f.active = s.active /\ f.reserving = s.reserving
        /\ f.early = s.early /\ f.offers = s.offers \cup {r} /\ f.ending = s.ending
        /\ f.terminal = s.terminal /\ f.told = s.told /\ f.media = s.media
    BY <2>2, <2>5 DEF WaDriver
  <2>7. /\ t \in WaDriver /\ Rest(f, t) /\ t.media = f.media
        /\ \A c \in Refs : c # r => t.told[c] = f.told[c]
        /\ t.told[r] # "ended"
    BY <2>3, <2>6, TellIs, RefsAssumption
  <2>8. /\ t.service = s.service /\ t.active = s.active /\ t.reserving = s.reserving
        /\ t.early = s.early /\ t.offers = s.offers \cup {r} /\ t.ending = s.ending
        /\ t.terminal = s.terminal /\ t.media = s.media
    BY <2>6, <2>7 DEF Rest
  <2>9. \A c \in Refs : t.told[c] = "ended" <=> s.told[c] = "ended"
    BY <2>1, <2>6, <2>7 DEF NewOffer
  <2>10. /\ WaLegsOf(s, h, l) /\ ActiveOf(s, h, l) /\ RequestsOf(s, h, l)
         /\ WaOffersOf(s, l) /\ EventsOf(s, q, l)
    BY DEF WaOk, WaHolds
  <2>11. WaLegsOf(t, h, l)
    BY <2>8, <2>9, <2>10 DEF WaLegsOf
  <2>12. ActiveOf(t, h, l)
    BY <2>1, <2>5, <2>8, <2>9, <2>10 DEF ActiveOf, WaDriver, NewOffer
  <2>13. RequestsOf(t, h, l)
    BY <2>8, <2>10 DEF RequestsOf, Serving
  <2>14. WaOffersOf(t, l)
    <3>1. s.offers \subseteq Refs
      BY <2>5 DEF WaDriver
    <3>. QED  BY <2>1, <2>7, <2>8, <2>9, <2>10, <3>1 DEF WaOffersOf, NewOffer
  <2>15. EventsOf(t, q, l)
    <3>1. In(q) \subseteq WaEvent
      BY InOf
    <3>2. ASSUME NEW f1 \in In(q), f1.kind = "incoming"
          PROVE  f1.ref # r
      <4>1. f1 = e => FALSE
        BY <3>2 DEF NewOffer
      <4>. QED  BY <2>1, <3>1, <3>2, <4>1 DEF WaEvent
    <3>3. \A e1 : IsTrue(e1, s, l) => IsTrue(e1, t, l)
      BY <2>8 DEF IsTrue
    <3>4. \A e1 \in In(q) : e1.ref \in Refs
      BY <3>1 DEF WaEvent
    <3>. QED  BY <2>8, <2>9, <2>10, <3>2, <3>3, <3>4 DEF EventsOf
  <2>16. Outcome(s, t, l)
    BY <2>8, <2>9 DEF Outcome, Serving
  <2>. QED  BY <2>4, <2>7, <2>11, <2>12, <2>13, <2>14, <2>15, <2>16 DEF WaOk, WaHolds
<1>. QED  BY <1>1, <1>2

LEMMA EarlyKeeps ==
  ASSUME NEW l \in [Refs -> WaLegs], NEW h \in WaHttp, NEW q \in Seq(WaEvent), NEW s, WaOk(s, h, q, l),
         NEW e \in WaEvent, e.kind # "incoming", IsTrue(e, s, l)
  PROVE  WaOk(Early(s, e), h, q, l) /\ Outcome(s, Early(s, e), l)
<1>1. CASE Len(s.early) >= EarlyLimit
  BY <1>1, FaultKeeps DEF Early
<1>2. CASE ~(Len(s.early) >= EarlyLimit)
  <2>1. PICK a : a = Append(s.early, e)
    OBVIOUS
  <2>2. PICK t : t = [s EXCEPT !.early = a]
    OBVIOUS
  <2>3. t = Early(s, e)
    BY <1>2, <2>1, <2>2 DEF Early
  <2>4. s \in WaDriver /\ s.early \in Seq(WaEvent)
    BY DEF WaOk, WaDriver
  <2>5. a \in Seq(WaEvent) /\ In(a) = In(s.early) \cup {e}
    BY <2>1, <2>4, AppendOf
  <2>6. /\ t \in WaDriver /\ t.service = s.service /\ t.active = s.active /\ t.reserving = s.reserving
        /\ t.early = a /\ t.offers = s.offers /\ t.ending = s.ending
        /\ t.terminal = s.terminal /\ t.told = s.told /\ t.media = s.media
    BY <2>2, <2>4, <2>5 DEF WaDriver
  <2>7. /\ WaLegsOf(s, h, l) /\ ActiveOf(s, h, l) /\ RequestsOf(s, h, l)
         /\ WaOffersOf(s, l) /\ EventsOf(s, q, l)
    BY DEF WaOk, WaHolds
  <2>8. WaLegsOf(t, h, l) /\ ActiveOf(t, h, l) /\ RequestsOf(t, h, l) /\ WaOffersOf(t, l)
    BY <2>6, <2>7 DEF WaLegsOf, ActiveOf, RequestsOf, WaOffersOf, Serving
  <2>9. \A e1 : IsTrue(e1, s, l) => IsTrue(e1, t, l)
    BY <2>6 DEF IsTrue
  <2>10. EventsOf(t, q, l)
    BY <2>5, <2>6, <2>7, <2>9 DEF EventsOf
  <2>11. Outcome(s, t, l)
    BY <2>6 DEF Outcome, Serving
  <2>. QED  BY <2>3, <2>6, <2>8, <2>10, <2>11 DEF WaOk, WaHolds
<1>. QED  BY <1>1, <1>2

LEMMA StatusKeeps ==
  ASSUME NEW l \in [Refs -> WaLegs], NEW h \in WaHttp, NEW q \in Seq(WaEvent), NEW s, WaOk(s, h, q, l),
         NEW e \in WaEvent, e.kind \in {"dialing", "connected"}, s.active = e.ref
  PROVE  WaOk(Status(s, e), h, q, l) /\ Outcome(s, Status(s, e), l)
<1>1. PICK r \in Refs : r = e.ref
  BY DEF WaEvent
<1>2. s \in WaDriver /\ s.told[r] # "ended" /\ s.ending \cup s.terminal \subseteq Refs
  BY <1>1, RefsAssumption, ActiveIs DEF WaDriver
<1>3. PICK t : t = Status(s, e)
  OBVIOUS
<1>4. t \in WaDriver /\ Alike(s, t)
  <2>1. CASE r \in s.ending \cup s.terminal
    BY <1>1, <1>2, <1>3, <2>1 DEF Status, Alike
  <2>2. CASE r \notin s.ending \cup s.terminal /\ e.kind = "connected" /\ s.media[r] = "none" /\ s.service # "failed"
    <3>1. PICK f : f = [s EXCEPT !.media[r] = "token"]
      OBVIOUS
    <3>2. t = Tell(f, r, "connected")
      BY <1>1, <1>3, <2>2, <3>1 DEF Status
    <3>3. /\ f \in WaDriver /\ f.service = s.service /\ f.active = s.active /\ f.reserving = s.reserving
          /\ f.early = s.early /\ f.offers = s.offers /\ f.ending = s.ending
          /\ f.terminal = s.terminal /\ f.told = s.told /\ f.media = [s.media EXCEPT ![r] = "token"]
      BY <1>2, <3>1 DEF WaDriver
    <3>4. /\ t \in WaDriver /\ Rest(f, t) /\ t.media = f.media
          /\ \A c \in Refs : c # r => t.told[c] = f.told[c]
          /\ t.told[r] # "ended"
      BY <3>2, <3>3, TellIs, RefsAssumption
    <3>5. \A c \in Refs \ {r} : t.media[c] = s.media[c]
      BY <1>2, <3>3, <3>4 DEF WaDriver
    <3>. QED  BY <1>2, <2>2, <3>3, <3>4, <3>5 DEF Alike, Rest, Serving
  <2>3. CASE ~(r \in s.ending \cup s.terminal)
             /\ ~(r \notin s.ending \cup s.terminal /\ e.kind = "connected" /\ s.media[r] = "none" /\ s.service # "failed")
    <3>2. t = Tell(s, r, e.kind)
      BY <1>1, <1>3, <2>3 DEF Status
    <3>4. /\ t \in WaDriver /\ Rest(s, t) /\ t.media = s.media
          /\ \A c \in Refs : c # r => t.told[c] = s.told[c]
          /\ t.told[r] # "ended"
      BY <1>2, <3>2, TellIs, RefsAssumption
    <3>. QED  BY <1>2, <3>4 DEF Alike, Rest, Serving
  <2>. QED  BY <2>1, <2>2, <2>3
<1>. QED  BY <1>3, <1>4, AlikeKeeps, AlikeOutcome

LEMMA EndedKeeps ==
  ASSUME NEW l \in [Refs -> WaLegs], NEW h \in WaHttp, NEW q \in Seq(WaEvent), NEW s, WaOk(s, h, q, l),
         NEW e \in WaEvent, e.kind \in {"sure", "claimed", "unsure"}, IsTrue(e, s, l), s.active = e.ref
  PROVE  WaOk(Ended(s, e), h, q, l) /\ Outcome(s, Ended(s, e), l)
<1>1. PICK r \in Refs : r = e.ref
  BY DEF WaEvent
<1>2. /\ s \in WaDriver /\ s.told[r] # "ended" /\ s.ending \cup s.terminal \subseteq Refs
      /\ h.dial = "idle" /\ r \notin s.offers /\ ~s.reserving /\ r # NoRef
  BY <1>1, RefsAssumption, ActiveIs DEF WaDriver
<1>3. /\ WaLegsOf(s, h, l) /\ ActiveOf(s, h, l) /\ RequestsOf(s, h, l)
      /\ WaOffersOf(s, l) /\ EventsOf(s, q, l)
  BY DEF WaOk, WaHolds
<1>4. PICK f : f = [s EXCEPT !.terminal = @ \cup {r}]
  OBVIOUS
<1>5. /\ f \in WaDriver /\ f.service = s.service /\ f.active = s.active /\ f.reserving = s.reserving
      /\ f.early = s.early /\ f.offers = s.offers /\ f.ending = s.ending
      /\ f.terminal = s.terminal \cup {r} /\ f.told = s.told /\ f.media = s.media
  BY <1>2, <1>4 DEF WaDriver
<1>6. PICK m : m = MediaOff(f, r)
  OBVIOUS
<1>7. /\ m \in WaDriver /\ Rest(f, m) /\ m.told = f.told
      /\ \A c \in Refs : m.media[c] \in {f.media[c], "off"}
      /\ m.media[r] \in {"none", "off"}
  BY <1>2, <1>5, <1>6, MediaOffIs
<1>8. PICK t : t = Ended(s, e)
  OBVIOUS
<1>9. l[r] # "none"
  BY <1>1, <1>2, <1>3 DEF ActiveOf
<1>10. \A c \in s.ending \cup s.terminal \cup {r} : l[c] # "none" /\ m.media[c] \in {"none", "off"}
  BY <1>2, <1>3, <1>5, <1>7, <1>9 DEF WaLegsOf
<1>11. PICK doubt \in BOOLEAN :
        doubt <=> (e.kind = "unsure" \/ (e.kind = "claimed" /\ (r \in s.mediaFailed \cup s.ending \/ s.service = "failed")))
  OBVIOUS
<1>12. CASE doubt
  <2>1. t = Tell(m, r, "uncertain")
    BY <1>1, <1>4, <1>6, <1>8, <1>11, <1>12 DEF Ended
  <2>2. /\ t \in WaDriver /\ Rest(m, t) /\ t.media = m.media
        /\ \A c \in Refs : c # r => t.told[c] = m.told[c]
        /\ t.told[r] # "ended"
    BY <1>2, <1>7, <2>1, TellIs
  <2>3. /\ t.service = s.service /\ t.active = s.active /\ t.reserving = s.reserving
        /\ t.early = s.early /\ t.offers = s.offers /\ t.ending = s.ending
        /\ t.terminal = s.terminal \cup {r} /\ t.media = m.media
        /\ \A c \in Refs : t.told[c] = "ended" <=> s.told[c] = "ended"
    BY <1>2, <1>5, <1>7, <2>2 DEF Rest
  <2>4. WaLegsOf(t, h, l)
    BY <1>3, <1>10, <2>3 DEF WaLegsOf
  <2>5. ActiveOf(t, h, l)
    BY <1>1, <1>3, <2>3 DEF ActiveOf
  <2>6. RequestsOf(t, h, l)
    BY <1>2, <1>3, <2>3, DialAssumption DEF RequestsOf, Serving
  <2>7. WaOffersOf(t, l)
    BY <1>2, <1>3, <2>3 DEF WaOffersOf, WaDriver
  <2>8. EventsOf(t, q, l)
    <3>1. \A e1 : IsTrue(e1, s, l) => IsTrue(e1, t, l)
      BY <2>3 DEF IsTrue
    <3>2. In(q) \subseteq WaEvent
      BY InOf
    <3>3. \A e1 \in In(q) : e1.ref \in Refs
      BY <3>2 DEF WaEvent
    <3>. QED  BY <1>3, <2>3, <3>1, <3>3 DEF EventsOf
  <2>9. Outcome(s, t, l)
    BY <2>3 DEF Outcome, Serving
  <2>. QED  BY <1>8, <2>2, <2>4, <2>5, <2>6, <2>7, <2>8, <2>9 DEF WaOk, WaHolds
<1>13. CASE ~doubt
  <2>0. l[r] \in {"down", "gone"}
    BY <1>1, <1>11, <1>13 DEF IsTrue
  <2>1. PICK n : n = [m EXCEPT !.active = NoRef]
    OBVIOUS
  <2>2. t = Tell(n, r, "ended")
    BY <1>1, <1>4, <1>6, <1>8, <1>11, <1>13, <2>1 DEF Ended
  <2>3. /\ n \in WaDriver /\ n.service = m.service /\ n.active = NoRef /\ n.reserving = m.reserving
        /\ n.early = m.early /\ n.offers = m.offers /\ n.ending = m.ending
        /\ n.terminal = m.terminal /\ n.told = m.told /\ n.media = m.media
    BY <1>7, <2>1 DEF WaDriver
  <2>4. /\ t \in WaDriver /\ Rest(n, t) /\ t.media = n.media
        /\ \A c \in Refs : c # r => t.told[c] = n.told[c]
        /\ t.told[r] = "ended"
    BY <1>2, <2>2, <2>3, TellIs
  <2>5. /\ t.service = s.service /\ t.active = NoRef /\ t.reserving = s.reserving
        /\ t.early = s.early /\ t.offers = s.offers /\ t.ending = s.ending
        /\ t.terminal = s.terminal \cup {r} /\ t.media = m.media
        /\ \A c \in Refs : t.told[c] = "ended" <=> c = r \/ s.told[c] = "ended"
    BY <1>2, <1>5, <1>7, <2>3, <2>4 DEF Rest
  <2>6. WaLegsOf(t, h, l)
    BY <1>1, <1>3, <1>10, <2>0, <2>5 DEF WaLegsOf, WaOurs
  <2>7. ActiveOf(t, h, l)
    BY <2>5 DEF ActiveOf
  <2>8. RequestsOf(t, h, l)
    BY <1>1, <1>2, <1>3, <2>0, <2>5, DialAssumption DEF RequestsOf, Serving
  <2>9. WaOffersOf(t, l)
    BY <1>2, <1>3, <2>5 DEF WaOffersOf, WaDriver
  <2>10. EventsOf(t, q, l)
    <3>1. \A e1 : IsTrue(e1, s, l) => IsTrue(e1, t, l)
      BY <2>5 DEF IsTrue
    <3>2. In(q) \subseteq WaEvent
      BY InOf
    <3>3. \A e1 \in In(q) : e1.ref \in Refs
      BY <3>2 DEF WaEvent
    <3>4. \A e1 \in In(q) : e1.kind = "incoming" => e1.ref # r /\ t.active # e1.ref
      BY <1>1, <1>3, <2>5, <3>3, RefsAssumption DEF EventsOf
    <3>. QED  BY <1>3, <2>5, <3>1, <3>3, <3>4 DEF EventsOf
  <2>11. Outcome(s, t, l)
    BY <1>1, <1>2, <2>0, <2>5 DEF Outcome, Serving
  <2>. QED  BY <1>8, <2>4, <2>6, <2>7, <2>8, <2>9, <2>10, <2>11 DEF WaOk, WaHolds
<1>. QED  BY <1>12, <1>13

LEMMA MatchingKeeps ==
  ASSUME NEW l \in [Refs -> WaLegs], NEW h \in WaHttp, NEW q \in Seq(WaEvent), NEW s, WaOk(s, h, q, l),
         NEW e \in WaEvent, e.kind # "incoming", IsTrue(e, s, l)
  PROVE  WaOk(Matching(s, e), h, q, l) /\ Outcome(s, Matching(s, e), l)
<1>1. CASE s.active # e.ref
  BY <1>1 DEF Matching, Outcome
<1>2. CASE s.active = e.ref /\ e.kind \in {"dialing", "connected"}
  BY <1>2, StatusKeeps DEF Matching
<1>3. CASE s.active = e.ref /\ e.kind \notin {"dialing", "connected"}
  <2>1. e.kind \in {"sure", "claimed", "unsure"}
    BY <1>3 DEF WaEvent, Kinds
  <2>. QED  BY <1>3, <2>1, EndedKeeps DEF Matching
<1>. QED  BY <1>1, <1>2, <1>3

LEMMA EventKeeps ==
  ASSUME NEW l \in [Refs -> WaLegs], NEW h \in WaHttp, NEW q \in Seq(WaEvent), NEW s, WaOk(s, h, q, l),
         NEW e \in WaEvent, IsTrue(e, s, l), e.kind = "incoming" => NewOffer(e, s, q, l)
  PROVE  WaOk(Event(s, e), h, q, l) /\ Outcome(s, Event(s, e), l)
<1>1. CASE e.kind = "incoming"
  BY <1>1, OfferedKeeps DEF Event
<1>2. CASE e.kind # "incoming" /\ s.reserving
  BY <1>2, EarlyKeeps DEF Event
<1>3. CASE e.kind # "incoming" /\ ~s.reserving
  BY <1>3, MatchingKeeps DEF Event
<1>. QED  BY <1>1, <1>2, <1>3

-----------------------------------------------------------------------------
(* The replay of early events *)

\* Induction by the least counterexample: the initial segments 0..n, n in S, are ordered by
\* inclusion.
LEMMA LeastNumber ==
  ASSUME NEW S \in SUBSET Nat, S # {}
  PROVE  \E m \in S : \A n \in S : m <= n
<1>. DEFINE T == {0..n : n \in S}
<1>1. T \subseteq FiniteSubsetsOf(Nat) /\ T # {}
  <2>1. \A n \in S : 0..n \subseteq Nat /\ IsFiniteSet(0..n)
    BY FS_Interval
  <2>. QED  BY <2>1 DEF FiniteSubsetsOf
<1>2. \E x \in T : \A y \in T : <<y, x>> \notin StrictSubsetOrdering(Nat)
  BY <1>1, FS_StrictSubsetOrderingWellFounded, WFMin
<1>3. PICK m \in S : \A n \in S : <<0..n, 0..m>> \notin StrictSubsetOrdering(Nat)
  BY <1>2
<1>4. ASSUME NEW n \in S, n < m PROVE FALSE
  <2>1. 0..n \subseteq 0..m /\ m \in 0..m /\ m \notin 0..n /\ 0..m \subseteq Nat
    BY <1>4
  <2>2. <<0..n, 0..m>> \in StrictSubsetOrdering(Nat)
    BY <2>1 DEF StrictSubsetOrdering
  <2>. QED  BY <1>3, <2>2
<1>. QED  BY <1>4

\* f lists the states of a replay of the first n events.
Replays(f, s, q, n) == f = [m \in 0..n |-> IF m = 0 THEN s ELSE Event(f[m - 1], q[m])]

LEMMA ReplayExists ==
  ASSUME NEW s, NEW q, NEW n \in Nat
  PROVE  \E f : Replays(f, s, q, n)
<1>. DEFINE Good(k) == \E f : Replays(f, s, q, k)
            Bad == {k \in Nat : ~Good(k)}
<1>1. Good(0)
  <2>1. PICK f : f = [m \in 0..0 |-> s]
    OBVIOUS
  <2>2. \A m \in 0..0 : m = 0
    OBVIOUS
  <2>3. f = [m \in 0..0 |-> IF m = 0 THEN s ELSE Event(f[m - 1], q[m])]
    BY <2>1, <2>2
  <2>. QED  BY <2>3 DEF Replays
<1>2. ASSUME NEW k \in Nat, Good(k)
      PROVE  Good(k + 1)
  <2>1. PICK g : Replays(g, s, q, k)
    BY <1>2
  <2>2. PICK f : f = [m \in 0..(k + 1) |-> IF m = k + 1 THEN Event(g[k], q[k + 1]) ELSE g[m]]
    OBVIOUS
  <2>3. /\ 0 \in 0..k /\ k \in 0..k /\ g[0] = s
        /\ \A m \in 0..k : m # 0 => g[m] = Event(g[m - 1], q[m])
    BY <2>1 DEF Replays
  <2>4. \A m \in 0..k : m \in 0..(k + 1) /\ m # k + 1 /\ f[m] = g[m]
    BY <2>2
  <2>5. ASSUME NEW m \in 0..(k + 1)
        PROVE  f[m] = IF m = 0 THEN s ELSE Event(f[m - 1], q[m])
    <3>1. CASE m = k + 1
      <4>1. m # 0 /\ m - 1 = k /\ f[m - 1] = g[k] /\ f[m] = Event(g[k], q[m])
        BY <2>2, <2>3, <2>4, <3>1
      <4>. QED  BY <4>1
    <3>2. CASE m # k + 1 /\ m # 0
      <4>1. m \in 0..k /\ m - 1 \in 0..k
        BY <3>2
      <4>2. f[m] = g[m] /\ f[m - 1] = g[m - 1] /\ g[m] = Event(g[m - 1], q[m])
        BY <2>3, <2>4, <3>2, <4>1
      <4>. QED  BY <3>2, <4>2
    <3>3. CASE m = 0
      BY <2>3, <2>4, <3>3
    <3>. QED  BY <3>1, <3>2, <3>3
  <2>6. f = [m \in 0..(k + 1) |-> IF m = 0 THEN s ELSE Event(f[m - 1], q[m])]
    BY <2>2, <2>5
  <2>. QED  BY <2>6 DEF Replays
<1>3. Bad = {}
  <2>. SUFFICES ASSUME Bad # {} PROVE FALSE
    OBVIOUS
  <2>1. PICK k \in Bad : \A m \in Bad : k <= m
    BY LeastNumber
  <2>2. k \in Nat /\ ~Good(k) /\ k # 0
    <3>1. k \in Nat /\ ~Good(k)
      BY <2>1
    <3>. HIDE DEF Good
    <3>. QED  BY <1>1, <3>1
  <2>3. k - 1 \in Nat /\ k - 1 \notin Bad
    <3>1. k - 1 \in Nat /\ ~(k <= k - 1)
      BY <2>2
    <3>. QED  BY <2>1, <3>1, Zenon
  <2>4. Good(k - 1)
    BY <2>3
  <2>5. Good((k - 1) + 1)
    <3>. HIDE DEF Good
    <3>. QED  BY <1>2, <2>3, <2>4
  <2>6. (k - 1) + 1 = k
    BY <2>2
  <2>. QED  BY <2>2, <2>5, <2>6, Zenon
<1>. QED  BY <1>3

LEMMA ReplayIs ==
  ASSUME NEW s, NEW q \in Seq(WaEvent)
  PROVE  \E f : /\ f[0] = s /\ Replay(s, q) = f[Len(q)]
                /\ \A n \in 1..Len(q) : f[n] = Event(f[n - 1], q[n])
<1>10. Len(q) \in Nat
  OBVIOUS
<1>11. PICK g : Replays(g, s, q, Len(q))
  BY <1>10, ReplayExists
<1>1. g = [n \in 0..Len(q) |-> IF n = 0 THEN s ELSE Event(g[n - 1], q[n])]
  BY <1>11 DEF Replays
<1>2. PICK f : f = CHOOSE h : h = [n \in 0..Len(q) |-> IF n = 0 THEN s ELSE Event(h[n - 1], q[n])]
  OBVIOUS
<1>3. f = [n \in 0..Len(q) |-> IF n = 0 THEN s ELSE Event(f[n - 1], q[n])]
  BY <1>1, <1>2, Zenon
<1>4. Replay(s, q) = f[Len(q)]
  BY <1>2, Zenon DEF Replay
<1>5. f[0] = s /\ \A n \in 1..Len(q) : f[n] = Event(f[n - 1], q[n])
  BY <1>10, <1>3
<1>. QED  BY <1>4, <1>5

\* Whatever events are replayed for a call, it stays the active one or ends.
LEMMA ReplayKeeps ==
  ASSUME NEW l \in [Refs -> WaLegs], NEW h \in WaHttp, NEW q \in Seq(WaEvent), NEW s, WaOk(s, h, q, l),
         s.active # NoRef, NEW es \in Seq(WaEvent),
         \A e \in In(es) : IsTrue(e, s, l) /\ e.kind # "incoming"
  PROVE  WaOk(Replay(s, es), h, q, l) /\ Outcome(s, Replay(s, es), l)
<1>1. PICK f : /\ f[0] = s /\ Replay(s, es) = f[Len(es)]
               /\ \A n \in 1..Len(es) : f[n] = Event(f[n - 1], es[n])
  BY ReplayIs
<1>. DEFINE Good(n) == WaOk(f[n], h, q, l) /\ Outcome(s, f[n], l)
            Bad == {n \in 0..Len(es) : ~Good(n)}
<1>2. Good(0)
  BY <1>1 DEF Outcome
<1>3. ASSUME NEW n \in 1..Len(es), Good(n - 1)
      PROVE  Good(n)
  <2>1. PICK t : t = f[n - 1]
    OBVIOUS
  <2>2. PICK u : u = Event(t, es[n])
    OBVIOUS
  <2>3. f[n] = u
    BY <1>1, <2>1, <2>2
  <2>4. WaOk(t, h, q, l) /\ Outcome(s, t, l)
    BY <1>3, <2>1
  <2>5. es[n] \in WaEvent /\ IsTrue(es[n], s, l) /\ es[n].kind # "incoming"
    BY DEF In
  <2>6. IsTrue(es[n], t, l)
    BY <2>4, <2>5 DEF IsTrue, Outcome
  <2>7. WaOk(u, h, q, l) /\ Outcome(t, u, l)
    BY <2>2, <2>4, <2>5, <2>6, EventKeeps
  <2>8. Outcome(s, u, l)
    BY <2>4, <2>7 DEF Outcome
  <2>. QED  BY <2>3, <2>7, <2>8
<1>4. Bad = {}
  <2>. SUFFICES ASSUME Bad # {} PROVE FALSE
    OBVIOUS
  <2>1. PICK n \in Bad : \A m \in Bad : n <= m
    <3>1. Bad \in SUBSET Nat
      OBVIOUS
    <3>. HIDE DEF Bad
    <3>. QED  BY <3>1, LeastNumber
  <2>2. n \in 0..Len(es) /\ ~Good(n) /\ n # 0
    <3>1. n \in 0..Len(es) /\ ~Good(n)
      BY <2>1
    <3>. HIDE DEF Good
    <3>. QED  BY <1>2, <3>1
  <2>3. n - 1 \in 0..Len(es) /\ n - 1 \notin Bad
    <3>1. n - 1 \in 0..Len(es) /\ ~(n <= n - 1)
      BY <2>2
    <3>. QED  BY <2>1, <3>1, Zenon
  <2>4. Good(n - 1)
    BY <2>3
  <2>5. n \in 1..Len(es)
    BY <2>2
  <2>. HIDE DEF Good
  <2>. QED  BY <1>3, <2>2, <2>4, <2>5
<1>5. Len(es) \in 0..Len(es)
  OBVIOUS
<1>. QED  BY <1>1, <1>4, <1>5

-----------------------------------------------------------------------------
(* Steps of the contract *)

WaStep == [WaContract!Next]_(WaContract!vars)

WaAlive == {r \in Refs : wleg[r] \in WaOurs}
WaOver == {r \in Refs : wa.told[r] = "ended"}
WaFree == Free(wa)

LEMMA WaPrime ==
  ASSUME http' \in WaHttp, stream' \in Seq(WaEvent), wleg' \in [Refs -> WaLegs],
         WaOk(wa', http', stream', wleg')
  PROVE  WaInv'
BY DEF WaInv, WaTypeOK, WaOk, WaHolds, WaLegsOf, ActiveOf, RequestsOf, WaOffersOf, EventsOf, IsTrue, In, Once,
       Serving

LEMMA WaNow ==
  ASSUME WaInv
  PROVE  /\ WaOk(wa, http, stream, wleg) /\ wa \in WaDriver /\ http \in WaHttp
         /\ stream \in Seq(WaEvent) /\ wleg \in [Refs -> WaLegs]
BY DEF WaInv, WaTypeOK, WaOk

\* Nothing happens to a leg; a free driver may stop being free.
LEMMA WaQuiet ==
  ASSUME \A r \in Refs : wleg'[r] \in WaOurs <=> wleg[r] \in WaOurs,
         \A r \in Refs : wa'.told[r] = "ended" <=> wa.told[r] = "ended",
         Free(wa)' => Free(wa)
  PROVE  WaStep
<1>1. WaAlive' = WaAlive /\ WaOver' = WaOver
  BY DEF WaAlive, WaOver
<1>2. CASE WaFree' = WaFree
  <2>1. UNCHANGED WaContract!vars
    BY <1>1, <1>2 DEF WaContract!vars, WaAlive, WaOver, WaFree
  <2>. QED  BY <2>1 DEF WaStep
<1>3. CASE WaFree' # WaFree
  <2>1. WaFree \in BOOLEAN /\ WaFree' \in BOOLEAN
    BY DEF WaFree, Free, Serving
  <2>2. WaFree /\ WaFree' = FALSE
    BY <1>3, <2>1 DEF WaFree
  <2>3. WaContract!Retire
    BY <1>1, <2>2 DEF WaContract!Retire, WaAlive, WaOver, WaFree
  <2>. QED  BY <2>3 DEF WaStep, WaContract!Next
<1>. QED  BY <1>2, <1>3

LEMMA WaEndReported ==
  ASSUME NEW e \in Refs, wleg' = wleg, wleg[e] \notin WaOurs,
         \A r \in Refs : wa'.told[r] = "ended" <=> r = e \/ wa.told[r] = "ended",
         Free(wa) => Free(wa)',
         Free(wa)' => Free(wa) \/ \A r \in Refs : wleg[r] \notin WaOurs
  PROVE  WaStep
<1>1. WaAlive' = WaAlive /\ e \notin WaAlive
  BY DEF WaAlive
<1>2. WaOver' = WaOver \cup {e}
  BY DEF WaOver
<1>3. WaFree' \in {WaFree, WaFree \/ WaAlive = {}}
  <2>1. WaFree \in BOOLEAN /\ WaFree' \in BOOLEAN
    BY DEF WaFree, Free, Serving
  <2>2. CASE WaFree \/ ~WaFree'
    <3>1. WaFree' = WaFree
      BY <2>1, <2>2 DEF WaFree
    <3>. QED  BY <3>1
  <2>3. CASE ~WaFree /\ WaFree'
    <3>1. WaAlive = {}
      BY <2>3 DEF WaFree, WaAlive
    <3>2. (WaFree \/ WaAlive = {}) = TRUE /\ WaFree' = TRUE
      BY <2>1, <2>3, <3>1
    <3>. QED  BY <3>2
  <2>. QED  BY <2>1, <2>2, <2>3
<1>4. WaContract!ReportEnded(e)
  BY <1>1, <1>2, <1>3 DEF WaContract!ReportEnded, WaAlive, WaOver, WaFree
<1>. QED  BY <1>4 DEF WaStep, WaContract!Next

LEMMA WaPlaced ==
  ASSUME NEW r \in Refs, \A c \in Refs : wleg[c] \notin WaOurs, wleg'[r] \in WaOurs,
         \A c \in Refs \ {r} : wleg'[c] \notin WaOurs, wa.told[r] # "ended",
         \A c \in Refs : wa'.told[c] = "ended" <=> wa.told[c] = "ended",
         ~Free(wa), ~Free(wa)'
  PROVE  WaStep
<1>1. WaAlive = {} /\ WaAlive' = {r}
  BY DEF WaAlive
<1>2. WaOver' = WaOver /\ r \notin WaOver
  BY DEF WaOver
<1>3. WaFree = FALSE /\ WaFree' = FALSE
  BY DEF WaFree, Free, Serving
<1>4. WaContract!Place(r)
  BY <1>1, <1>2, <1>3 DEF WaContract!Place, WaAlive, WaOver, WaFree
<1>. QED  BY <1>4 DEF WaStep, WaContract!Next

LEMMA WaDropped ==
  ASSUME NEW r \in Refs, wleg[r] \in WaOurs, \A c \in Refs : wleg'[c] \notin WaOurs, wa' = wa
  PROVE  WaStep
<1>1. r \in WaAlive /\ WaAlive' = {}
  BY DEF WaAlive
<1>2. WaOver' = WaOver /\ WaFree' = WaFree
  BY DEF WaOver, WaFree
<1>3. WaContract!Drop(r)
  BY <1>1, <1>2 DEF WaContract!Drop, WaAlive, WaOver, WaFree
<1>. QED  BY <1>3 DEF WaStep, WaContract!Next

\* An answer or event that does no more than end the active call.
LEMMA WaSettled ==
  ASSUME WaInv, wleg' = wleg, http' \in WaHttp, stream' \in Seq(WaEvent),
         WaOk(wa', http', stream', wleg), Outcome(wa, wa', wleg)
  PROVE  WaInv' /\ WaStep
<1>1. WaInv'
  BY WaNow, WaPrime
<1>2. CASE /\ wa'.active = wa.active
           /\ \A r \in Refs : wa'.told[r] = "ended" <=> wa.told[r] = "ended"
  <2>1. Free(wa)' => Free(wa)
    BY <1>2 DEF Outcome, Free, Serving
  <2>. QED  BY <1>1, <1>2, <2>1, WaQuiet
<1>3. CASE /\ wa.active # NoRef /\ wa'.active = NoRef /\ wleg[wa.active] \in {"down", "gone"}
           /\ \A r \in Refs : wa'.told[r] = "ended" <=> r = wa.active \/ wa.told[r] = "ended"
  <2>1. PICK e \in Refs : e = wa.active /\ http.dial = "idle"
    BY <1>3, WaNow, ActiveIs
  <2>2. wleg[e] \notin WaOurs
    BY <1>3, <2>1 DEF WaOurs
  <2>3. \A r \in Refs : wleg[r] \notin WaOurs
    BY <2>1, <2>2, DialAssumption DEF WaInv, WaHolds, WaLegsOf
  <2>4. ~Free(wa)
    BY <1>3 DEF Free
  <2>5. \A r \in Refs : wa'.told[r] = "ended" <=> r = e \/ wa.told[r] = "ended"
    BY <1>3, <2>1
  <2>6. WaStep
    BY <2>2, <2>3, <2>4, <2>5, WaEndReported
  <2>. QED  BY <1>1, <2>6
<1>. QED  BY <1>2, <1>3 DEF Outcome

-----------------------------------------------------------------------------
(* The actions: events and faults *)

LEMMA ReadsStep ==
  ASSUME WaInv, Reads
  PROVE  WaInv' /\ WaStep
<1>1. PICK q : q = Tail(stream)
  OBVIOUS
<1>2. PICK e : e = Head(stream)
  OBVIOUS
<1>3. /\ stream # <<>> /\ wa' = Event(wa, e) /\ stream' = q /\ http' = http /\ wleg' = wleg
  BY <1>1, <1>2 DEF Reads
<1>4. /\ wa \in WaDriver /\ http \in WaHttp /\ stream \in Seq(WaEvent) /\ wleg \in [Refs -> WaLegs]
      /\ WaLegsOf(wa, http, wleg) /\ ActiveOf(wa, http, wleg) /\ RequestsOf(wa, http, wleg)
      /\ WaOffersOf(wa, wleg) /\ EventsOf(wa, stream, wleg)
  BY WaNow DEF WaInv, WaHolds
<1>5. Once("incoming", stream)
  BY <1>4 DEF EventsOf
<1>6. /\ q \in Seq(WaEvent) /\ Once("incoming", q) /\ e \in WaEvent /\ In(q) \subseteq In(stream)
      /\ e \in In(stream) /\ (e.kind = "incoming" => e \notin In(q))
  BY <1>1, <1>2, <1>3, <1>4, <1>5, TailOf
<1>7. EventsOf(wa, q, wleg)
  BY <1>4, <1>6 DEF EventsOf
<1>8. WaOk(wa, http, q, wleg)
  BY <1>4, <1>7 DEF WaOk, WaHolds
<1>9. IsTrue(e, wa, wleg) /\ (e.kind = "incoming" => NewOffer(e, wa, q, wleg))
  BY <1>4, <1>6 DEF EventsOf, NewOffer
<1>10. WaOk(wa', http, q, wleg) /\ Outcome(wa, wa', wleg)
  BY <1>3, <1>4, <1>6, <1>8, <1>9, EventKeeps
<1>. QED  BY <1>3, <1>4, <1>6, <1>10, WaSettled

LEMMA StreamLostStep ==
  ASSUME WaInv, StreamLost
  PROVE  WaInv' /\ WaStep
<1>1. wa' = Fault(wa) /\ http' = http /\ stream' = stream /\ wleg' = wleg
  BY DEF StreamLost
<1>2. WaOk(wa', http, stream, wleg) /\ Outcome(wa, wa', wleg)
  BY <1>1, WaNow, FaultKeeps
<1>. QED  BY <1>1, <1>2, WaNow, WaSettled

LEMMA MediaOffKeeps ==
  ASSUME NEW l \in [Refs -> WaLegs], NEW h \in WaHttp, NEW q \in Seq(WaEvent), NEW s, WaOk(s, h, q, l),
         NEW r \in Refs \cup {NoRef}
  PROVE  LET t == MediaOff(s, r) IN
         /\ WaOk(t, h, q, l) /\ Alike(s, t) /\ t.service = s.service
         /\ r # NoRef => t.media[r] \in {"none", "off"}
<1>1. PICK t : t = MediaOff(s, r)
  OBVIOUS
<1>2. s \in WaDriver /\ s.ending \cup s.terminal \subseteq Refs
  BY DEF WaOk, WaDriver
<1>3. /\ t \in WaDriver /\ Rest(s, t) /\ t.told = s.told
      /\ \A c \in Refs : t.media[c] \in {s.media[c], "off"}
      /\ r # NoRef => t.media[r] \in {"none", "off"}
  BY <1>1, <1>2, MediaOffIs
<1>4. Alike(s, t) /\ t.service = s.service
  BY <1>2, <1>3 DEF Alike, Rest, Serving
<1>. QED  BY <1>1, <1>3, <1>4, AlikeKeeps

LEMMA FailMediaKeeps ==
  ASSUME NEW l \in [Refs -> WaLegs], NEW h \in WaHttp, NEW q \in Seq(WaEvent), NEW s, WaOk(s, h, q, l),
         NEW r \in Refs
  PROVE  LET t == FailMedia(MediaOff(s, r), r) IN WaOk(t, h, q, l) /\ Outcome(s, t, l)
<1>1. PICK m : m = MediaOff(s, r)
  OBVIOUS
<1>2. PICK t : t = FailMedia(m, r)
  OBVIOUS
<1>3. WaOk(m, h, q, l) /\ Alike(s, m)
  BY <1>1, MediaOffKeeps
<1>4. t \in WaDriver /\ Alike(m, t)
  BY <1>2, <1>3, ActiveIs, FailMediaIs
<1>5. WaOk(t, h, q, l)
  BY <1>3, <1>4, AlikeKeeps
<1>6. Outcome(s, t, l)
  BY <1>3, <1>4 DEF Alike, Outcome
<1>. QED  BY <1>1, <1>2, <1>5, <1>6

LEMMA MediaStepStep ==
  ASSUME WaInv, NEW r \in Refs, MediaStep(r)
  PROVE  WaInv' /\ WaStep
<1>1. http' = http /\ stream' = stream /\ wleg' = wleg /\ wa.media[r] \in {"token", "upgrade"}
  BY DEF MediaStep
<1>2. /\ WaOk(wa, http, stream, wleg) /\ wa \in WaDriver /\ http \in WaHttp
      /\ stream \in Seq(WaEvent) /\ wleg \in [Refs -> WaLegs]
  BY WaNow
<1>3. r \notin wa.ending \cup wa.terminal /\ wa.told[r] # "ended"
  BY <1>1 DEF WaInv, WaHolds, WaLegsOf
<1>4. WaOk(wa', http, stream, wleg) /\ Outcome(wa, wa', wleg)
  <2>1. CASE wa' = FailMedia(MediaOff(wa, r), r)
    BY <1>2, <2>1, FailMediaKeeps
  <2>2. CASE wa' = [wa EXCEPT !.media[r] = "upgrade"]
    <3>1. /\ wa' \in WaDriver /\ wa'.service = wa.service /\ wa'.active = wa.active
          /\ wa'.reserving = wa.reserving
          /\ wa'.early = wa.early /\ wa'.offers = wa.offers /\ wa'.ending = wa.ending
          /\ wa'.terminal = wa.terminal /\ wa'.told = wa.told /\ wa'.media = [wa.media EXCEPT ![r] = "upgrade"]
      BY <1>2, <2>2 DEF WaDriver
    <3>2. \A c \in Refs \ {r} : wa'.media[c] = wa.media[c]
      BY <1>2, <3>1 DEF WaDriver
    <3>3. wa.ending \cup wa.terminal \subseteq Refs \ {r}
      BY <1>2, <1>3 DEF WaDriver
    <3>4. Alike(wa, wa')
      BY <3>1, <3>2, <3>3 DEF Alike, Serving
    <3>. QED  BY <1>2, <3>1, <3>4, AlikeKeeps, AlikeOutcome
  <2>3. CASE wa' = Tell([wa EXCEPT !.media[r] = "open"], r, "audio")
    <3>1. PICK f : f = [wa EXCEPT !.media[r] = "open"]
      OBVIOUS
    <3>2. /\ f \in WaDriver /\ f.service = wa.service /\ f.active = wa.active
          /\ f.reserving = wa.reserving
          /\ f.early = wa.early /\ f.offers = wa.offers /\ f.ending = wa.ending
          /\ f.terminal = wa.terminal /\ f.told = wa.told /\ f.media = [wa.media EXCEPT ![r] = "open"]
      BY <1>2, <3>1 DEF WaDriver
    <3>3. \A c \in Refs \ {r} : f.media[c] = wa.media[c]
      BY <1>2, <3>2 DEF WaDriver
    <3>4. PICK t : t = wa' /\ t = Tell(f, r, "audio")
      BY <2>3, <3>1
    <3>5. /\ t \in WaDriver /\ Rest(f, t) /\ t.media = f.media
          /\ \A c \in Refs : c # r => t.told[c] = f.told[c]
          /\ t.told[r] # "ended"
      BY <3>2, <3>4, TellIs, RefsAssumption
    <3>6. wa.ending \cup wa.terminal \subseteq Refs \ {r}
      BY <1>2, <1>3 DEF WaDriver
    <3>7. Alike(wa, t)
      BY <1>3, <3>2, <3>3, <3>5, <3>6 DEF Alike, Rest, Serving
    <3>. QED  BY <1>2, <3>4, <3>5, <3>7, AlikeKeeps, AlikeOutcome
  <2>4. CASE wa' = MediaOff(wa, r)
    <3>1. WaOk(wa', http, stream, wleg) /\ Alike(wa, wa')
      BY <1>2, <2>4, MediaOffKeeps
    <3>. QED  BY <3>1, AlikeOutcome
  <2>. QED  BY <2>1, <2>2, <2>3, <2>4 DEF MediaStep
<1>. QED  BY <1>1, <1>2, <1>4, WaSettled

LEMMA MediaLostStep ==
  ASSUME WaInv, NEW r \in Refs, MediaLost(r)
  PROVE  WaInv' /\ WaStep
<1>1. wa' = FailMedia(MediaOff(wa, r), r) /\ http' = http /\ stream' = stream /\ wleg' = wleg
  BY DEF MediaLost
<1>2. WaOk(wa', http, stream, wleg) /\ Outcome(wa, wa', wleg)
  BY <1>1, WaNow, FailMediaKeeps
<1>. QED  BY <1>1, <1>2, WaNow, WaSettled

-----------------------------------------------------------------------------
(* The actions: requests and their answers *)

\* While the driver is free, or a dial's answer is out, there is no leg but that of the dial.
LEMMA NoActiveNoLeg ==
  ASSUME NEW l \in [Refs -> WaLegs], NEW h \in WaHttp, NEW q \in Seq(WaEvent), NEW s, WaOk(s, h, q, l),
         s.active = NoRef
  PROVE  \A r \in Refs : l[r] \in WaOurs => h.dial = r
BY RefsAssumption DEF WaOk, WaHolds, WaLegsOf

LEMMA DialStep ==
  ASSUME WaInv, Dial
  PROVE  WaInv' /\ WaStep
<1>1. /\ WaOk(wa, http, stream, wleg) /\ wa \in WaDriver /\ http \in WaHttp
      /\ stream \in Seq(WaEvent) /\ wleg \in [Refs -> WaLegs]
      /\ WaLegsOf(wa, http, wleg) /\ ActiveOf(wa, http, wleg) /\ RequestsOf(wa, http, wleg)
      /\ WaOffersOf(wa, wleg) /\ EventsOf(wa, stream, wleg)
  BY WaNow DEF WaInv, WaHolds
<1>2. /\ Free(wa) /\ wa.active = NoRef /\ Serving(wa) /\ http.dial = "idle"
      /\ stream' = stream /\ wleg' = wleg
      /\ wa' = [wa EXCEPT !.reserving = TRUE] /\ http' = [http EXCEPT !.dial = "sent"]
  BY DEF Dial, Free
<1>3. /\ wa' \in WaDriver /\ wa'.service = wa.service /\ wa'.active = NoRef /\ wa'.reserving
      /\ wa'.early = wa.early /\ wa'.offers = wa.offers /\ wa'.ending = wa.ending
      /\ wa'.terminal = wa.terminal /\ wa'.told = wa.told /\ wa'.media = wa.media
  BY <1>1, <1>2 DEF WaDriver
<1>4. http' \in WaHttp /\ http'.dial = "sent" /\ http'.accept = http.accept /\ http'.deletes = http.deletes
  BY <1>1, <1>2 DEF WaHttp
<1>5. \A r \in Refs : wleg[r] \notin WaOurs /\ r # "idle" /\ r # "sent"
  BY <1>1, <1>2, NoActiveNoLeg, DialAssumption
<1>6. WaLegsOf(wa', http', wleg) /\ ActiveOf(wa', http', wleg) /\ WaOffersOf(wa', wleg)
  BY <1>1, <1>3, <1>5 DEF WaLegsOf, ActiveOf, WaOffersOf
<1>7. RequestsOf(wa', http', wleg)
  BY <1>1, <1>2, <1>3, <1>4, <1>5 DEF RequestsOf
<1>8. \A e : IsTrue(e, wa, wleg) => IsTrue(e, wa', wleg)
  BY <1>3 DEF IsTrue
<1>9. EventsOf(wa', stream, wleg)
  BY <1>1, <1>2, <1>3, <1>8 DEF EventsOf
<1>10. WaInv'
  <2>1. WaOk(wa', http', stream, wleg)
    BY <1>3, <1>6, <1>7, <1>9 DEF WaOk, WaHolds
  <2>. QED  BY <1>1, <1>2, <1>4, <2>1, WaPrime
<1>11. WaStep
  BY <1>2, <1>3, WaQuiet
<1>. QED  BY <1>10, <1>11

LEMMA DialAnsweredStep ==
  ASSUME WaInv, NEW r \in Refs, DialAnswered(r)
  PROVE  WaInv' /\ WaStep
<1>1. /\ WaOk(wa, http, stream, wleg) /\ wa \in WaDriver /\ http \in WaHttp
      /\ stream \in Seq(WaEvent) /\ wleg \in [Refs -> WaLegs]
      /\ WaLegsOf(wa, http, wleg) /\ ActiveOf(wa, http, wleg) /\ RequestsOf(wa, http, wleg)
      /\ WaOffersOf(wa, wleg) /\ EventsOf(wa, stream, wleg)
  BY WaNow DEF WaInv, WaHolds
<1>2. PICK f : f = [wa EXCEPT !.active = r, !.reserving = FALSE, !.early = <<>>]
  OBVIOUS
<1>3. PICK b : b = Tell(f, r, "dialing")
  OBVIOUS
<1>4. PICK h : h = [http EXCEPT !.dial = "idle"]
  OBVIOUS
<1>5. /\ wa.reserving /\ http.dial = r /\ wa' = Replay(b, wa.early) /\ http' = h
      /\ stream' = stream /\ wleg' = wleg
  BY <1>2, <1>3, <1>4 DEF DialAnswered
<1>6. r # NoRef /\ r # "idle" /\ wa.active = NoRef
  BY <1>1, <1>5, RefsAssumption, DialAssumption DEF ActiveOf
<1>7. h \in WaHttp /\ h.dial = "idle" /\ h.accept = http.accept /\ h.deletes = http.deletes
  BY <1>1, <1>4 DEF WaHttp
<1>8. <<>> \in Seq(WaEvent)
  OBVIOUS
<1>9. /\ f \in WaDriver /\ f.service = wa.service /\ f.active = r /\ f.reserving = FALSE
      /\ f.early = <<>> /\ f.offers = wa.offers /\ f.ending = wa.ending
      /\ f.terminal = wa.terminal /\ f.told = wa.told /\ f.media = wa.media
  BY <1>1, <1>2, <1>8 DEF WaDriver
<1>10. /\ b \in WaDriver /\ Rest(f, b) /\ b.media = f.media
       /\ \A c \in Refs : c # r => b.told[c] = f.told[c]
       /\ b.told[r] # "ended"
  BY <1>3, <1>6, <1>9, TellIs
<1>11. /\ r \notin wa.ending \cup wa.terminal /\ wleg[r] \notin {"none", "offered", "gone"}
       /\ wa.told[r] # "ended" /\ r \notin wa.offers
  BY <1>1, <1>5 DEF RequestsOf, WaLegsOf, WaOffersOf
<1>12. /\ b.active = r /\ b.reserving = FALSE /\ b.early = <<>> /\ b.offers = wa.offers
       /\ b.ending = wa.ending /\ b.terminal = wa.terminal /\ b.media = wa.media
       /\ \A c \in Refs : b.told[c] = "ended" <=> wa.told[c] = "ended"
  BY <1>9, <1>10, <1>11 DEF Rest
<1>13. \A c \in Refs : wleg[c] \in WaOurs => c = r
  BY <1>1, <1>5, <1>6, NoActiveNoLeg
<1>14. WaLegsOf(b, h, wleg) /\ ActiveOf(b, h, wleg)
  BY <1>1, <1>7, <1>11, <1>12, <1>13 DEF WaLegsOf, ActiveOf
<1>15. RequestsOf(b, h, wleg)
  BY <1>1, <1>6, <1>7, <1>12, DialAssumption DEF RequestsOf
<1>16. WaOffersOf(b, wleg)
  BY <1>1, <1>12 DEF WaOffersOf, WaDriver
<1>17. EventsOf(b, stream, wleg)
  <2>1. \A e : IsTrue(e, wa, wleg) => IsTrue(e, b, wleg)
    BY <1>12 DEF IsTrue
  <2>2. In(stream) \subseteq WaEvent
    BY <1>1, InOf
  <2>3. \A e \in In(stream) : e.ref \in Refs
    BY <2>2 DEF WaEvent
  <2>4. \A e \in In(stream) : e.kind = "incoming" => e.ref # r
    BY <1>1, <1>11 DEF EventsOf
  <2>5. In(b.early) = {}
    BY <1>12 DEF In
  <2>. QED  BY <1>1, <1>12, <2>1, <2>3, <2>4, <2>5 DEF EventsOf
<1>18. WaOk(b, h, stream, wleg)
  BY <1>10, <1>14, <1>15, <1>16, <1>17 DEF WaOk, WaHolds
<1>19. \A e \in In(wa.early) : IsTrue(e, b, wleg) /\ e.kind # "incoming"
  BY <1>1, <1>12 DEF EventsOf, IsTrue
<1>20. wa.early \in Seq(WaEvent)
  BY <1>1 DEF WaDriver
<1>21. WaOk(wa', h, stream, wleg) /\ Outcome(b, wa', wleg)
  BY <1>1, <1>5, <1>6, <1>7, <1>12, <1>18, <1>19, <1>20, ReplayKeeps
<1>22. WaInv'
  BY <1>1, <1>5, <1>7, <1>21, WaPrime
<1>23. ~Free(wa)
  BY <1>5 DEF Free
<1>24. CASE /\ wa'.active = b.active
            /\ \A c \in Refs : wa'.told[c] = "ended" <=> b.told[c] = "ended"
  <2>1. ~Free(wa)'
    BY <1>6, <1>12, <1>24 DEF Free
  <2>. QED  BY <1>5, <1>12, <1>22, <1>24, <2>1, WaQuiet
<1>25. CASE /\ wleg[b.active] \in {"down", "gone"}
            /\ \A c \in Refs : wa'.told[c] = "ended" <=> c = b.active \/ b.told[c] = "ended"
  <2>1. wleg[r] \notin WaOurs
    BY <1>12, <1>25 DEF WaOurs
  <2>2. \A c \in Refs : wleg[c] \notin WaOurs
    BY <1>13, <2>1
  <2>3. \A c \in Refs : wa'.told[c] = "ended" <=> c = r \/ wa.told[c] = "ended"
    BY <1>12, <1>25
  <2>4. WaStep
    BY <1>5, <1>23, <2>1, <2>2, <2>3, WaEndReported
  <2>. QED  BY <1>22, <2>4
<1>. QED  BY <1>21, <1>24, <1>25 DEF Outcome

LEMMA DialFailsStep ==
  ASSUME WaInv, DialFails
  PROVE  WaInv' /\ WaStep
<1>1. /\ WaOk(wa, http, stream, wleg) /\ wa \in WaDriver /\ http \in WaHttp
      /\ stream \in Seq(WaEvent) /\ wleg \in [Refs -> WaLegs]
      /\ WaLegsOf(wa, http, wleg) /\ ActiveOf(wa, http, wleg) /\ RequestsOf(wa, http, wleg)
      /\ WaOffersOf(wa, wleg) /\ EventsOf(wa, stream, wleg)
  BY WaNow DEF WaInv, WaHolds
<1>2. PICK f : f = [wa EXCEPT !.reserving = FALSE]
  OBVIOUS
<1>3. PICK t : t = Fault(f)
  OBVIOUS
<1>4. wa.reserving /\ wa' = t /\ http' = http /\ stream' = stream /\ wleg' = wleg
  BY <1>2, <1>3 DEF DialFails
<1>5. wa.active = NoRef
  BY <1>1, <1>4 DEF ActiveOf
<1>6. /\ f \in WaDriver /\ f.service = wa.service /\ f.active = wa.active /\ f.reserving = FALSE
      /\ f.early = wa.early /\ f.offers = wa.offers /\ f.ending = wa.ending
      /\ f.terminal = wa.terminal /\ f.told = wa.told /\ f.media = wa.media
  BY <1>1, <1>2 DEF WaDriver
<1>7. t \in WaDriver /\ Alike(f, t) /\ ~Serving(t)
  BY <1>3, <1>5, <1>6, FaultIs
<1>8. /\ t.active = NoRef /\ t.early = wa.early /\ t.offers = wa.offers /\ t.ending = wa.ending
      /\ t.terminal = wa.terminal
      /\ \A r \in Refs : t.told[r] = "ended" <=> wa.told[r] = "ended"
      /\ \A r \in wa.ending \cup wa.terminal : t.media[r] \in {wa.media[r], "off"}
  BY <1>5, <1>6, <1>7 DEF Alike
<1>9. WaLegsOf(t, http, wleg) /\ ActiveOf(t, http, wleg)
  BY <1>1, <1>5, <1>8 DEF WaLegsOf, ActiveOf
<1>10. RequestsOf(t, http, wleg)
  BY <1>1, <1>5, <1>7, <1>8 DEF RequestsOf
<1>11. WaOffersOf(t, wleg)
  BY <1>1, <1>8 DEF WaOffersOf, WaDriver
<1>12. EventsOf(t, stream, wleg)
  <2>1. \A e : IsTrue(e, wa, wleg) => IsTrue(e, t, wleg)
    BY <1>8 DEF IsTrue
  <2>2. In(stream) \subseteq WaEvent
    BY <1>1, InOf
  <2>3. \A e \in In(stream) : e.ref \in Refs
    BY <2>2 DEF WaEvent
  <2>. QED  BY <1>1, <1>5, <1>8, <2>1, <2>3 DEF EventsOf
<1>13. WaOk(t, http, stream, wleg)
  BY <1>7, <1>9, <1>10, <1>11, <1>12 DEF WaOk, WaHolds
<1>14. WaInv'
  BY <1>1, <1>4, <1>13, WaPrime
<1>15. ~Free(wa)'
  BY <1>4, <1>7 DEF Free, Serving
<1>16. WaStep
  BY <1>4, <1>8, <1>15, WaQuiet
<1>. QED  BY <1>14, <1>16

LEMMA AcceptStep ==
  ASSUME WaInv, NEW r \in Refs, Accept(r)
  PROVE  WaInv' /\ WaStep
<1>1. /\ WaOk(wa, http, stream, wleg) /\ wa \in WaDriver /\ http \in WaHttp
      /\ stream \in Seq(WaEvent) /\ wleg \in [Refs -> WaLegs]
      /\ WaLegsOf(wa, http, wleg) /\ ActiveOf(wa, http, wleg) /\ RequestsOf(wa, http, wleg)
      /\ WaOffersOf(wa, wleg) /\ EventsOf(wa, stream, wleg)
  BY WaNow DEF WaInv, WaHolds
<1>2. /\ Free(wa) /\ wa.active = NoRef /\ Serving(wa) /\ ~wa.reserving /\ r \in wa.offers
      /\ stream' = stream /\ wleg' = wleg
      /\ wa' = [wa EXCEPT !.active = r, !.offers = @ \ {r}] /\ http' = [http EXCEPT !.accept = r]
  BY DEF Accept, Free
<1>3. /\ wa' \in WaDriver /\ wa'.service = wa.service /\ wa'.active = r /\ ~wa'.reserving
      /\ wa'.early = wa.early /\ wa'.offers = wa.offers \ {r} /\ wa'.ending = wa.ending
      /\ wa'.terminal = wa.terminal /\ wa'.told = wa.told /\ wa'.media = wa.media
  BY <1>1, <1>2 DEF WaDriver
<1>4. http' \in WaHttp /\ http'.dial = http.dial /\ http'.accept = r /\ http'.deletes = http.deletes
  BY <1>1, <1>2 DEF WaHttp
<1>5. http.dial = "idle" /\ r # NoRef /\ wleg[r] \in {"offered", "gone"} /\ wa.told[r] # "ended"
  BY <1>1, <1>2, RefsAssumption DEF RequestsOf, WaOffersOf
<1>6. \A c \in Refs : wleg[c] \notin WaOurs /\ c # "idle"
  BY <1>1, <1>2, <1>5, NoActiveNoLeg, DialAssumption
<1>7. WaLegsOf(wa', http', wleg) /\ ActiveOf(wa', http', wleg) /\ WaOffersOf(wa', wleg)
  BY <1>1, <1>3, <1>4, <1>5, <1>6 DEF WaLegsOf, ActiveOf, WaOffersOf
<1>8. RequestsOf(wa', http', wleg)
  BY <1>1, <1>3, <1>4, <1>5, <1>6 DEF RequestsOf
<1>9. \A e : IsTrue(e, wa, wleg) => IsTrue(e, wa', wleg)
  BY <1>3 DEF IsTrue
<1>10. EventsOf(wa', stream, wleg)
  BY <1>1, <1>2, <1>3, <1>9 DEF EventsOf
<1>11. WaOk(wa', http', stream, wleg)
  BY <1>3, <1>7, <1>8, <1>10 DEF WaOk, WaHolds
<1>12. WaInv'
  BY <1>1, <1>2, <1>4, <1>11, WaPrime
<1>13. WaStep
  BY <1>2, <1>3, WaQuiet
<1>. QED  BY <1>12, <1>13

LEMMA AcceptSettlesStep ==
  ASSUME WaInv, NEW r \in Refs, AcceptSettles(r)
  PROVE  WaInv' /\ WaStep
<1>1. /\ WaOk(wa, http, stream, wleg) /\ wa \in WaDriver /\ http \in WaHttp
      /\ stream \in Seq(WaEvent) /\ wleg \in [Refs -> WaLegs]
      /\ WaLegsOf(wa, http, wleg) /\ ActiveOf(wa, http, wleg) /\ RequestsOf(wa, http, wleg)
      /\ WaOffersOf(wa, wleg) /\ EventsOf(wa, stream, wleg)
  BY WaNow DEF WaInv, WaHolds
<1>2. PICK h : h = [http EXCEPT !.accept = NoRef]
  OBVIOUS
<1>3. h \in WaHttp /\ h.dial = http.dial /\ h.accept = NoRef /\ h.deletes = http.deletes
  BY <1>1, <1>2 DEF WaHttp
<1>4. http.accept = r /\ http' = h /\ stream' = stream /\ r # NoRef
  BY <1>2, RefsAssumption DEF AcceptSettles
<1>5. ASSUME NEW l \in [Refs -> WaLegs], WaLegsOf(wa, h, l), ActiveOf(wa, h, l), WaOffersOf(wa, l),
             EventsOf(wa, stream, l), \A c \in Refs : wleg[c] # "none" => l[c] # "none",
             http.dial \in Refs => l[http.dial] = wleg[http.dial]
      PROVE  WaOk(wa, h, stream, l)
  <2>1. RequestsOf(wa, h, l)
    BY <1>1, <1>3, <1>5 DEF RequestsOf
  <2>. QED  BY <1>1, <1>5, <2>1 DEF WaOk, WaHolds
<1>6. CASE wleg' = wleg /\ wa' = Fault(wa)
  <2>1. WaLegsOf(wa, h, wleg) /\ ActiveOf(wa, h, wleg)
    BY <1>1, <1>3 DEF WaLegsOf, ActiveOf
  <2>2. WaOk(wa, h, stream, wleg)
    BY <1>1, <1>5, <2>1
  <2>3. WaOk(wa', h, stream, wleg) /\ Outcome(wa, wa', wleg)
    BY <1>1, <1>3, <1>6, <2>2, FaultKeeps
  <2>. QED  BY <1>1, <1>3, <1>4, <1>6, <2>3, WaSettled
<1>7. CASE wleg[r] = "offered" /\ wleg' = [wleg EXCEPT ![r] = "up"] /\ wa' \in {wa, Fault(wa)}
  <2>1. PICK l : l = [wleg EXCEPT ![r] = "up"]
    OBVIOUS
  <2>2. /\ l \in [Refs -> WaLegs] /\ l[r] = "up" /\ wleg' = l
        /\ \A c \in Refs \ {r} : l[c] = wleg[c]
    BY <1>1, <1>7, <2>1 DEF WaLegs, WaOurs
  <2>3. /\ wa.active = r /\ http.dial = "idle" /\ wa.told[r] # "ended" /\ r \notin wa.offers
        /\ r # "idle"
    BY <1>1, <1>4, <1>7, DialAssumption DEF RequestsOf, ActiveOf
  <2>4. \A c \in Refs : wleg[c] \notin WaOurs
    BY <1>1, <1>7, <2>3, DialAssumption DEF WaLegsOf, WaOurs
  <2>5. WaLegsOf(wa, h, l)
    <3>1. \A c \in Refs : l[c] \in WaOurs => wa.active = c
      BY <2>2, <2>3, <2>4
    <3>2. \A c \in Refs : wa.told[c] = "ended" => c \in wa.terminal /\ l[c] \in {"down", "gone"}
      BY <1>1, <2>2, <2>3 DEF WaLegsOf
    <3>3. wa.ending \cup wa.terminal \subseteq Refs
      BY <1>1 DEF WaDriver
    <3>4. \A c \in wa.ending \cup wa.terminal : l[c] # "none" /\ wa.media[c] \in {"none", "off"}
      BY <1>1, <2>2, <3>3 DEF WaLegsOf
    <3>. QED  BY <3>1, <3>2, <3>4 DEF WaLegsOf
  <2>6. ActiveOf(wa, h, l)
    BY <1>1, <1>3, <2>2, <2>3 DEF ActiveOf
  <2>7. WaOffersOf(wa, l)
    BY <1>1, <2>2, <2>3 DEF WaOffersOf, WaDriver
  <2>8. EventsOf(wa, stream, l)
    <3>1. In(stream) \subseteq WaEvent /\ In(wa.early) \subseteq WaEvent
      BY <1>1, InOf DEF WaDriver
    <3>2. \A e \in WaEvent : IsTrue(e, wa, wleg) => IsTrue(e, wa, l)
      BY <1>7, <2>2 DEF IsTrue, WaEvent
    <3>3. \A e \in In(stream) : e.kind = "incoming" => e.ref \in Refs \ {r}
      BY <1>1, <2>3, <3>1 DEF EventsOf, WaEvent
    <3>. QED  BY <1>1, <2>2, <3>1, <3>2, <3>3 DEF EventsOf
  <2>9. WaOk(wa, h, stream, l)
    BY <1>5, <2>2, <2>3, <2>5, <2>6, <2>7, <2>8, DialAssumption
  <2>10. WaOk(wa', h, stream, l) /\ Alike(wa, wa')
    <3>1. CASE wa' = wa
      BY <2>9, <3>1 DEF Alike
    <3>2. CASE wa' = Fault(wa)
      BY <1>3, <1>1, <2>2, <2>9, <3>2, FaultKeeps
    <3>. QED  BY <1>7, <3>1, <3>2
  <2>11. WaInv'
    BY <1>1, <1>3, <1>4, <2>2, <2>10, WaPrime
  <2>12. ~Free(wa) /\ ~Free(wa)'
    BY <1>4, <2>3, <2>10 DEF Free, Alike
  <2>13. \A c \in Refs : wa'.told[c] = "ended" <=> wa.told[c] = "ended"
    BY <2>10 DEF Alike
  <2>14. wleg'[r] \in WaOurs /\ \A c \in Refs \ {r} : wleg'[c] \notin WaOurs
    BY <2>2, <2>4 DEF WaOurs
  <2>15. WaStep
    BY <2>3, <2>4, <2>12, <2>13, <2>14, WaPlaced
  <2>. QED  BY <2>11, <2>15
<1>. QED  BY <1>6, <1>7 DEF AcceptSettles

LEMMA RejectStep ==
  ASSUME WaInv, NEW r \in Refs, Reject(r)
  PROVE  WaInv' /\ WaStep
<1>1. /\ WaOk(wa, http, stream, wleg) /\ wa \in WaDriver /\ http \in WaHttp
      /\ stream \in Seq(WaEvent) /\ wleg \in [Refs -> WaLegs]
      /\ WaLegsOf(wa, http, wleg) /\ ActiveOf(wa, http, wleg) /\ RequestsOf(wa, http, wleg)
      /\ WaOffersOf(wa, wleg) /\ EventsOf(wa, stream, wleg)
  BY WaNow DEF WaInv, WaHolds
<1>2. /\ r \in wa.offers /\ wleg[r] = "offered" /\ wleg' = [wleg EXCEPT ![r] = "gone"]
      /\ wa' = [wa EXCEPT !.offers = @ \ {r}] /\ http' = http /\ stream' = stream
  BY DEF Reject
<1>3. /\ wa' \in WaDriver /\ wa'.service = wa.service /\ wa'.active = wa.active /\ wa'.reserving = wa.reserving
      /\ wa'.early = wa.early /\ wa'.offers = wa.offers \ {r} /\ wa'.ending = wa.ending
      /\ wa'.terminal = wa.terminal /\ wa'.told = wa.told /\ wa'.media = wa.media
  BY <1>1, <1>2 DEF WaDriver
<1>4. PICK l : l = wleg'
  OBVIOUS
<1>5. l \in [Refs -> WaLegs] /\ l[r] = "gone" /\ \A c \in Refs \ {r} : l[c] = wleg[c]
  BY <1>1, <1>2, <1>4 DEF WaLegs
<1>6. wa.active \in Refs \cup {NoRef} /\ wa.active # r /\ http.dial # r /\ r # NoRef
  BY <1>1, <1>2, RefsAssumption DEF ActiveOf, RequestsOf, WaDriver
<1>7. WaLegsOf(wa', http, l)
  <2>1. \A c \in Refs : l[c] \in WaOurs => wa'.active = c \/ http.dial = c
    BY <1>1, <1>3, <1>5 DEF WaLegsOf, WaOurs
  <2>2. \A c \in Refs : wa'.told[c] = "ended" => c \in wa'.terminal /\ l[c] \in {"down", "gone"}
    BY <1>1, <1>3, <1>5 DEF WaLegsOf
  <2>3. wa.ending \cup wa.terminal \subseteq Refs
    BY <1>1 DEF WaDriver
  <2>4. \A c \in wa'.ending \cup wa'.terminal : l[c] # "none" /\ wa'.media[c] \in {"none", "off"}
    BY <1>1, <1>3, <1>5, <2>3 DEF WaLegsOf
  <2>. QED  BY <2>1, <2>2, <2>4 DEF WaLegsOf
<1>8. ActiveOf(wa', http, l)
  BY <1>1, <1>3, <1>5, <1>6 DEF ActiveOf
<1>9. RequestsOf(wa', http, l)
  BY <1>1, <1>3, <1>5, <1>6 DEF RequestsOf, Serving, WaHttp
<1>10. WaOffersOf(wa', l)
  BY <1>1, <1>3, <1>5 DEF WaOffersOf, WaDriver
<1>11. EventsOf(wa', stream, l)
  <2>1. In(stream) \subseteq WaEvent /\ In(wa.early) \subseteq WaEvent
    BY <1>1, InOf DEF WaDriver
  <2>2. \A e \in WaEvent : IsTrue(e, wa, wleg) => IsTrue(e, wa', l)
    BY <1>2, <1>3, <1>5 DEF IsTrue, WaEvent
  <2>3. \A e \in In(stream) : e.kind = "incoming" => e.ref \in Refs \ {r}
    BY <1>1, <1>2, <2>1 DEF EventsOf, WaEvent
  <2>. QED  BY <1>1, <1>3, <1>5, <2>1, <2>2, <2>3 DEF EventsOf
<1>12. WaOk(wa', http', stream', wleg')
  BY <1>2, <1>3, <1>4, <1>7, <1>8, <1>9, <1>10, <1>11 DEF WaOk, WaHolds
<1>13. WaInv'
  BY <1>1, <1>2, <1>4, <1>5, <1>12, WaPrime
<1>14. \A c \in Refs : l[c] \in WaOurs <=> wleg[c] \in WaOurs
  BY <1>2, <1>5 DEF WaOurs
<1>15. WaStep
  <2>1. Free(wa)' => Free(wa)
    BY <1>3 DEF Free, Serving
  <2>. QED  BY <1>3, <1>4, <1>14, <2>1, WaQuiet
<1>. QED  BY <1>13, <1>15

\* The active call is ending: it has no media any more.
LEMMA EndingKeeps ==
  ASSUME NEW l \in [Refs -> WaLegs], NEW h \in WaHttp, NEW k \in WaHttp, NEW q \in Seq(WaEvent),
         NEW s, WaOk(s, h, q, l), NEW t \in WaDriver,
         k.dial = h.dial, k.accept = h.accept, k.deletes \subseteq t.ending,
         t.active = s.active, t.reserving = s.reserving, t.early = s.early, t.offers = s.offers,
         t.ending \subseteq s.ending \cup ({s.active} \ {NoRef}), s.ending \subseteq t.ending,
         t.terminal = s.terminal,
         \A r \in Refs : t.told[r] = "ended" <=> s.told[r] = "ended",
         \A r \in Refs : t.media[r] \in {s.media[r], "off"},
         s.active # NoRef => t.media[s.active] \in {"none", "off"},
         Serving(t) => Serving(s)
  PROVE  WaOk(t, k, q, l)
<1>1. /\ s \in WaDriver /\ WaLegsOf(s, h, l) /\ ActiveOf(s, h, l) /\ RequestsOf(s, h, l)
      /\ WaOffersOf(s, l) /\ EventsOf(s, q, l)
  BY DEF WaOk, WaHolds
<1>2. WaLegsOf(t, k, l)
  <2>1. \A r \in t.ending \cup t.terminal :
          r \in Refs /\ (r \in s.ending \cup s.terminal \/ (r = s.active /\ s.active # NoRef))
    BY <1>1 DEF WaDriver
  <2>2. \A r \in t.ending \cup t.terminal : l[r] # "none" /\ t.media[r] \in {"none", "off"}
    BY <1>1, <2>1 DEF WaLegsOf, ActiveOf
  <2>. QED  BY <1>1, <2>2 DEF WaLegsOf
<1>3. ActiveOf(t, k, l)
  BY <1>1 DEF ActiveOf, WaDriver
<1>4. RequestsOf(t, k, l)
  BY <1>1, DialAssumption DEF RequestsOf, ActiveOf
<1>5. WaOffersOf(t, l)
  BY <1>1 DEF WaOffersOf, WaDriver
<1>6. EventsOf(t, q, l)
  <2>1. In(q) \subseteq WaEvent
    BY InOf
  <2>2. \A e \in In(q) : e.ref \in Refs
    BY <2>1 DEF WaEvent
  <2>3. \A e : IsTrue(e, s, l) => IsTrue(e, t, l)
    BY DEF IsTrue
  <2>. QED  BY <1>1, <2>2, <2>3 DEF EventsOf
<1>. QED  BY <1>2, <1>3, <1>4, <1>5, <1>6 DEF WaOk, WaHolds

LEMMA HangUpStep ==
  ASSUME WaInv, NEW r \in Refs, HangUp(r)
  PROVE  WaInv' /\ WaStep
<1>1. /\ WaOk(wa, http, stream, wleg) /\ wa \in WaDriver /\ http \in WaHttp
      /\ stream \in Seq(WaEvent) /\ wleg \in [Refs -> WaLegs] /\ RequestsOf(wa, http, wleg)
  BY WaNow DEF WaInv, WaHolds
<1>2. PICK f : f = [wa EXCEPT !.ending = @ \cup {r}]
  OBVIOUS
<1>3. PICK m : m = MediaOff(f, r)
  OBVIOUS
<1>4. PICK t : t = Tell(m, r, "ending")
  OBVIOUS
<1>5. /\ wa.active = r /\ wa' = t /\ http' = [http EXCEPT !.deletes = @ \cup {r}]
      /\ stream' = stream /\ wleg' = wleg
  BY <1>2, <1>3, <1>4 DEF HangUp
<1>6. r # NoRef /\ wa.told[r] # "ended"
  BY <1>1, <1>5, RefsAssumption, ActiveIs
<1>7. /\ f \in WaDriver /\ f.service = wa.service /\ f.active = wa.active /\ f.reserving = wa.reserving
      /\ f.early = wa.early /\ f.offers = wa.offers /\ f.ending = wa.ending \cup {r}
      /\ f.terminal = wa.terminal /\ f.told = wa.told /\ f.media = wa.media
  BY <1>1, <1>2 DEF WaDriver
<1>8. /\ m \in WaDriver /\ Rest(f, m) /\ m.told = f.told
      /\ \A c \in Refs : m.media[c] \in {f.media[c], "off"}
      /\ m.media[r] \in {"none", "off"}
  BY <1>3, <1>6, <1>7, MediaOffIs
<1>9. /\ t \in WaDriver /\ Rest(m, t) /\ t.media = m.media
      /\ \A c \in Refs : c # r => t.told[c] = m.told[c]
      /\ t.told[r] # "ended"
  BY <1>4, <1>6, <1>8, TellIs
<1>10. /\ t.service = wa.service /\ t.active = wa.active /\ t.reserving = wa.reserving
       /\ t.early = wa.early /\ t.offers = wa.offers /\ t.ending = wa.ending \cup {r}
       /\ t.terminal = wa.terminal /\ t.media = m.media
       /\ \A c \in Refs : t.told[c] = "ended" <=> wa.told[c] = "ended"
       /\ \A c \in Refs : t.media[c] \in {wa.media[c], "off"}
  BY <1>6, <1>7, <1>8, <1>9 DEF Rest
<1>11. PICK k : k = http'
  OBVIOUS
<1>12. k \in WaHttp /\ k.dial = http.dial /\ k.accept = http.accept /\ k.deletes = http.deletes \cup {r}
  BY <1>1, <1>5, <1>11 DEF WaHttp
<1>13. k.deletes \subseteq t.ending
  BY <1>1, <1>10, <1>12 DEF RequestsOf
<1>14. (Serving(t) => Serving(wa)) /\ t.ending \subseteq wa.ending \cup ({wa.active} \ {NoRef})
  BY <1>5, <1>6, <1>10 DEF Serving
<1>15. WaOk(t, k, stream, wleg)
  BY <1>1, <1>5, <1>8, <1>9, <1>10, <1>12, <1>13, <1>14, EndingKeeps
<1>16. WaInv'
  BY <1>1, <1>5, <1>11, <1>12, <1>15, WaPrime
<1>17. WaStep
  <2>1. Free(wa)' => Free(wa)
    BY <1>5, <1>10 DEF Free, Serving
  <2>. QED  BY <1>5, <1>10, <2>1, WaQuiet
<1>. QED  BY <1>16, <1>17

LEMMA CloseStep ==
  ASSUME WaInv, CloseWhatsApp
  PROVE  WaInv' /\ WaStep
<1>1. /\ WaOk(wa, http, stream, wleg) /\ wa \in WaDriver /\ http \in WaHttp
      /\ stream \in Seq(WaEvent) /\ wleg \in [Refs -> WaLegs] /\ RequestsOf(wa, http, wleg)
  BY WaNow DEF WaInv, WaHolds
<1>2. wa.active \in Refs \cup {NoRef}
  BY <1>1 DEF WaDriver
<1>3. PICK m : m = MediaOff(wa, wa.active)
  OBVIOUS
<1>4. PICK t : t = [m EXCEPT !.service = "closed", !.ending = @ \cup ({wa.active} \ {NoRef})]
  OBVIOUS
<1>5. wa' = t /\ http' = http /\ stream' = stream /\ wleg' = wleg
  BY <1>3, <1>4 DEF CloseWhatsApp
<1>6. /\ m \in WaDriver /\ Rest(wa, m) /\ m.told = wa.told
      /\ \A c \in Refs : m.media[c] \in {wa.media[c], "off"}
      /\ wa.active # NoRef => m.media[wa.active] \in {"none", "off"}
  BY <1>1, <1>2, <1>3, MediaOffIs
<1>7. /\ t \in WaDriver /\ t.service = "closed" /\ t.active = m.active /\ t.reserving = m.reserving
      /\ t.early = m.early /\ t.offers = m.offers /\ t.ending = m.ending \cup ({wa.active} \ {NoRef})
      /\ t.terminal = m.terminal /\ t.told = m.told /\ t.media = m.media
  BY <1>2, <1>4, <1>6 DEF WaDriver
<1>8. ~Serving(t)
  BY <1>7 DEF Serving
<1>9. WaOk(t, http, stream, wleg)
  <2>1. /\ t.active = wa.active /\ t.reserving = wa.reserving /\ t.early = wa.early
        /\ t.offers = wa.offers /\ t.ending = wa.ending \cup ({wa.active} \ {NoRef})
        /\ t.terminal = wa.terminal /\ t.told = wa.told
        /\ \A c \in Refs : t.media[c] \in {wa.media[c], "off"}
        /\ wa.active # NoRef => t.media[wa.active] \in {"none", "off"}
    BY <1>6, <1>7 DEF Rest
  <2>2. http.deletes \subseteq t.ending
    BY <1>1, <2>1 DEF RequestsOf
  <2>. QED  BY <1>1, <1>7, <1>8, <2>1, <2>2, EndingKeeps
<1>10. WaInv'
  BY <1>1, <1>5, <1>9, WaPrime
<1>11. WaStep
  <2>1. ~Free(wa)'
    BY <1>5, <1>8 DEF Free, Serving
  <2>. QED  BY <1>5, <1>6, <1>7, <2>1, WaQuiet
<1>. QED  BY <1>10, <1>11

LEMMA DeleteAnsweredStep ==
  ASSUME WaInv, NEW r \in Refs, DeleteAnswered(r)
  PROVE  WaInv' /\ WaStep
<1>1. /\ WaOk(wa, http, stream, wleg) /\ wa \in WaDriver /\ http \in WaHttp
      /\ stream \in Seq(WaEvent) /\ wleg \in [Refs -> WaLegs]
      /\ WaLegsOf(wa, http, wleg) /\ ActiveOf(wa, http, wleg) /\ RequestsOf(wa, http, wleg)
      /\ WaOffersOf(wa, wleg) /\ EventsOf(wa, stream, wleg)
  BY WaNow DEF WaInv, WaHolds
<1>2. PICK h : h = [http EXCEPT !.deletes = @ \ {r}]
  OBVIOUS
<1>3. /\ r \in http.deletes /\ http' = h /\ stream' = stream /\ wleg' = wleg /\ r # NoRef
  BY <1>2, RefsAssumption DEF DeleteAnswered
<1>4. h \in WaHttp /\ h.dial = http.dial /\ h.accept = http.accept /\ h.deletes = http.deletes \ {r}
  BY <1>1, <1>2 DEF WaHttp
<1>5. r \in wa.ending
  BY <1>1, <1>3 DEF RequestsOf
<1>6. WaOk(wa, h, stream, wleg)
  <2>1. WaLegsOf(wa, h, wleg) /\ ActiveOf(wa, h, wleg) /\ RequestsOf(wa, h, wleg)
    BY <1>1, <1>4 DEF WaLegsOf, ActiveOf, RequestsOf
  <2>. QED  BY <1>1, <2>1 DEF WaOk, WaHolds
<1>7. CASE wa' = wa
  BY <1>1, <1>3, <1>4, <1>6, <1>7, WaSettled DEF Outcome
<1>8. CASE wa' = Tell(wa, r, "uncertain") /\ (r \notin wa.terminal \/ wa.active = r)
  <2>1. /\ wa' \in WaDriver /\ Rest(wa, wa') /\ wa'.media = wa.media
        /\ \A c \in Refs : c # r => wa'.told[c] = wa.told[c]
        /\ wa'.told[r] # "ended"
    BY <1>1, <1>3, <1>8, TellIs
  <2>2. wa.told[r] # "ended"
    BY <1>1, <1>3, <1>8 DEF WaLegsOf, ActiveOf
  <2>3. wa.ending \cup wa.terminal \subseteq Refs
    BY <1>1 DEF WaDriver
  <2>4. Alike(wa, wa')
    BY <2>1, <2>2, <2>3 DEF Alike, Rest, Serving
  <2>5. WaOk(wa', h, stream, wleg) /\ Outcome(wa, wa', wleg)
    BY <1>1, <1>4, <1>6, <2>1, <2>4, AlikeKeeps, AlikeOutcome
  <2>. QED  BY <1>1, <1>3, <1>4, <2>5, WaSettled
<1>9. CASE /\ wleg[r] = "down"
           /\ wa' = Tell([wa EXCEPT !.terminal = @ \cup {r}, !.active = IF @ = r THEN NoRef ELSE @], r, "ended")
  <2>1. PICK a : a = IF wa.active = r THEN NoRef ELSE wa.active
    OBVIOUS
  <2>2. PICK f : f = [wa EXCEPT !.terminal = @ \cup {r}, !.active = a]
    OBVIOUS
  <2>3. a \in Refs \cup {NoRef}
    BY <1>1, <2>1 DEF WaDriver
  <2>4. /\ f \in WaDriver /\ f.service = wa.service /\ f.active = a /\ f.reserving = wa.reserving
        /\ f.early = wa.early /\ f.offers = wa.offers /\ f.ending = wa.ending
        /\ f.terminal = wa.terminal \cup {r} /\ f.told = wa.told /\ f.media = wa.media
    BY <1>1, <2>2, <2>3 DEF WaDriver
  <2>5. PICK t : t = wa' /\ t = Tell(f, r, "ended")
    <3>1. f = [wa EXCEPT !.terminal = @ \cup {r}, !.active = IF @ = r THEN NoRef ELSE @]
      BY <1>1, <2>1, <2>2 DEF WaDriver
    <3>. QED  BY <1>9, <3>1
  <2>6. /\ t \in WaDriver /\ Rest(f, t) /\ t.media = f.media
        /\ \A c \in Refs : c # r => t.told[c] = f.told[c]
        /\ t.told[r] = "ended"
    BY <1>3, <2>4, <2>5, TellIs
  <2>7. /\ t.service = wa.service /\ t.active = a /\ t.reserving = wa.reserving
        /\ t.early = wa.early /\ t.offers = wa.offers /\ t.ending = wa.ending
        /\ t.terminal = wa.terminal \cup {r} /\ t.media = wa.media
        /\ \A c \in Refs : t.told[c] = "ended" <=> c = r \/ wa.told[c] = "ended"
    BY <2>4, <2>6 DEF Rest
  <2>8. wleg[r] \notin WaOurs /\ r \notin wa.offers
    BY <1>1, <1>9 DEF WaOurs, WaOffersOf
  <2>9. WaLegsOf(t, h, wleg)
    BY <1>1, <1>4, <1>5, <1>9, <2>1, <2>7, <2>8 DEF WaLegsOf
  <2>10. ActiveOf(t, h, wleg)
    BY <1>1, <1>4, <2>1, <2>7 DEF ActiveOf, WaDriver
  <2>11. RequestsOf(t, h, wleg)
    BY <1>1, <1>4, <1>5, <1>9, <2>1, <2>7 DEF RequestsOf, Serving
  <2>12. WaOffersOf(t, wleg)
    BY <1>1, <2>7, <2>8 DEF WaOffersOf, WaDriver
  <2>13. EventsOf(t, stream, wleg)
    <3>1. In(stream) \subseteq WaEvent
      BY <1>1, InOf
    <3>2. \A e \in In(stream) : e.ref \in Refs /\ e.ref # NoRef
      BY <3>1, RefsAssumption DEF WaEvent
    <3>3. \A e : IsTrue(e, wa, wleg) => IsTrue(e, t, wleg)
      BY <2>7 DEF IsTrue
    <3>4. \A e \in In(stream) : e.kind = "incoming" => e.ref # r /\ t.active # e.ref
      BY <1>1, <1>9, <2>1, <2>7, <3>2 DEF EventsOf
    <3>. QED  BY <1>1, <2>7, <3>2, <3>3, <3>4 DEF EventsOf
  <2>14. WaOk(t, h, stream, wleg)
    BY <2>6, <2>9, <2>10, <2>11, <2>12, <2>13 DEF WaOk, WaHolds
  <2>15. WaInv'
    BY <1>1, <1>3, <1>4, <2>5, <2>14, WaPrime
  <2>16. \A c \in Refs : wa'.told[c] = "ended" <=> c = r \/ wa.told[c] = "ended"
    BY <2>5, <2>7
  <2>17. Free(wa) => Free(wa)'
    BY <1>3, <2>1, <2>5, <2>7 DEF Free, Serving
  <2>18. Free(wa)' => Free(wa) \/ \A c \in Refs : wleg[c] \notin WaOurs
    <3>1. CASE wa.active = r
      <4>1. http.dial = "idle"
        BY <1>1, <1>3, <3>1 DEF ActiveOf
      <4>. QED  BY <1>1, <2>8, <3>1, <4>1, DialAssumption DEF WaLegsOf
    <3>2. CASE wa.active # r
      BY <2>1, <2>5, <2>7, <3>2 DEF Free, Serving
    <3>. QED  BY <3>1, <3>2
  <2>19. WaStep
    BY <1>3, <2>8, <2>16, <2>17, <2>18, WaEndReported
  <2>. QED  BY <2>15, <2>19
<1>10. \/ wa' = wa
       \/ wa' = Tell(wa, r, "uncertain") /\ (r \notin wa.terminal \/ wa.active = r)
       \/ /\ wleg[r] = "down"
          /\ wa' = Tell([wa EXCEPT !.terminal = @ \cup {r}, !.active = IF @ = r THEN NoRef ELSE @], r, "ended")
  BY DEF DeleteAnswered
<1>. QED  BY <1>7, <1>8, <1>9, <1>10

-----------------------------------------------------------------------------
(* The actions: WaCalls and the person called *)

\* The leg of r moves, and an event says so.
LEMMA MovesKeeps ==
  ASSUME NEW l \in [Refs -> WaLegs], NEW h \in WaHttp, NEW q \in Seq(WaEvent), NEW s, WaOk(s, h, q, l),
         NEW r \in Refs, NEW to \in WaLegs, NEW m \in [Refs -> WaLegs],
         m[r] = to, \A c \in Refs \ {r} : m[c] = l[c],
         NEW k \in WaHttp, k.accept = h.accept, k.deletes = h.deletes,
         k.dial = h.dial \/ (k.dial = r /\ h.dial = "sent"),
         NEW e \in WaEvent, e.ref = r,
         to # "none", to = "offered" => l[r] \in {"none", "offered"},
         to \in WaOurs => s.active = r \/ k.dial = r,
         k.dial = r => to \notin {"offered", "gone"} /\ r \notin s.ending \cup s.terminal,
         l[r] \in {"down", "gone"} => to = l[r],
         l[r] = "offered" <=> to = "gone",
         e.kind = "sure" => to \in {"down", "gone"},
         e.kind = "claimed" => to = "down" \/ r \in s.ending,
         e.kind = "incoming" => to = "offered" /\ l[r] = "none"
  PROVE  WaOk(s, k, Append(q, e), m) /\ Append(q, e) \in Seq(WaEvent)
<1>1. /\ s \in WaDriver /\ WaLegsOf(s, h, l) /\ ActiveOf(s, h, l) /\ RequestsOf(s, h, l)
      /\ WaOffersOf(s, l) /\ EventsOf(s, q, l)
  BY DEF WaOk, WaHolds
<1>2. s.ending \cup s.terminal \subseteq Refs /\ s.offers \subseteq Refs /\ s.active \in Refs \cup {NoRef}
  BY <1>1 DEF WaDriver
<1>3. WaLegsOf(s, k, m)
  <2>1. \A c \in Refs : m[c] \in WaOurs => s.active = c \/ k.dial = c
    BY <1>1, DialAssumption DEF WaLegsOf
  <2>2. \A c \in Refs : s.told[c] = "ended" => c \in s.terminal /\ m[c] \in {"down", "gone"}
    BY <1>1 DEF WaLegsOf
  <2>3. \A c \in s.ending \cup s.terminal : m[c] # "none" /\ s.media[c] \in {"none", "off"}
    BY <1>1, <1>2 DEF WaLegsOf
  <2>. QED  BY <2>1, <2>2, <2>3 DEF WaLegsOf
<1>4. ActiveOf(s, k, m)
  <2>1. ASSUME s.active # NoRef
        PROVE  /\ ~s.reserving /\ h.dial = "idle" /\ s.told[s.active] # "ended"
               /\ l[s.active] # "none" /\ s.active \notin s.offers /\ s.active \in Refs
    BY <1>1, <1>2, <2>1 DEF ActiveOf
  <2>2. ASSUME s.active # NoRef
        PROVE  k.dial = "idle" /\ m[s.active] # "none"
    BY <2>1, <2>2
  <2>. QED  BY <2>1, <2>2 DEF ActiveOf
<1>5. RequestsOf(s, k, m)
  <2>1. k.dial # "idle" => s.reserving \/ ~Serving(s)
    BY <1>1 DEF RequestsOf
  <2>2. k.dial \in Refs => m[k.dial] \notin {"none", "offered", "gone"} /\ k.dial \notin s.ending \cup s.terminal
    BY <1>1 DEF RequestsOf
  <2>3. k.accept \in Refs \cup {NoRef}
    BY DEF WaHttp
  <2>4. k.accept # NoRef => m[k.accept] # "none" /\ (m[k.accept] = "offered" => s.active = k.accept)
    BY <1>1, <2>3 DEF RequestsOf
  <2>5. k.deletes \subseteq s.ending
    BY <1>1 DEF RequestsOf
  <2>. QED  BY <2>1, <2>2, <2>4, <2>5 DEF RequestsOf
<1>6. WaOffersOf(s, m)
  BY <1>1, <1>2 DEF WaOffersOf
<1>7. /\ Append(q, e) \in Seq(WaEvent) /\ In(Append(q, e)) = In(q) \cup {e}
      /\ Once("incoming", q) /\ (e.kind = "incoming" => e \notin In(q)) => Once("incoming", Append(q, e))
  BY AppendOf
<1>8. In(q) \subseteq WaEvent /\ In(s.early) \subseteq WaEvent
  BY <1>1, InOf DEF WaDriver
<1>9. \A u \in WaEvent : IsTrue(u, s, l) => IsTrue(u, s, m)
  <2>1. \A c \in Refs : l[c] \in {"down", "gone"} => m[c] = l[c]
    OBVIOUS
  <2>. QED  BY <2>1 DEF IsTrue, WaEvent
<1>10. IsTrue(e, s, m)
  BY DEF IsTrue
<1>11. \A u \in In(q) : u.kind = "incoming" => m[u.ref] \in {"offered", "gone"}
  <2>1. \A u \in In(q) : u.kind = "incoming" => u.ref \in Refs /\ l[u.ref] \in {"offered", "gone"}
    BY <1>1, <1>8 DEF EventsOf, WaEvent
  <2>2. \A c \in Refs : l[c] \in {"offered", "gone"} => m[c] \in {"offered", "gone"}
    OBVIOUS
  <2>. QED  BY <2>1, <2>2
<1>12. e.kind = "incoming" =>
         /\ e \notin In(q) /\ m[e.ref] \in {"offered", "gone"} /\ e.ref \notin s.offers
         /\ s.active # e.ref /\ s.told[e.ref] # "ended"
  BY <1>1, RefsAssumption DEF EventsOf, WaOffersOf, ActiveOf, WaLegsOf
<1>13. Once("incoming", Append(q, e))
  BY <1>1, <1>7, <1>12 DEF EventsOf
<1>14. EventsOf(s, Append(q, e), m)
  BY <1>1, <1>7, <1>8, <1>9, <1>10, <1>11, <1>12, <1>13 DEF EventsOf
<1>. QED  BY <1>1, <1>3, <1>4, <1>5, <1>6, <1>7, <1>14 DEF WaOk, WaHolds

LEMMA MovesStep ==
  ASSUME WaInv, NEW r \in Refs, NEW to \in WaLegs, NEW kinds \in SUBSET Kinds, Moves(r, to, kinds),
         NEW k \in WaHttp, http' = k, k.accept = http.accept, k.deletes = http.deletes,
         k.dial = http.dial \/ (k.dial = r /\ http.dial = "sent"),
         to # "none", to = "offered" => wleg[r] \in {"none", "offered"},
         to \in WaOurs => wa.active = r \/ k.dial = r,
         k.dial = r => to \notin {"offered", "gone"} /\ r \notin wa.ending \cup wa.terminal,
         wleg[r] \in {"down", "gone"} => to = wleg[r],
         wleg[r] = "offered" <=> to = "gone",
         "sure" \in kinds => to \in {"down", "gone"},
         "claimed" \in kinds => to = "down" \/ r \in wa.ending,
         "incoming" \in kinds => to = "offered" /\ wleg[r] = "none"
  PROVE  /\ WaInv' /\ wa' = wa /\ wleg'[r] = to
         /\ \A c \in Refs \ {r} : wleg'[c] = wleg[c]
<1>1. /\ WaOk(wa, http, stream, wleg) /\ http \in WaHttp
      /\ stream \in Seq(WaEvent) /\ wleg \in [Refs -> WaLegs]
  BY WaNow
<1>2. PICK kind \in kinds : stream' = Append(stream, [kind |-> kind, ref |-> r])
  BY DEF Moves
<1>3. PICK e : e = [kind |-> kind, ref |-> r]
  OBVIOUS
<1>4. e \in WaEvent /\ e.ref = r /\ e.kind = kind
  BY <1>3 DEF WaEvent
<1>5. PICK m : m = wleg'
  OBVIOUS
<1>6. wa' = wa /\ m = [wleg EXCEPT ![r] = to]
  BY <1>5 DEF Moves
<1>7. m \in [Refs -> WaLegs] /\ m[r] = to /\ \A c \in Refs \ {r} : m[c] = wleg[c]
  BY <1>1, <1>6
<1>8. /\ e.kind = "sure" => to \in {"down", "gone"}
      /\ e.kind = "claimed" => to = "down" \/ r \in wa.ending
      /\ e.kind = "incoming" => to = "offered" /\ wleg[r] = "none"
  BY <1>2, <1>4
<1>9. WaOk(wa, k, Append(stream, e), m) /\ Append(stream, e) \in Seq(WaEvent)
  BY <1>1, <1>4, <1>7, <1>8, MovesKeeps
<1>10. WaInv'
  BY <1>2, <1>3, <1>5, <1>6, <1>7, <1>9, WaPrime
<1>. QED  BY <1>5, <1>6, <1>7, <1>10

\* Only one leg may be up.
LEMMA OneLeg ==
  ASSUME WaInv, NEW r \in Refs, wleg[r] \in WaOurs
  PROVE  /\ \A c \in Refs \ {r} : wleg[c] \notin WaOurs
         /\ wa.active = r \/ http.dial = r
         /\ http.dial = r => r \notin wa.ending \cup wa.terminal
<1>1. /\ wa \in WaDriver /\ http \in WaHttp
      /\ WaLegsOf(wa, http, wleg) /\ ActiveOf(wa, http, wleg) /\ RequestsOf(wa, http, wleg)
  BY WaNow DEF WaInv, WaHolds
<1>2. \A c \in Refs : c # "idle" /\ c # NoRef
  BY DialAssumption, RefsAssumption
<1>. QED  BY <1>1, <1>2 DEF WaLegsOf, ActiveOf, RequestsOf

LEMMA FallsStep ==
  ASSUME WaInv, NEW r \in Refs, wleg[r] \in WaOurs, http' = http, Moves(r, "down", {"sure", "claimed", "unsure"})
  PROVE  WaInv' /\ WaStep
<1>1. PICK kinds \in SUBSET Kinds : kinds = {"sure", "claimed", "unsure"} /\ Moves(r, "down", kinds)
  BY DEF Kinds
<1>2. /\ \A c \in Refs \ {r} : wleg[c] \notin WaOurs
      /\ http.dial = r => r \notin wa.ending \cup wa.terminal
  BY OneLeg
<1>3. wleg[r] \notin {"none", "offered", "down", "gone"} /\ "down" \in WaLegs /\ "down" \notin WaOurs
  BY DEF WaOurs, WaLegs
<1>4. WaInv' /\ wa' = wa /\ wleg'[r] = "down" /\ \A c \in Refs \ {r} : wleg'[c] = wleg[c]
  BY <1>1, <1>2, <1>3, WaNow, MovesStep
<1>5. WaStep
  BY <1>2, <1>3, <1>4, WaDropped
<1>. QED  BY <1>4, <1>5

LEMMA DeleteReachesStep ==
  ASSUME WaInv, NEW r \in Refs, DeleteReaches(r)
  PROVE  WaInv' /\ WaStep
BY FallsStep DEF DeleteReaches

LEMMA DialReachesStep ==
  ASSUME WaInv, NEW r \in Refs, DialReaches(r)
  PROVE  WaInv' /\ WaStep
<1>1. /\ WaOk(wa, http, stream, wleg) /\ wa \in WaDriver /\ http \in WaHttp
      /\ WaLegsOf(wa, http, wleg) /\ ActiveOf(wa, http, wleg) /\ RequestsOf(wa, http, wleg)
  BY WaNow DEF WaInv, WaHolds
<1>2. PICK kinds \in SUBSET Kinds : kinds = {"dialing"} /\ Moves(r, "asked", kinds)
  BY DEF Kinds, DialReaches
<1>3. PICK k : k = http' /\ k = [http EXCEPT !.dial = r]
  BY DEF DialReaches
<1>4. k \in WaHttp /\ k.dial = r /\ k.accept = http.accept /\ k.deletes = http.deletes
  BY <1>1, <1>3 DEF WaHttp
<1>5. http.dial = "sent" /\ wleg[r] = "none" /\ "asked" \in WaOurs /\ "asked" \in WaLegs
  BY DEF DialReaches, WaOurs, WaLegs
<1>6. r \notin wa.ending \cup wa.terminal /\ wa.told[r] # "ended"
  BY <1>1, <1>5 DEF WaLegsOf
<1>7. WaInv' /\ wa' = wa /\ wleg'[r] = "asked" /\ \A c \in Refs \ {r} : wleg'[c] = wleg[c]
  <2>1. /\ k.dial = http.dial \/ (k.dial = r /\ http.dial = "sent")
        /\ wa.active = r \/ k.dial = r
        /\ http' = k
    BY <1>3, <1>4, <1>5
  <2>. QED  BY <1>2, <1>4, <1>5, <1>6, <2>1, MovesStep
<1>8. wa.active = NoRef /\ ~Free(wa)
  BY <1>1, <1>5 DEF ActiveOf, RequestsOf, Free
<1>9. \A c \in Refs : wleg[c] \notin WaOurs
  BY <1>1, <1>5, <1>8, WaNow, NoActiveNoLeg, DialAssumption
<1>10. ~Free(wa)'
  BY <1>7, <1>8 DEF Free, Serving
<1>11. WaStep
  BY <1>5, <1>6, <1>7, <1>8, <1>9, <1>10, WaPlaced
<1>. QED  BY <1>7, <1>11

LEMMA WaPeerStep ==
  ASSUME WaInv, NEW r \in Refs, WaPeer(r)
  PROVE  WaInv' /\ WaStep
<1>1. /\ WaOk(wa, http, stream, wleg) /\ wa \in WaDriver /\ http \in WaHttp
      /\ WaLegsOf(wa, http, wleg) /\ ActiveOf(wa, http, wleg) /\ RequestsOf(wa, http, wleg)
  BY WaNow DEF WaInv, WaHolds
<1>2. http' = http
  BY DEF WaPeer
<1>3. ASSUME NEW to \in WaLegs, to \in WaOurs <=> wleg[r] \in WaOurs, wa' = wa, wleg'[r] = to,
             \A c \in Refs \ {r} : wleg'[c] = wleg[c]
      PROVE  WaStep
  <2>1. \A c \in Refs : wleg'[c] \in WaOurs <=> wleg[c] \in WaOurs
    BY <1>3
  <2>2. Free(wa)' => Free(wa)
    BY <1>3 DEF Free, Serving
  <2>. QED  BY <1>3, <2>1, <2>2, WaQuiet
<1>4. CASE wleg[r] = "none" /\ Moves(r, "offered", {"incoming"})
  <2>1. PICK kinds \in SUBSET Kinds : kinds = {"incoming"} /\ Moves(r, "offered", kinds)
    BY <1>4 DEF Kinds
  <2>2. "offered" \in WaLegs /\ "offered" \notin WaOurs /\ wleg[r] \notin WaOurs /\ http.dial # r
    BY <1>1, <1>4 DEF WaLegs, WaOurs, RequestsOf
  <2>3. WaInv' /\ wa' = wa /\ wleg'[r] = "offered" /\ \A c \in Refs \ {r} : wleg'[c] = wleg[c]
    BY <1>1, <1>2, <1>4, <2>1, <2>2, MovesStep
  <2>. QED  BY <1>3, <2>2, <2>3
<1>5. CASE wleg[r] = "offered" /\ Moves(r, "gone", {"sure"})
  <2>1. PICK kinds \in SUBSET Kinds : kinds = {"sure"} /\ Moves(r, "gone", kinds)
    BY <1>5 DEF Kinds
  <2>2. "gone" \in WaLegs /\ "gone" \notin WaOurs /\ wleg[r] \notin WaOurs /\ http.dial # r
    BY <1>1, <1>5 DEF WaLegs, WaOurs, RequestsOf
  <2>3. WaInv' /\ wa' = wa /\ wleg'[r] = "gone" /\ \A c \in Refs \ {r} : wleg'[c] = wleg[c]
    BY <1>1, <1>2, <1>5, <2>1, <2>2, MovesStep
  <2>. QED  BY <1>3, <2>2, <2>3
<1>6. CASE wleg[r] = "asked" /\ Moves(r, "up", {"connected"})
  <2>1. PICK kinds \in SUBSET Kinds : kinds = {"connected"} /\ Moves(r, "up", kinds)
    BY <1>6 DEF Kinds
  <2>2. "up" \in WaLegs /\ "up" \in WaOurs /\ wleg[r] \in WaOurs
    BY <1>6 DEF WaLegs, WaOurs
  <2>3. /\ wa.active = r \/ http.dial = r
        /\ http.dial = r => r \notin wa.ending \cup wa.terminal
    BY <2>2, OneLeg
  <2>4. WaInv' /\ wa' = wa /\ wleg'[r] = "up" /\ \A c \in Refs \ {r} : wleg'[c] = wleg[c]
    BY <1>1, <1>2, <1>6, <2>1, <2>2, <2>3, MovesStep
  <2>. QED  BY <1>3, <2>2, <2>4
<1>7. CASE wleg[r] \in WaOurs /\ Moves(r, "down", {"sure", "claimed", "unsure"})
  BY <1>2, <1>7, FallsStep
<1>. QED  BY <1>4, <1>5, <1>6, <1>7 DEF WaPeer

LEMMA WaGivesUpStep ==
  ASSUME WaInv, NEW r \in Refs, WaGivesUp(r)
  PROVE  WaInv' /\ WaStep
<1>1. http \in WaHttp /\ wleg \in [Refs -> WaLegs]
  BY WaNow
<1>2. PICK kinds : kinds = {"unsure"} \cup (IF r \in wa.ending THEN {"claimed"} ELSE {})
  OBVIOUS
<1>3. kinds \in SUBSET Kinds /\ ("claimed" \in kinds => r \in wa.ending) /\ "sure" \notin kinds /\ "incoming" \notin kinds
  BY <1>2 DEF Kinds
<1>4. http' = http /\ wleg[r] \in WaOurs /\ Moves(r, wleg[r], kinds)
  BY <1>2 DEF WaGivesUp
<1>5. /\ wa.active = r \/ http.dial = r
      /\ http.dial = r => r \notin wa.ending \cup wa.terminal
  BY <1>4, OneLeg
<1>6. PICK to \in WaLegs : to = wleg[r] /\ Moves(r, to, kinds)
  BY <1>1, <1>4
<1>7. to \notin {"none", "offered", "gone", "down"}
  BY <1>4, <1>6 DEF WaOurs
<1>8. WaInv' /\ wa' = wa /\ wleg'[r] = to /\ \A c \in Refs \ {r} : wleg'[c] = wleg[c]
  BY <1>1, <1>3, <1>4, <1>5, <1>6, <1>7, MovesStep
<1>9. \A c \in Refs : wleg'[c] = wleg[c]
  BY <1>6, <1>8
<1>10. Free(wa)' => Free(wa)
  BY <1>8 DEF Free, Serving
<1>. QED  BY <1>8, <1>9, <1>10, WaQuiet

-----------------------------------------------------------------------------
LEMMA WaStarts == WaInit => WaInv /\ WaContract!Init
<1> SUFFICES ASSUME WaInit PROVE WaInv /\ WaContract!Init
  OBVIOUS
<1>1. <<>> \in Seq(WaEvent) /\ In(<<>>) = {} /\ Once("incoming", <<>>)
  BY DEF In, Once
<1>2. /\ wa \in WaDriver /\ wa.active = NoRef /\ ~wa.reserving /\ wa.early = <<>> /\ wa.offers = {}
      /\ wa.ending = {} /\ wa.terminal = {} /\ Serving(wa)
      /\ \A r \in Refs : wa.told[r] = "nothing"
  BY <1>1 DEF WaInit, WaDriver, Serving
<1>3. http \in WaHttp /\ http.dial = "idle" /\ http.accept = NoRef /\ http.deletes = {}
  BY DEF WaInit, WaHttp
<1>4. wleg \in [Refs -> WaLegs] /\ \A r \in Refs : wleg[r] \notin WaOurs
  BY DEF WaInit, WaLegs, WaOurs
<1>5. stream = <<>>
  BY DEF WaInit
<1>6. WaLegsOf(wa, http, wleg) /\ ActiveOf(wa, http, wleg)
  BY <1>2, <1>3, <1>4 DEF WaLegsOf, ActiveOf
<1>7. RequestsOf(wa, http, wleg) /\ WaOffersOf(wa, wleg)
  BY <1>2, <1>3, DialAssumption DEF RequestsOf, WaOffersOf
<1>8. EventsOf(wa, stream, wleg)
  BY <1>1, <1>2, <1>5 DEF EventsOf
<1>9. WaInv
  BY <1>1, <1>2, <1>3, <1>4, <1>5, <1>6, <1>7, <1>8 DEF WaInv, WaTypeOK, WaHolds
<1>10. WaAlive = {} /\ WaOver = {} /\ WaFree = TRUE
  BY <1>2, <1>4 DEF WaAlive, WaOver, WaFree, Free
<1>11. WaContract!Init
  BY <1>10 DEF WaContract!Init, WaAlive, WaOver, WaFree
<1>. QED  BY <1>9, <1>11

LEMMA WaMoves ==
  ASSUME WaInv, WaNext
  PROVE  WaInv' /\ WaStep
<1>1. CASE Reads \/ DialFails \/ StreamLost \/ Dial \/ CloseWhatsApp
  BY <1>1, ReadsStep, DialFailsStep, StreamLostStep, DialStep, CloseStep
<1>2. ASSUME NEW r \in Refs, DialAnswered(r) \/ AcceptSettles(r) \/ DeleteAnswered(r)
      PROVE  WaInv' /\ WaStep
  BY <1>2, DialAnsweredStep, AcceptSettlesStep, DeleteAnsweredStep
<1>3. ASSUME NEW r \in Refs, MediaStep(r) \/ MediaLost(r) \/ Accept(r) \/ Reject(r) \/ HangUp(r)
      PROVE  WaInv' /\ WaStep
  BY <1>3, MediaStepStep, MediaLostStep, AcceptStep, RejectStep, HangUpStep
<1>4. ASSUME NEW r \in Refs, DialReaches(r) \/ DeleteReaches(r) \/ WaPeer(r) \/ WaGivesUp(r)
      PROVE  WaInv' /\ WaStep
  BY <1>4, DialReachesStep, DeleteReachesStep, WaPeerStep, WaGivesUpStep
<1>. QED  BY <1>1, <1>2, <1>3, <1>4 DEF WaNext, WaProgress

LEMMA WaKeeps == WaInv /\ [WaNext]_waVars => WaInv' /\ WaStep
<1>1. ASSUME WaInv, UNCHANGED waVars
      PROVE  WaInv' /\ WaStep
  <2>1. WaInv'
    BY <1>1, WaNow, WaPrime DEF waVars
  <2>2. WaStep
    BY <1>1, WaQuiet DEF waVars, Free, Serving
  <2>. QED  BY <2>1, <2>2
<1>. QED  BY <1>1, WaMoves

-----------------------------------------------------------------------------
(* Both drivers *)

\* Whichever channel is configured, its driver takes no dial while a leg may be up, has
\* one leg at most, and reports `ended` only of a leg that is down and never takes it back,
\* through lost connections, late answers, faults and close (VoiceDriver and VoiceEvents of
\* packages/runtime/src/types.ts).
THEOREM DriversImplementContract == VoiceSpec => DriversKeepContract
<1>1. VoiceInit => TgInv /\ TgContract!Init /\ WaInv /\ WaContract!Init
  BY TgStarts, WaStarts DEF VoiceInit
<1>2. [VoiceNext]_driverVars => [TgNext]_tgVars /\ [WaNext]_waVars
  BY DEF VoiceNext, driverVars
<1>3. TgInv /\ [TgNext]_tgVars => TgInv' /\ [TgContract!Next]_(TgContract!vars)
  BY TgKeeps DEF TgStep
<1>4. WaInv /\ [WaNext]_waVars => WaInv' /\ [WaContract!Next]_(WaContract!vars)
  BY WaKeeps DEF WaStep
<1>. QED  BY <1>1, <1>2, <1>3, <1>4, PTL
     DEF VoiceSpec, DriversKeepContract, TelegramKeepsContract, WhatsAppKeepsContract, TgContract!Spec, WaContract!Spec
=============================================================================

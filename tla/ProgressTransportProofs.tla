---------------------- MODULE ProgressTransportProofs ----------------------
(***************************************************************************)
(* What a critical operation's messages and its result keep to, for every  *)
(* script of events, budget, poll limit and number of operations.          *)
(*                                                                         *)
(* A message of the running operation is in one of four places, which it    *)
(* passes in this order: the slot, the channel, the batch of a poll, and   *)
(* what is seen.  The invariant orders the messages of all four places      *)
(* together, and accounts for each published event that is in none.        *)
(***************************************************************************)
EXTENDS ProgressTransport, TLAPS

Msg == [op : Nat, what : {"event", "notice", "result", "other"}, at : Nat]

Elements(s) == {s[k] : k \in 1..Len(s)}

\* Events in the order of their publication, the notice, the result.
Before(m, n) ==
  \/ m.what = "event" /\ (n.what = "event" => m.at < n.at)
  \/ m.what = "notice" /\ n.what = "result"

Rising(s) == \A j, k \in 1..Len(s) :
  j < k /\ s[j].op = s[k].op /\ s[j].op # 0 => Before(s[j], s[k])

Below(S, T) == \A m \in S, n \in T : Before(m, n)

EventsIn(S) == {m.at : m \in {x \in S : x.what = "event"}}

\* A message of the last operation started.
Mine(m) == m.op = started /\ m.what # "other"

Queued == {m \in Elements(channel) : Mine(m)}

Pipe == Elements(seen) \union Elements(batch) \union Queued
          \union Elements(slot)

\* A snapshot gave way to one of its stream, and nothing afloat is between.
GaveWay(i, j, afloat, events) ==
  /\ i < j /\ events[i].kind # "reliable" /\ events[j].kind # "reliable"
  /\ events[i].stream = events[j].stream
  /\ \A k \in (i + 1)..(j - 1) : k \notin afloat

Accounted(n, afloat, logged, events) ==
  \A i \in 1..n :
    \/ i \in afloat \union logged
    \/ \E j \in 1..n :
         j \in afloat \union logged /\ GaveWay(i, j, afloat, events)

TypeInv ==
  /\ started \in Nat /\ operation \in {0, started}
  /\ worker \in {"None", "Publish", "Flush", "Report", "Exit"}
  /\ style \in {"slot", "direct"}
  /\ script \in Seq(Event) /\ published \in 0..Len(script)
  /\ sent \in 0..Retained /\ spilled \subseteq 1..published
  /\ slot \in Seq(Msg) /\ channel \in Seq(Msg)
  /\ batch \in Seq(Msg) /\ seen \in Seq(Msg)
  /\ ui \in {"Idle", "Polling", "Joining", "Waiting", "Gone"}
  /\ taken \in Nat /\ answered \in BOOLEAN

MessageInv ==
  /\ \A m \in Elements(channel) :
        m = Other \/ (m.op \in 1..started /\ m.what # "other")
  /\ \A m \in Elements(seen) \union Elements(batch) \union Elements(slot) :
        m.op = started /\ m.op # 0 /\ m.what \in {"event", "notice"}
  /\ EventsIn(Pipe) \subseteq 1..published

\* The result is the worker's last message, so who has read it has read all.
WorkerInv ==
  /\ worker # "None" => operation = started /\ started # 0
  /\ ui = "Gone" => worker = "None"
  /\ ui \in {"Idle", "Waiting", "Gone"} => batch = << >>
  /\ ui = "Joining" => operation # 0
  /\ answered => operation = 0
  /\ ui = "Joining" \/ (operation = 0 /\ ui # "Gone") =>
       worker \in {"Exit", "None"} /\ Queued = {}

StageInv ==
  /\ worker \in {"Publish", "Flush"} => \A m \in Pipe : m.what = "event"
  /\ worker = "Report" => \A m \in Pipe : m.what # "result"
  /\ slot # << >> =>
       /\ Len(slot) = 1 /\ worker \in {"Publish", "Flush"} /\ style = "slot"
       /\ slot[1].what = "event" /\ slot[1].at = published
       /\ script[published].kind = "middle"

OrderInv ==
  /\ Rising(seen) /\ Rising(batch) /\ Rising(channel)
  /\ Below(Elements(seen), Elements(batch)) /\ Below(Elements(seen), Queued)
  /\ Below(Elements(seen), Elements(slot)) /\ Below(Elements(batch), Queued)
  /\ Below(Elements(batch), Elements(slot)) /\ Below(Queued, Elements(slot))

AccountInv ==
  /\ Accounted(published, EventsIn(Pipe), spilled, script)
  /\ spilled # {} /\ worker \in {"Report", "Exit", "None"} =>
       \E m \in Pipe : m.what = "notice"
  /\ style = "direct" => spilled = {}

IInv == TypeInv /\ MessageInv /\ WorkerInv /\ StageInv /\ OrderInv /\ AccountInv
-----------------------------------------------------------------------------
(***************************************************************************)
(* Sequences of messages.                                                  *)
(***************************************************************************)
LEMMA NoElements == Elements(<< >>) = {} /\ Rising(<< >>)
BY DEF Elements, Rising

LEMMA OneElement ==
  ASSUME NEW m \in Msg
  PROVE  <<m>> \in Seq(Msg) /\ Elements(<<m>>) = {m} /\ Rising(<<m>>)
BY DEF Elements, Rising

\* Joining two sequences.
LEMMA Joined ==
  ASSUME NEW s \in Seq(Msg), NEW t \in Seq(Msg)
  PROVE  /\ s \o t \in Seq(Msg)
         /\ Elements(s \o t) = Elements(s) \union Elements(t)
         /\ /\ Rising(s) /\ Rising(t)
            /\ \A m \in Elements(s), n \in Elements(t) :
                 m.op = n.op /\ m.op # 0 => Before(m, n)
            => Rising(s \o t)
<1> DEFINE u == s \o t
<1>1. /\ u \in Seq(Msg) /\ Len(u) = Len(s) + Len(t)
      /\ \A k \in 1..Len(s) : u[k] = s[k]
      /\ \A k \in 1..Len(t) : u[Len(s) + k] = t[k]
      /\ \A k \in 1..Len(u) :
           \/ k \in 1..Len(s) /\ u[k] = s[k]
           \/ k - Len(s) \in 1..Len(t) /\ u[k] = t[k - Len(s)]
  OBVIOUS
<1> HIDE DEF u
<1>2. Elements(u) = Elements(s) \union Elements(t)
  <2>1. Elements(u) \subseteq Elements(s) \union Elements(t)
    BY <1>1 DEF Elements
  <2>2. Elements(s) \subseteq Elements(u)
    <3> SUFFICES ASSUME NEW k \in 1..Len(s) PROVE s[k] \in Elements(u)
      BY DEF Elements
    <3>1. k \in 1..Len(u) /\ u[k] = s[k]
      BY <1>1
    <3> QED BY <3>1 DEF Elements
  <2>3. Elements(t) \subseteq Elements(u)
    <3> SUFFICES ASSUME NEW k \in 1..Len(t) PROVE t[k] \in Elements(u)
      BY DEF Elements
    <3>1. Len(s) + k \in 1..Len(u) /\ u[Len(s) + k] = t[k]
      BY <1>1
    <3> QED BY <3>1 DEF Elements
  <2> QED BY <2>1, <2>2, <2>3
<1>3. ASSUME Rising(s), Rising(t),
             \A m \in Elements(s), n \in Elements(t) :
               m.op = n.op /\ m.op # 0 => Before(m, n)
      PROVE  Rising(u)
  <2> SUFFICES ASSUME NEW j \in 1..Len(u), NEW k \in 1..Len(u),
                      j < k, u[j].op = u[k].op, u[j].op # 0
               PROVE  Before(u[j], u[k])
    BY DEF Rising
  <2>1. CASE k \in 1..Len(s)
    <3>1. j \in 1..Len(s) /\ u[j] = s[j] /\ u[k] = s[k]
      BY <2>1, <1>1
    <3> QED BY <3>1, <2>1, <1>3 DEF Rising
  <2>2. CASE j \notin 1..Len(s)
    <3>1. /\ j - Len(s) \in 1..Len(t) /\ u[j] = t[j - Len(s)]
          /\ k - Len(s) \in 1..Len(t) /\ u[k] = t[k - Len(s)]
          /\ j - Len(s) < k - Len(s)
      BY <2>2, <1>1
    <3> QED BY <3>1, <1>3 DEF Rising
  <2>3. CASE j \in 1..Len(s) /\ k \notin 1..Len(s)
    <3>1. u[j] = s[j] /\ k - Len(s) \in 1..Len(t) /\ u[k] = t[k - Len(s)]
      BY <2>3, <1>1
    <3>2. u[j] \in Elements(s) /\ u[k] \in Elements(t)
      BY <2>3, <3>1 DEF Elements
    <3> QED BY <3>2, <1>3
  <2> QED BY <2>1, <2>2, <2>3
<1> QED BY <1>1, <1>2, <1>3 DEF u

LEMMA Appended ==
  ASSUME NEW s \in Seq(Msg), NEW m \in Msg
  PROVE  /\ Append(s, m) \in Seq(Msg)
         /\ Elements(Append(s, m)) = Elements(s) \union {m}
         /\ /\ Rising(s)
            /\ \A n \in Elements(s) : n.op = m.op /\ n.op # 0 => Before(n, m)
            => Rising(Append(s, m))
<1> DEFINE one == <<m>>
<1>1. Append(s, m) = s \o one
  OBVIOUS
<1>2. one \in Seq(Msg) /\ Elements(one) = {m} /\ Rising(one)
  BY OneElement
<1> HIDE DEF one
<1>3. /\ s \o one \in Seq(Msg)
      /\ Elements(s \o one) = Elements(s) \union Elements(one)
  BY <1>2, Joined
<1>4. ASSUME Rising(s),
             \A n \in Elements(s) : n.op = m.op /\ n.op # 0 => Before(n, m)
      PROVE  Rising(s \o one)
  BY <1>2, <1>4, Joined
<1> QED BY <1>1, <1>2, <1>3, <1>4

\* Taking the first message of a sequence.
LEMMA Taken ==
  ASSUME NEW s \in Seq(Msg), s # << >>
  PROVE  /\ Head(s) \in Msg /\ Tail(s) \in Seq(Msg)
         /\ Elements(s) = {Head(s)} \union Elements(Tail(s))
         /\ Rising(s) =>
              /\ Rising(Tail(s))
              /\ \A n \in Elements(Tail(s)) :
                   n.op = Head(s).op /\ n.op # 0 => Before(Head(s), n)
<1> DEFINE t == Tail(s)
<1>1. /\ t \in Seq(Msg) /\ Len(t) = Len(s) - 1 /\ Len(s) \in Nat \ {0}
      /\ \A k \in 1..Len(t) : t[k] = s[k + 1] /\ k + 1 \in 1..Len(s)
      /\ \A k \in 1..Len(s) : k = 1 \/ (k - 1 \in 1..Len(t) /\ s[k] = t[k - 1])
      /\ Head(s) = s[1] /\ s[1] \in Msg /\ 1 \in 1..Len(s)
  OBVIOUS
<1> HIDE DEF t
<1>2. Elements(s) = {Head(s)} \union Elements(t)
  <2>1. Elements(s) \subseteq {Head(s)} \union Elements(t)
    BY <1>1 DEF Elements
  <2>2. {Head(s)} \union Elements(t) \subseteq Elements(s)
    BY <1>1 DEF Elements
  <2> QED BY <2>1, <2>2
<1>3. ASSUME Rising(s)
      PROVE  /\ Rising(t)
             /\ \A n \in Elements(t) :
                  n.op = Head(s).op /\ n.op # 0 => Before(Head(s), n)
  <2>1. Rising(t)
    <3> SUFFICES ASSUME NEW j \in 1..Len(t), NEW k \in 1..Len(t),
                        j < k, t[j].op = t[k].op, t[j].op # 0
                 PROVE  Before(t[j], t[k])
      BY DEF Rising
    <3>1. /\ j + 1 \in 1..Len(s) /\ k + 1 \in 1..Len(s) /\ j + 1 < k + 1
          /\ t[j] = s[j + 1] /\ t[k] = s[k + 1]
      BY <1>1
    <3> QED BY <3>1, <1>3 DEF Rising
  <2>2. ASSUME NEW k \in 1..Len(t), t[k].op = Head(s).op, t[k].op # 0
        PROVE  Before(Head(s), t[k])
    <3>1. /\ 1 \in 1..Len(s) /\ k + 1 \in 1..Len(s) /\ 1 < k + 1
          /\ Head(s) = s[1] /\ t[k] = s[k + 1]
      BY <1>1
    <3> QED BY <3>1, <2>2, <1>3 DEF Rising
  <2> QED BY <2>1, <2>2 DEF Elements
<1> QED BY <1>1, <1>2, <1>3 DEF t
-----------------------------------------------------------------------------
(***************************************************************************)
(* Accounts of events.                                                     *)
(***************************************************************************)
LEMMA EventsOfUnion ==
  ASSUME NEW S, NEW T
  PROVE  EventsIn(S \union T) = EventsIn(S) \union EventsIn(T)
BY Zenon DEF EventsIn

LEMMA EventsOfOne ==
  ASSUME NEW m
  PROVE  /\ m.what = "event" => EventsIn({m}) = {m.at}
         /\ m.what # "event" => EventsIn({m}) = {}
BY Zenon DEF EventsIn

\* What leaves the pipe for the log stays accounted for.
LEMMA LoggedIsAccounted ==
  ASSUME NEW n, NEW afloat, NEW logged, NEW fewer, NEW more, NEW events,
         Accounted(n, afloat, logged, events),
         fewer \subseteq afloat, afloat \union logged \subseteq fewer \union more
  PROVE  Accounted(n, fewer, more, events)
BY DEF Accounted, GaveWay

\* The next event comes afloat.
LEMMA NextIsAccounted ==
  ASSUME NEW n \in Nat, NEW afloat \in SUBSET (1..n), NEW logged, NEW events,
         Accounted(n, afloat, logged, events)
  PROVE  Accounted(n + 1, afloat \union {n + 1}, logged, events)
<1> SUFFICES ASSUME NEW i \in 1..(n + 1), i # n + 1, i \notin afloat \union logged
             PROVE  \E j \in 1..(n + 1) :
                      /\ j \in (afloat \union {n + 1}) \union logged
                      /\ GaveWay(i, j, afloat \union {n + 1}, events)
  BY DEF Accounted
<1>1. PICK j \in 1..n : j \in afloat \union logged /\ GaveWay(i, j, afloat, events)
  BY DEF Accounted
<1>2. GaveWay(i, j, afloat \union {n + 1}, events)
  BY <1>1 DEF GaveWay
<1> QED BY <1>1, <1>2

\* A snapshot gives way to the next of its stream that is afloat.
LEMMA OlderIsAccounted ==
  ASSUME NEW n \in Nat, NEW afloat \in SUBSET (1..n), NEW logged, NEW events,
         Accounted(n, afloat, logged, events),
         NEW old \in afloat, NEW new \in afloat, old < new,
         events[old].kind # "reliable", events[new].kind # "reliable",
         events[old].stream = events[new].stream,
         \A k \in (old + 1)..(new - 1) : k \notin afloat
  PROVE  Accounted(n, afloat \ {old}, logged, events)
<1> DEFINE rest == afloat \ {old}
<1> SUFFICES ASSUME NEW i \in 1..n, i \notin rest \union logged
             PROVE  \E j \in 1..n : j \in rest \union logged
                                    /\ GaveWay(i, j, rest, events)
  BY DEF Accounted
<1>1. new \in 1..n /\ new \in rest /\ old \in 1..n
  OBVIOUS
<1>2. CASE i = old
  <2>1. GaveWay(i, new, rest, events)
    BY <1>2 DEF GaveWay
  <2> QED BY <2>1, <1>1
<1>3. CASE i # old
  <2>1. PICK j \in 1..n : j \in afloat \union logged /\ GaveWay(i, j, afloat, events)
    BY <1>3 DEF Accounted
  <2>2. CASE j # old
    <3>1. GaveWay(i, j, rest, events)
      BY <2>1 DEF GaveWay
    <3> QED BY <3>1, <2>1, <2>2
  <2>3. CASE j = old
    <3>1. GaveWay(i, new, rest, events)
      <4>1. /\ i < new /\ events[i].kind # "reliable"
            /\ events[i].stream = events[new].stream
        BY <2>1, <2>3, <1>1 DEF GaveWay
      <4>2. ASSUME NEW k \in (i + 1)..(new - 1)
            PROVE  k \notin rest
        <5>1. CASE k < old
          <6>1. k \in (i + 1)..(old - 1)
            BY <5>1, <1>1
          <6> QED BY <6>1, <2>1, <2>3 DEF GaveWay
        <5>2. CASE k > old
          <6>1. k \in (old + 1)..(new - 1)
            BY <5>2, <1>1
          <6> QED BY <6>1
        <5> QED BY <5>1, <5>2, <1>1
      <4> QED BY <4>1, <4>2 DEF GaveWay
    <3> QED BY <3>1, <1>1
  <2> QED BY <2>2, <2>3
<1> QED BY <1>2, <1>3
-----------------------------------------------------------------------------
(***************************************************************************)
(* Pushing onto a batch.                                                   *)
(***************************************************************************)
Replaces(m, last) ==
  /\ last.what = "event" /\ m.what = "event"
  /\ script[last.at].kind # "reliable" /\ script[m.at].kind # "reliable"
  /\ script[last.at].stream = script[m.at].stream

PushedOnto(new, b, m) ==
  /\ new \in Seq(Msg) /\ Rising(new)
  /\ \/ Elements(new) = Elements(b) \union {m}
     \/ \E last \in Elements(b) :
          /\ Replaces(m, last)
          /\ Elements(new) = (Elements(b) \ {last}) \union {m}
          /\ \A x \in Elements(b) \ {last} : Before(x, last)

LEMMA AppendsOnto ==
  ASSUME NEW b \in Seq(Msg), NEW m \in Msg, Rising(b),
         \A x \in Elements(b) : Before(x, m)
  PROVE  PushedOnto(Append(b, m), b, m)
BY Appended DEF PushedOnto

LEMMA PushesOnto ==
  ASSUME NEW b \in Seq(Msg), NEW m \in Msg, Rising(b),
         \A x \in Elements(b) : x.op = m.op /\ x.op # 0,
         \A x \in Elements(b) : Before(x, m)
  PROVE  PushedOnto(Push(b, m), b, m)
<1> DEFINE last == b[Len(b)]
<1>1. CASE Push(b, m) = Append(b, m)
  BY <1>1, AppendsOnto
<1>2. CASE Push(b, m) # Append(b, m)
  <2> DEFINE new == [b EXCEPT ![Len(b)] = m]
  <2>1. b # << >> /\ Replaces(m, last) /\ Push(b, m) = new
    BY <1>2 DEF Push, Coalescible, SameStream, Replaces
  <2>2. /\ Len(b) \in 1..Len(b) /\ new \in Seq(Msg) /\ Len(new) = Len(b)
        /\ new[Len(b)] = m
        /\ \A k \in 1..Len(b) : k = Len(b) \/ (k < Len(b) /\ new[k] = b[k])
    BY <2>1
  <2> HIDE DEF new
  <2>3. last \in Elements(b)
    BY <2>2 DEF Elements
  <2>4. \A x \in Elements(b) \ {last} : Before(x, last)
    <3> SUFFICES ASSUME NEW k \in 1..Len(b), b[k] # last
                 PROVE  Before(b[k], last)
      BY DEF Elements
    <3>1. k < Len(b)
      BY <2>2
    <3>2. b[k] \in Elements(b)
      BY DEF Elements
    <3>3. b[k].op = last.op /\ b[k].op # 0
      BY <3>2, <2>3
    <3> QED BY <3>1, <3>3, <2>2 DEF Rising
  <2>5. \A k \in 1..Len(b) : k < Len(b) => b[k] # last
    <3> SUFFICES ASSUME NEW k \in 1..Len(b), k < Len(b), b[k] = last
                 PROVE  FALSE
      OBVIOUS
    <3>1. last.op # 0
      BY <2>3
    <3>2. Before(last, last)
      BY <3>1, <2>2 DEF Rising
    <3>3. last \in Msg
      BY <2>2
    <3> QED BY <3>2, <3>3, <2>1 DEF Before, Msg, Replaces
  <2>6. Elements(new) = (Elements(b) \ {last}) \union {m}
    <3>1. Elements(new) \subseteq (Elements(b) \ {last}) \union {m}
      <4> SUFFICES ASSUME NEW k \in 1..Len(b), k < Len(b)
                   PROVE  new[k] \in Elements(b) \ {last}
        BY <2>2 DEF Elements
      <4> QED BY <2>2, <2>5 DEF Elements
    <3>2. (Elements(b) \ {last}) \union {m} \subseteq Elements(new)
      <4>1. m \in Elements(new)
        BY <2>2 DEF Elements
      <4>2. ASSUME NEW k \in 1..Len(b), b[k] # last
            PROVE  b[k] \in Elements(new)
        <5>1. k \in 1..Len(new) /\ new[k] = b[k]
          BY <2>2, <4>2
        <5> QED BY <5>1 DEF Elements
      <4> QED BY <4>1, <4>2 DEF Elements
    <3> QED BY <3>1, <3>2
  <2>7. Rising(new)
    <3> SUFFICES ASSUME NEW j \in 1..Len(b), NEW k \in 1..Len(b),
                        j < k, new[j].op = new[k].op, new[j].op # 0
                 PROVE  Before(new[j], new[k])
      BY <2>2 DEF Rising
    <3>1. j < Len(b) /\ new[j] = b[j]
      BY <2>2
    <3>2. CASE k = Len(b)
      <4>1. b[j] \in Elements(b)
        BY DEF Elements
      <4> QED BY <4>1, <3>1, <3>2, <2>2
    <3>3. CASE k # Len(b)
      BY <3>1, <3>3, <2>2 DEF Rising
    <3> QED BY <3>2, <3>3
  <2> HIDE DEF last
  <2> QED BY <2>1, <2>2, <2>3, <2>4, <2>6, <2>7 DEF PushedOnto
<1> QED BY <1>1, <1>2

\* S has passed before the batch, T comes after it.
LEMMA PushIsAccounted ==
  ASSUME NEW n \in Nat, NEW logged, NEW b, NEW m, NEW new, NEW S, NEW T,
         PushedOnto(new, b, m),
         EventsIn(((S \union Elements(b)) \union {m}) \union T) \subseteq 1..n,
         Below(S, Elements(b)), Below(Elements(b), {m}), Below({m}, T),
         Accounted(n, EventsIn(((S \union Elements(b)) \union {m}) \union T),
                   logged, script)
  PROVE  Accounted(n, EventsIn((S \union Elements(new)) \union T), logged, script)
<1> DEFINE all == ((S \union Elements(b)) \union {m}) \union T
<1> HIDE DEF all
<1>1. CASE Elements(new) = Elements(b) \union {m}
  <2>1. (S \union Elements(new)) \union T = all
    BY <1>1 DEF all
  <2> QED BY <2>1 DEF all
<1>2. CASE Elements(new) # Elements(b) \union {m}
  <2>1. PICK last \in Elements(b) :
          /\ Replaces(m, last)
          /\ Elements(new) = (Elements(b) \ {last}) \union {m}
          /\ \A x \in Elements(b) \ {last} : Before(x, last)
    BY <1>2 DEF PushedOnto
  <2>2. \A x \in all : x.what = "event" => x.at \in 1..n
    BY DEF all, EventsIn
  <2>3. last \in all /\ m \in all
    BY DEF all
  <2>4. last.at \in EventsIn(all) /\ m.at \in EventsIn(all)
    BY <2>1, <2>3 DEF EventsIn, Replaces
  <2>5. last.at \in 1..n /\ m.at \in 1..n /\ last.at < m.at
    BY <2>1, <2>2, <2>3 DEF Below, Before, Replaces
  <2>6. \A x \in all : x.what = "event" =>
          x = last \/ x.at < last.at \/ x.at >= m.at
    <3> SUFFICES ASSUME NEW x \in all, x.what = "event", x # last
                 PROVE  x.at < last.at \/ x.at >= m.at
      OBVIOUS
    <3>1. CASE x \in S
      BY <3>1, <2>1 DEF Below, Before, Replaces
    <3>2. CASE x \in Elements(b)
      BY <3>2, <2>1 DEF Before, Replaces
    <3>3. CASE x = m
      BY <3>3, <2>5
    <3>4. CASE x \in T
      <4>1. m.at < x.at
        BY <3>4, <2>1 DEF Below, Before, Replaces
      <4>2. x.at \in 1..n
        BY <2>2
      <4> QED BY <4>1, <4>2, <2>5
    <3> QED BY <3>1, <3>2, <3>3, <3>4 DEF all
  <2>7. \A k \in (last.at + 1)..(m.at - 1) : k \notin EventsIn(all)
    BY <2>2, <2>5, <2>6 DEF EventsIn
  <2>8. Accounted(n, EventsIn(all) \ {last.at}, logged, script)
    <3>1. EventsIn(all) \in SUBSET (1..n)
      BY DEF all
    <3> QED BY <3>1, <2>1, <2>4, <2>5, <2>7, OlderIsAccounted DEF Replaces, all
  <2>9. EventsIn((S \union Elements(new)) \union T) = EventsIn(all) \ {last.at}
    <3> DEFINE rest == (S \union Elements(new)) \union T
    <3>1. all \subseteq rest \union {last} /\ rest \subseteq all
      BY <2>1 DEF all
    <3>2. last.at \notin EventsIn(rest)
      <4> SUFFICES ASSUME NEW x \in rest, x.what = "event", x.at = last.at
                   PROVE  FALSE
        BY DEF EventsIn
      <4>1. x = last
        BY <2>5, <2>6, <3>1
      <4>2. CASE x \in S
        BY <4>1, <4>2, <2>1, <2>5 DEF Below, Before, Replaces
      <4>3. CASE x = m
        BY <4>3, <2>5
      <4>4. CASE x \in T
        BY <4>1, <4>4, <2>1, <2>5 DEF Below, Before, Replaces
      <4> QED BY <4>1, <4>2, <4>3, <4>4, <2>1
    <3> HIDE DEF rest
    <3>3. EventsIn(rest) \subseteq EventsIn(all) \ {last.at}
      BY <3>1, <3>2 DEF EventsIn
    <3>4. EventsIn(all) \ {last.at} \subseteq EventsIn(rest)
      BY <3>1 DEF EventsIn
    <3>5. EventsIn(rest) = EventsIn(all) \ {last.at}
      BY <3>3, <3>4
    <3> QED BY <3>5 DEF rest
  <2> QED BY <2>8, <2>9
<1> QED BY <1>1, <1>2
-----------------------------------------------------------------------------
(***************************************************************************)
(* The worker's steps.                                                     *)
(***************************************************************************)
\* What has left the worker.
Passed == Elements(seen) \union Elements(batch) \union Queued

LEMMA ElementsAreMessages == ASSUME NEW s \in Seq(Msg) PROVE Elements(s) \subseteq Msg
BY DEF Elements

LEMMA PipeFacts ==
  ASSUME IInv
  PROVE  /\ Pipe = Passed \union Elements(slot) /\ Pipe \subseteq Msg
         /\ \A m \in Pipe : m.op = started /\ m.what # "other"
         /\ \A m \in Pipe : m.what = "event" => m.at \in 1..published
         /\ slot # << >> => slot = <<slot[1]>> /\ Elements(slot) = {slot[1]}
         /\ published \in Nat
<1>1. Pipe = Passed \union Elements(slot)
  BY DEF Pipe, Passed
<1>2. Pipe \subseteq Msg
  BY ElementsAreMessages DEF IInv, TypeInv, Pipe, Queued
<1>3. \A m \in Pipe : m.op = started /\ m.what # "other"
  BY DEF IInv, MessageInv, Pipe, Queued, Mine
<1>4. \A m \in Pipe : m.what = "event" => m.at \in 1..published
  BY DEF IInv, MessageInv, EventsIn
<1>5. ASSUME slot # << >>
      PROVE  slot = <<slot[1]>> /\ Elements(slot) = {slot[1]}
  <2>1. slot \in Seq(Msg) /\ Len(slot) = 1
    BY <1>5 DEF IInv, TypeInv, StageInv
  <2>2. slot[1] \in Msg /\ slot = <<slot[1]>>
    BY <2>1
  <2>3. Elements(<<slot[1]>>) = {slot[1]}
    BY <2>2, OneElement
  <2> QED BY <2>2, <2>3
<1> QED BY <1>1, <1>2, <1>3, <1>4, <1>5 DEF IInv, TypeInv

\* The worker adds q to the channel, and puts what follows q into the slot.
Supply(q) ==
  /\ channel' = channel \o q
  /\ UNCHANGED <<operation, started, script, style, uiVars>>
  /\ q \in Seq(Msg) /\ Rising(q) /\ slot' \in Seq(Msg)
  /\ \A m \in Elements(q) : m.op = started /\ m.what # "other"
  /\ \A m \in Elements(slot') : m.op = started /\ m.what = "event"
  /\ Below(Passed, Elements(q)) /\ Below(Passed, Elements(slot'))
  /\ Below(Elements(q), Elements(slot'))

LEMMA Supplied ==
  ASSUME IInv, started # 0, NEW q, Supply(q)
  PROVE  /\ channel' \in Seq(Msg)
         /\ Passed' = Passed \union Elements(q)
         /\ Pipe' = Passed \union Elements(q) \union Elements(slot')
         /\ OrderInv'
         /\ EventsIn(Pipe') \subseteq 1..published' => MessageInv'
<1>1. /\ channel' \in Seq(Msg)
      /\ Elements(channel') = Elements(channel) \union Elements(q)
  BY Joined DEF Supply, IInv, TypeInv
<1>2. Queued' = Queued \union Elements(q)
  BY <1>1 DEF Queued, Mine, Supply
<1>3. Passed' = Passed \union Elements(q)
  BY <1>2 DEF Passed, Supply, uiVars
<1>4. Pipe' = Passed \union Elements(q) \union Elements(slot')
  BY <1>3 DEF Pipe, Passed
<1>5. Rising(channel')
  <2>1. ASSUME NEW m \in Elements(channel), NEW n \in Elements(q),
               m.op = n.op, m.op # 0
        PROVE  Before(m, n)
    <3>1. m \in Passed
      BY <2>1 DEF Passed, Queued, Mine, Supply, IInv, MessageInv, Other
    <3> QED BY <3>1 DEF Supply, Below
  <2> QED BY <2>1, Joined DEF Supply, IInv, TypeInv, OrderInv
<1>6. OrderInv'
  <2>1. Rising(seen') /\ Rising(batch') /\ Below(Elements(seen'), Elements(batch'))
    BY DEF IInv, OrderInv, Supply, uiVars
  <2>2. Below(Elements(seen'), Queued') /\ Below(Elements(batch'), Queued')
    BY <1>2 DEF IInv, OrderInv, Supply, uiVars, Below, Passed
  <2>3. /\ Below(Elements(seen'), Elements(slot'))
        /\ Below(Elements(batch'), Elements(slot'))
        /\ Below(Queued', Elements(slot'))
    BY <1>2 DEF Supply, uiVars, Below, Passed
  <2> QED BY <1>5, <2>1, <2>2, <2>3 DEF OrderInv
<1>7. ASSUME EventsIn(Pipe') \subseteq 1..published' PROVE MessageInv'
  <2>1. \A m \in Elements(channel') :
          m = Other \/ (m.op \in 1..started' /\ m.what # "other")
    BY <1>1 DEF IInv, TypeInv, MessageInv, Supply
  <2>2. \A m \in Elements(seen') \union Elements(batch') \union Elements(slot') :
          m.op = started' /\ m.op # 0 /\ m.what \in {"event", "notice"}
    BY DEF IInv, MessageInv, Supply, uiVars
  <2> QED BY <1>7, <2>1, <2>2 DEF MessageInv, Other
<1> QED BY <1>1, <1>3, <1>4, <1>6, <1>7

LEMMA MessageIsTyped ==
  ASSUME TypeInv, NEW w \in {"event", "notice", "result"}, NEW i \in Nat
  PROVE  /\ Message(w, i) \in Msg /\ Message(w, i).op = started
         /\ Message(w, i).what = w /\ Message(w, i).at = i
BY DEF TypeInv, Message, Msg

\* The budget splits what is sent into what is queued and what is spilled.
LEMMA SendSplits ==
  ASSUME TypeInv, NEW s \in Seq(Msg), Send(s)
  PROVE  \E q, r \in Seq(Msg) :
           /\ Elements(s) = Elements(q) \union Elements(r)
           /\ Rising(s) => Rising(q)
           /\ channel' = channel \o q
           /\ spilled' = spilled \union {m.at : m \in Elements(r)}
           /\ sent' \in 0..Retained
<1> DEFINE pass == IF spilled # {} THEN 0
                   ELSE IF sent + Len(s) <= Retained THEN Len(s)
                   ELSE Retained - sent
           q == SubSeq(s, 1, pass)
           r == SubSeq(s, pass + 1, Len(s))
<1>1. pass \in 0..Len(s) /\ sent + pass \in 0..Retained
  BY TransportAssumption DEF TypeInv
<1>2. /\ sent' = sent + pass /\ channel' = channel \o q
      /\ spilled' = spilled \union {r[i].at : i \in 1..Len(r)}
  BY DEF Send
<1> HIDE DEF pass
<1>3. /\ q \in Seq(Msg) /\ Len(q) = pass /\ \A k \in 1..pass : q[k] = s[k]
      /\ r \in Seq(Msg) /\ Len(r) = Len(s) - pass
      /\ \A k \in 1..Len(r) : r[k] = s[pass + k] /\ pass + k \in 1..Len(s)
      /\ \A k \in 1..Len(s) :
           k \in 1..pass \/ (k - pass \in 1..Len(r) /\ s[k] = r[k - pass])
      /\ \A k \in 1..pass : k \in 1..Len(s)
  BY <1>1
<1> HIDE DEF q, r
<1>4. Elements(s) = Elements(q) \union Elements(r)
  <2>1. Elements(s) \subseteq Elements(q) \union Elements(r)
    <3>1. ASSUME NEW k \in 1..Len(s) PROVE s[k] \in Elements(q) \union Elements(r)
      <4>1. CASE k \in 1..pass
        <5>1. s[k] = q[k] /\ k \in 1..Len(q)
          BY <1>3, <4>1, Zenon
        <5> QED
          BY <5>1, Zenon DEF Elements
      <4>2. CASE k - pass \in 1..Len(r) /\ s[k] = r[k - pass]
        BY <4>2, Zenon DEF Elements
      <4> QED
        BY <1>3, <4>1, <4>2, Zenon
    <3> QED
      BY <3>1, Zenon DEF Elements
  <2>2. Elements(q) \subseteq Elements(s)
    BY <1>3 DEF Elements
  <2>3. ASSUME NEW k \in 1..Len(r) PROVE r[k] \in Elements(s)
    <3>1. pass + k \in 1..Len(s) /\ r[k] = s[pass + k]
      BY <1>3
    <3> QED BY <3>1 DEF Elements
  <2>4. Elements(r) \subseteq Elements(s)
    BY <2>3 DEF Elements
  <2> QED BY <2>1, <2>2, <2>4
<1>5. Rising(s) => Rising(q)
  BY <1>3 DEF Rising
<1>6. {r[i].at : i \in 1..Len(r)} = {m.at : m \in Elements(r)}
  BY Zenon DEF Elements
<1> QED BY <1>1, <1>2, <1>3, <1>4, <1>5, <1>6

LEMMA PublishPreserves == ASSUME IInv, Publish PROVE IInv'
<1> DEFINE i == published + 1
           ev == Message("event", i)
<1>1. /\ worker = "Publish" /\ worker' = "Publish" /\ published' = i
      /\ operation = started /\ started # 0
      /\ UNCHANGED <<operation, started, style, script, uiVars>>
      /\ i \in 1..Len(script) /\ published' \in 0..Len(script) /\ i \in Nat
  BY DEF Publish, IInv, WorkerInv, TypeInv, workerVars
<1>2. ev \in Msg /\ ev.op = started /\ ev.what = "event" /\ ev.at = i
  BY <1>1, MessageIsTyped DEF IInv
<1>10. EventsIn({ev}) = {i}
  <2>1. ev.what = "event" /\ ev.at = i
    BY <1>2
  <2> HIDE DEF ev
  <2> QED BY <2>1, EventsOfOne
<1>3. \A m \in Pipe : m.what = "event" /\ m.at \in 1..published /\ Before(m, ev)
  <2>1. \A m \in Pipe : m.what = "event" /\ m.at \in 1..published
    BY <1>1, PipeFacts DEF IInv, StageInv
  <2>2. \A m \in Pipe : m.at < i
    BY <2>1, PipeFacts
  <2> QED BY <2>1, <2>2, <1>2 DEF Before
<1>4. Pipe = Passed \union Elements(slot) /\ published \in Nat
  BY PipeFacts
<1>5. Accounted(i, EventsIn(Pipe) \union {i}, spilled, script)
  BY <1>4, NextIsAccounted DEF IInv, AccountInv, MessageInv
<1>6. WorkerInv'
  <2>1. ui # "Joining" /\ ui # "Gone" /\ operation # 0 /\ ~ answered
    BY <1>1 DEF IInv, WorkerInv
  <2>2. /\ ui' = ui /\ operation' = operation /\ answered' = answered
        /\ batch' = batch /\ started' = started
    BY <1>1 DEF uiVars
  <2> QED BY <2>1, <2>2, <1>1 DEF IInv, WorkerInv
<1> HIDE DEF i, ev
\* What every way of publishing comes to.
<1>7. ASSUME NEW q, Supply(q), sent' \in 0..Retained,
             slot' = << >> \/ (slot' = <<ev>> /\ script[i].kind = "middle"
                                /\ style = "slot"),
             Elements(q) \union Elements(slot') \subseteq Elements(slot) \union {ev},
             spilled' \subseteq 1..i, style = "direct" => spilled' = {},
             Accounted(i, EventsIn(Pipe'), spilled', script)
      PROVE  IInv'
  <2>1. Pipe' \subseteq Pipe \union {ev}
    BY <1>1, <1>4, <1>7, Supplied
  <2>2. EventsIn(Pipe') \subseteq 1..published'
    <3> SUFFICES ASSUME NEW m \in Pipe', m.what = "event" PROVE m.at \in 1..i
      BY <1>1 DEF EventsIn
    <3>1. CASE m \in Pipe
      BY <3>1, <1>3, <1>4, <1>1 DEF i
    <3>2. CASE m = ev
      BY <3>2, <1>2, <1>1
    <3> QED BY <3>1, <3>2, <2>1
  <2>3. channel' \in Seq(Msg) /\ OrderInv' /\ MessageInv'
    BY <2>2, <1>1, <1>7, Supplied
  <2>4. TypeInv'
    BY <1>1, <1>7, <2>3 DEF IInv, TypeInv, Supply, uiVars
  <2>5. StageInv'
    <3>1. \A m \in Pipe' : m.what = "event"
      BY <2>1, <1>2, <1>3
    <3>2. slot' # << >> =>
            /\ Len(slot') = 1 /\ slot'[1] = ev
      BY <1>7
    <3> QED BY <3>1, <3>2, <1>1, <1>2, <1>7 DEF StageInv
  <2>6. AccountInv'
    BY <1>1, <1>7 DEF AccountInv
  <2> QED BY <1>6, <2>3, <2>4, <2>5, <2>6 DEF IInv
<1>8. CASE style = "direct" /\ channel' = Append(channel, ev)
           /\ UNCHANGED <<sent, spilled, slot>>
  <2>1. slot = << >> /\ Elements(slot) = {}
    BY <1>8, NoElements DEF IInv, StageInv
  <2> DEFINE q == <<ev>>
  <2>2. q \in Seq(Msg) /\ Elements(q) = {ev} /\ Rising(q) /\ channel' = channel \o q
    <3>1. q \in Seq(Msg) /\ Elements(q) = {ev} /\ Rising(q)
      BY <1>2, OneElement
    <3>2. Append(channel, ev) = channel \o <<ev>>
      BY <1>2 DEF IInv, TypeInv
    <3> QED BY <3>1, <3>2, <1>8
  <2> HIDE DEF q
  <2>3. Supply(q)
    BY <2>1, <2>2, <1>1, <1>2, <1>3, <1>4, <1>8 DEF Supply, Below, IInv, TypeInv
  <2>4. Pipe' = Pipe \union {ev}
    BY <2>1, <2>2, <2>3, <1>1, <1>4, <1>8, Supplied
  <2>5. EventsIn(Pipe') = EventsIn(Pipe) \union {i}
    BY <2>4, <1>10, EventsOfUnion
  <2>6. /\ spilled' \subseteq 1..i /\ sent' \in 0..Retained
        /\ style = "direct" => spilled' = {}
    BY <1>8, <1>1 DEF IInv, TypeInv, AccountInv, i
  <2> QED BY <2>1, <2>2, <2>3, <2>5, <2>6, <1>5, <1>7, <1>8
<1>9. CASE style = "slot" /\ PublishToSlot(i)
  <2> DEFINE snapshot == script[i].kind = "middle"
             same == slot # << >> /\ slot[1].op = ev.op /\ SameStream(slot[1].at, i)
             s == (IF snapshot /\ same THEN << >> ELSE slot)
                    \o (IF snapshot THEN << >> ELSE <<ev>>)
  <2>1. slot' = (IF snapshot THEN <<ev>> ELSE << >>) /\ Send(s)
    BY <1>9 DEF PublishToSlot, ev
  <2>2. slot \in Seq(Msg) /\ Rising(slot)
        /\ \A m \in Elements(slot) : m.op = started /\ m.what = "event"
    <3>1. slot = << >> \/ (slot[1] \in Msg /\ slot = <<slot[1]>>)
      BY PipeFacts DEF IInv, TypeInv
    <3>2. Rising(slot)
      BY <3>1, NoElements, OneElement
    <3> QED BY <3>2, <1>3, <1>4, PipeFacts DEF IInv, TypeInv
  <2>3. /\ slot' \in Seq(Msg) /\ Elements(slot') \subseteq {ev}
        /\ slot' = << >> \/ (slot' = <<ev>> /\ script[i].kind = "middle")
    BY <2>1, <1>2, OneElement, NoElements
  <2>4. CASE snapshot /\ same
    <3>1. s = << >> /\ slot' = <<ev>> /\ Elements(slot') = {ev}
      BY <2>1, <2>4, <1>2, OneElement
    <3> HIDE DEF s
    <3>12. s \in Seq(Msg)
      BY <3>1
    <3>2. PICK q, r \in Seq(Msg) :
            /\ Elements(s) = Elements(q) \union Elements(r)
            /\ Rising(s) => Rising(q)
            /\ channel' = channel \o q
            /\ spilled' = spilled \union {m.at : m \in Elements(r)}
            /\ sent' \in 0..Retained
      BY <3>12, <2>1, SendSplits DEF IInv
    <3>3. /\ Elements(q) = {} /\ Rising(q) /\ spilled' = spilled
      BY <3>1, <3>2, NoElements
    <3>4. Supply(q)
      BY <3>1, <3>2, <3>3, <2>3, <1>1, <1>2, <1>3, <1>4 DEF Supply, Below
    <3>5. Pipe' = Passed \union {ev}
      BY <3>1, <3>3, <3>4, <1>1, Supplied
    <3> DEFINE o == slot[1]
    <3>6. /\ slot # << >> /\ Elements(slot) = {o} /\ o.what = "event"
          /\ o.at = published /\ script[published].kind = "middle"
          /\ script[published].stream = script[i].stream
      BY <2>4, PipeFacts DEF IInv, StageInv, SameStream
    <3>7. published \notin EventsIn(Passed)
      <4> SUFFICES ASSUME NEW m \in Passed, m.what = "event", m.at = published
                   PROVE  FALSE
        BY DEF EventsIn
      <4>1. Before(m, o)
        BY <3>6 DEF IInv, OrderInv, Below, Passed
      <4> QED BY <4>1, <3>6, <1>4 DEF Before
    <3>8. EventsIn(Pipe) = EventsIn(Passed) \union {published}
      <4>1. EventsIn({o}) = {published}
        <5>1. o.what = "event" /\ o.at = published
          BY <3>6
        <5> HIDE DEF o
        <5> QED BY <5>1, EventsOfOne
      <4>2. Pipe = Passed \union {o}
        BY <3>6, <1>4
      <4> HIDE DEF o
      <4> QED BY <4>1, <4>2, EventsOfUnion
    <3>9. EventsIn(Pipe') = (EventsIn(Pipe) \union {i}) \ {published}
      <4>1. EventsIn(Pipe') = EventsIn(Passed) \union {i}
        BY <3>5, <1>10, EventsOfUnion
      <4> QED BY <4>1, <3>7, <3>8, <1>4 DEF i
    <3>10. Accounted(i, EventsIn(Pipe'), spilled', script)
      <4> DEFINE afloat == EventsIn(Pipe) \union {i}
      <4>1. afloat \in SUBSET (1..i)
        <5>1. EventsIn(Pipe) \subseteq 1..published
          BY DEF IInv, MessageInv
        <5>2. 1..published \subseteq 1..i /\ i \in 1..i
          BY <1>1, <1>4 DEF i
        <5> QED BY <5>1, <5>2
      <4>2. /\ published \in afloat /\ i \in afloat /\ published < i
            /\ \A k \in (published + 1)..(i - 1) : k \notin afloat
        BY <3>8, <1>4 DEF i
      <4>3. script[published].kind # "reliable" /\ script[i].kind # "reliable"
        BY <2>4, <3>6
      <4>4. i \in Nat /\ Accounted(i, afloat, spilled, script)
        BY <1>1, <1>5
      <4>5. EventsIn(Pipe') = afloat \ {published}
        BY <3>9
      <4> HIDE DEF afloat
      <4>6. Accounted(i, afloat \ {published}, spilled, script)
        BY <4>1, <4>2, <4>3, <4>4, <3>6, OlderIsAccounted
      <4> QED BY <4>5, <4>6, <3>3
    <3>11. spilled' \subseteq 1..i
      BY <3>3, <1>1 DEF IInv, TypeInv, i
    <3> QED BY <3>1, <3>2, <3>3, <3>4, <3>10, <3>11, <2>4, <1>7, <1>9
  <2>5. CASE ~ (snapshot /\ same)
    <3>1. /\ s \in Seq(Msg) /\ Rising(s)
          /\ Elements(s) \union Elements(slot') = Elements(slot) \union {ev}
          /\ Below(Elements(s), Elements(slot'))
      <4>1. CASE snapshot
        <5>1. s = slot /\ Elements(slot') = {ev}
          BY <4>1, <2>1, <2>2, <2>5, <1>2, OneElement
        <5> QED BY <5>1, <2>2, <1>3, <1>4 DEF Below
      <4>2. CASE ~ snapshot
        <5>1. s = Append(slot, ev) /\ Elements(slot') = {}
          BY <4>2, <2>1, <2>2, NoElements
        <5>2. \A m \in Elements(slot) : Before(m, ev)
          BY <1>3, <1>4
        <5>3. slot \in Seq(Msg) /\ ev \in Msg /\ Rising(slot)
          BY <2>2, <1>2
        <5>4. s \in Seq(Msg) /\ Elements(s) = Elements(slot) \union {ev} /\ Rising(s)
          BY <5>1, <5>2, <5>3, Appended
        <5> QED BY <5>1, <5>4 DEF Below
      <4> QED BY <4>1, <4>2
    <3> HIDE DEF s
    <3>2. PICK q, r \in Seq(Msg) :
            /\ Elements(s) = Elements(q) \union Elements(r)
            /\ Rising(s) => Rising(q)
            /\ channel' = channel \o q
            /\ spilled' = spilled \union {m.at : m \in Elements(r)}
            /\ sent' \in 0..Retained
      BY <3>1, <2>1, SendSplits DEF IInv
    <3>3. \A m \in Elements(slot) \union {ev} :
            m.op = started /\ m.what = "event" /\ m.at \in 1..i
      <4>1. \A m \in Elements(slot) : m.at \in 1..i
        BY <1>3, <1>4 DEF i
      <4> QED BY <4>1, <2>2, <1>1, <1>2
    <3>4. Below(Passed, Elements(slot) \union {ev})
      <4>1. Below(Passed, Elements(slot))
        BY DEF IInv, OrderInv, Passed, Below
      <4> QED BY <4>1, <1>3, <1>4 DEF Below
    <3>5. Supply(q)
      BY <3>1, <3>2, <3>3, <3>4, <2>3, <1>1 DEF Supply, Below
    <3>6. Pipe' = Passed \union Elements(q) \union Elements(slot')
      BY <3>5, <1>1, Supplied
    <3>7. EventsIn(Pipe') \subseteq EventsIn(Pipe) \union {i}
      <4>1. Pipe' \subseteq Pipe \union {ev}
        BY <3>1, <3>2, <3>6, <1>4
      <4> QED BY <4>1, <1>2 DEF EventsIn
    <3>8. EventsIn(Pipe) \union {i} \subseteq EventsIn(Pipe') \union spilled'
      <4> SUFFICES ASSUME NEW m \in Pipe \union {ev}, m.what = "event"
                   PROVE  m.at \in EventsIn(Pipe') \union spilled'
        BY <1>2 DEF EventsIn
      <4>1. m \in Pipe' \/ m \in Elements(r)
        BY <3>1, <3>2, <3>6, <1>4
      <4> QED BY <4>1, <3>2 DEF EventsIn
    <3>9. Accounted(i, EventsIn(Pipe'), spilled', script)
      <4>1. (EventsIn(Pipe) \union {i}) \union spilled
              \subseteq EventsIn(Pipe') \union spilled'
        BY <3>2, <3>8
      <4> QED BY <4>1, <3>7, <1>5, LoggedIsAccounted
    <3>10. spilled' \subseteq 1..i
      <4>1. spilled \subseteq 1..i
        BY <1>1 DEF IInv, TypeInv, i
      <4>2. \A m \in Elements(r) : m.at \in 1..i
        BY <3>1, <3>2, <3>3
      <4> QED BY <4>1, <4>2, <3>2
    <3>11. Elements(q) \union Elements(slot') \subseteq Elements(slot) \union {ev}
      BY <3>1, <3>2
    <3> QED BY <3>2, <3>5, <3>9, <3>10, <3>11, <2>3, <1>7, <1>9
  <2> QED BY <2>4, <2>5
<1> QED BY <1>8, <1>9 DEF Publish, i, ev

\* A step that moves no message.
LEMMA StillPipe ==
  ASSUME IInv, UNCHANGED <<started, script, style, published, spilled,
                           seen, batch, channel, slot>>
  PROVE  /\ Queued' = Queued /\ Pipe' = Pipe
         /\ MessageInv' /\ OrderInv'
         /\ Accounted(published', EventsIn(Pipe'), spilled', script')
<1>1. Queued' = Queued
  BY DEF Queued, Mine
<1>2. Pipe' = Pipe
  BY <1>1 DEF Pipe
<1>3. MessageInv'
  BY <1>2 DEF IInv, MessageInv
<1>4. OrderInv'
  BY <1>1 DEF IInv, OrderInv
<1>5. Accounted(published', EventsIn(Pipe'), spilled', script')
  BY <1>2 DEF IInv, AccountInv
<1> QED BY <1>1, <1>2, <1>3, <1>4, <1>5

LEMMA ReturnPreserves == ASSUME IInv, Return PROVE IInv'
<1>1. /\ worker = "Publish" /\ worker' \in {"Flush", "Report"}
      /\ worker' = "Report" => style = "direct"
      /\ UNCHANGED <<operation, started, style, script, published, sent, spilled,
                     slot, channel, ui, taken, batch, seen, answered>>
  BY DEF Return, uiVars, IInv, TypeInv
<1>2. Queued' = Queued /\ Pipe' = Pipe /\ MessageInv' /\ OrderInv'
  BY <1>1, StillPipe
<1>3. TypeInv'
  BY <1>1 DEF IInv, TypeInv
<1>4. WorkerInv'
  BY <1>1, <1>2 DEF IInv, WorkerInv
<1>5. StageInv'
  BY <1>1, <1>2 DEF IInv, StageInv
<1>6. AccountInv'
  BY <1>1, StillPipe DEF IInv, AccountInv
<1> QED BY <1>2, <1>3, <1>4, <1>5, <1>6 DEF IInv

LEMMA ExitPreserves == ASSUME IInv, Exit PROVE IInv'
<1>1. /\ worker = "Exit" /\ worker' = "None"
      /\ UNCHANGED <<operation, started, style, script, published, sent, spilled,
                     slot, channel, ui, taken, batch, seen, answered>>
  BY DEF Exit, uiVars
<1>2. Queued' = Queued /\ Pipe' = Pipe /\ MessageInv' /\ OrderInv'
  BY <1>1, StillPipe
<1>3. TypeInv'
  BY <1>1 DEF IInv, TypeInv
<1>4. WorkerInv'
  BY <1>1, <1>2 DEF IInv, WorkerInv
<1>5. StageInv'
  BY <1>1, <1>2 DEF IInv, StageInv
<1>6. AccountInv'
  BY <1>1, <1>2, StillPipe DEF IInv, AccountInv
<1> QED BY <1>2, <1>3, <1>4, <1>5, <1>6 DEF IInv

LEMMA ReportPreserves == ASSUME IInv, Report PROVE IInv'
<1> DEFINE ev == Message("result", 0)
           q == <<ev>>
<1>1. /\ worker = "Report" /\ worker' = "Exit"
      /\ operation = started /\ started # 0 /\ slot = << >>
      /\ channel' = Append(channel, ev)
      /\ UNCHANGED <<operation, started, style, script, published, sent, spilled,
                     slot, ui, taken, batch, seen, answered>>
  BY DEF Report, uiVars, IInv, WorkerInv, StageInv
<1>2. ev \in Msg /\ ev.op = started /\ ev.what = "result"
  BY MessageIsTyped DEF IInv
<1> HIDE DEF ev
<1>3. q \in Seq(Msg) /\ Elements(q) = {ev} /\ Rising(q)
  BY <1>2, OneElement
<1>4. channel' = channel \o q
  BY <1>1, <1>2 DEF IInv, TypeInv
<1> HIDE DEF q
<1>5. Elements(slot) = {} /\ Pipe = Passed
  BY <1>1, NoElements, PipeFacts
<1>6. \A m \in Passed : Before(m, ev)
  <2>1. \A m \in Passed : m.what # "result" /\ m.what # "other" /\ m \in Msg
    BY <1>1, <1>5, PipeFacts DEF IInv, StageInv
  <2> QED BY <2>1, <1>2 DEF Before, Msg
<1>7. Supply(q)
  BY <1>1, <1>2, <1>3, <1>4, <1>5, <1>6 DEF Supply, Below, uiVars, IInv, TypeInv
<1>8. channel' \in Seq(Msg) /\ OrderInv' /\ Pipe' = Pipe \union {ev}
  BY <1>1, <1>3, <1>5, <1>7, Supplied
<1>9. EventsIn(Pipe') = EventsIn(Pipe)
  BY <1>2, <1>8 DEF EventsIn
<1>10. MessageInv'
  <2>1. EventsIn(Pipe') \subseteq 1..published'
    BY <1>1, <1>9 DEF IInv, MessageInv
  <2> QED BY <2>1, <1>1, <1>7, Supplied
<1>11. TypeInv'
  BY <1>1, <1>8 DEF IInv, TypeInv
<1>12. WorkerInv'
  <2>1. ui # "Joining"
    BY <1>1 DEF IInv, WorkerInv
  <2> QED BY <2>1, <1>1 DEF IInv, WorkerInv
<1>13. StageInv'
  BY <1>1 DEF StageInv
<1>14. AccountInv'
  BY <1>1, <1>8, <1>9 DEF IInv, AccountInv
<1> QED BY <1>8, <1>10, <1>11, <1>12, <1>13, <1>14 DEF IInv

LEMMA FlushPreserves == ASSUME IInv, Flush PROVE IInv'
<1> DEFINE queued == SubSeq(slot, 1,
                       IF spilled = {} /\ sent < Retained THEN Len(slot) ELSE 0)
           lost == {slot[i].at : i \in (Len(queued) + 1)..Len(slot)}
           ev == Message("notice", 0)
           last == IF spilled' = {} THEN << >> ELSE <<ev>>
           q == queued \o last
<1>1. /\ worker = "Flush" /\ worker' = "Report"
      /\ operation = started /\ started # 0 /\ slot' = << >>
      /\ spilled' = spilled \union lost /\ sent' = sent + Len(queued)
      /\ channel' = channel \o queued \o last
      /\ UNCHANGED <<operation, started, style, script, published,
                     ui, taken, batch, seen, answered>>
  BY DEF Flush, uiVars, IInv, WorkerInv
<1>2. ev \in Msg /\ ev.op = started /\ ev.what = "notice"
  BY MessageIsTyped DEF IInv
<1> HIDE DEF ev
<1>3. /\ slot \in Seq(Msg)
      /\ slot = << >> \/ (slot = <<slot[1]>> /\ slot[1] \in Msg)
      /\ Rising(slot)
  <2>1. /\ slot \in Seq(Msg)
        /\ slot = << >> \/ (slot = <<slot[1]>> /\ slot[1] \in Msg)
    BY PipeFacts DEF IInv, TypeInv
  <2> QED BY <2>1, NoElements, OneElement
<1>4. \/ /\ queued = slot /\ lost = {}
         /\ slot = << >> \/ sent < Retained
      \/ queued = << >> /\ lost = {m.at : m \in Elements(slot)}
  <2>1. CASE slot = << >>
    <3>1. queued = << >> /\ lost = {}
      BY <2>1
    <3> HIDE DEF queued, lost
    <3> QED BY <3>1, <2>1
  <2>2. CASE slot # << >> /\ spilled = {} /\ sent < Retained
    <3>1. queued = slot /\ Len(queued) = Len(slot)
      BY <2>2, <1>3
    <3>2. lost = {}
      BY <3>1, <1>3
    <3> HIDE DEF queued, lost
    <3> QED BY <3>1, <3>2, <2>2
  <2>3. CASE slot # << >> /\ ~ (spilled = {} /\ sent < Retained)
    <3>1. queued = << >> /\ Len(slot) = 1
      BY <2>3, <1>3
    <3>2. lost = {slot[1].at}
      <4>1. lost = {slot[i].at : i \in 1..1}
        BY <3>1
      <4> QED BY <4>1
    <3>3. Elements(slot) = {slot[1]}
      BY <2>3, PipeFacts
    <3> HIDE DEF queued, lost
    <3> QED BY <3>1, <3>2, <3>3
  <2> QED BY <2>1, <2>2, <2>3
<1> HIDE DEF queued, lost
<1>5. sent' \in 0..Retained
  <2>1. CASE queued = << >>
    BY <2>1, <1>1 DEF IInv, TypeInv
  <2>2. CASE queued = slot /\ slot # << >> /\ sent < Retained
    <3>1. Len(queued) = 1
      BY <2>2, <1>3
    <3>2. sent \in Nat /\ Retained \in Nat
      BY TransportAssumption DEF IInv, TypeInv
    <3>3. sent' = sent + 1 /\ sent < Retained
      BY <3>1, <2>2, <1>1
    <3> QED BY <3>2, <3>3
  <2> QED BY <2>1, <2>2, <1>4
<1>6. queued \in Seq(Msg) /\ Elements(queued) \subseteq Elements(slot)
      /\ Rising(queued)
  <2>1. CASE queued = slot
    BY <2>1, <1>3
  <2>2. CASE queued = << >>
    <3>1. << >> \in Seq(Msg)
      OBVIOUS
    <3> QED BY <3>1, <2>2, NoElements
  <2> QED BY <2>1, <2>2, <1>4
<1>7. last \in Seq(Msg) /\ Rising(last)
      /\ Elements(last) = IF spilled' = {} THEN {} ELSE {ev}
  <2>1. <<ev>> \in Seq(Msg) /\ Elements(<<ev>>) = {ev} /\ Rising(<<ev>>)
    BY <1>2, OneElement
  <2>2. CASE spilled' = {}
    BY <2>2, NoElements
  <2>3. CASE spilled' # {}
    BY <2>1, <2>3
  <2> QED BY <2>2, <2>3
<1> HIDE DEF last
<1>8. spilled' = spilled \union lost
      /\ lost \subseteq {m.at : m \in Elements(slot)}
      /\ {m.at : m \in Elements(slot)} \subseteq
           {m.at : m \in Elements(queued)} \union lost
  BY <1>1, <1>4
<1>9. channel' = channel \o q
  <2>1. channel \in Seq(Msg)
    BY DEF IInv, TypeInv
  <2>2. (channel \o queued) \o last = channel \o (queued \o last)
    BY <2>1, <1>6, <1>7
  <2> QED BY <2>2, <1>1
<1>10. /\ Pipe = Passed \union Elements(slot) /\ Pipe \subseteq Msg
       /\ \A m \in Pipe : m.what = "event" /\ m.op = started
       /\ \A m \in Elements(slot) : m.at \in 1..published
  BY <1>1, PipeFacts DEF IInv, StageInv
<1>11. \A m \in Pipe : Before(m, ev)
  BY <1>2, <1>10 DEF Before
<1>12. q \in Seq(Msg) /\ Elements(q) = Elements(queued) \union Elements(last)
       /\ Rising(q)
  BY <1>6, <1>7, <1>10, <1>11, Joined
<1> HIDE DEF q
<1>13. Supply(q)
  <2>1. \A m \in Elements(q) : m.op = started /\ m.what # "other"
    BY <1>2, <1>6, <1>7, <1>10, <1>12
  <2>2. Below(Passed, Elements(q))
    <3>1. Below(Passed, Elements(slot))
      BY DEF IInv, OrderInv, Passed, Below
    <3> QED BY <3>1, <1>6, <1>7, <1>10, <1>11, <1>12 DEF Below
  <2>3. slot' \in Seq(Msg) /\ Elements(slot') = {}
    BY <1>1, NoElements
  <2> QED BY <2>1, <2>2, <2>3, <1>1, <1>9, <1>12 DEF Supply, Below, uiVars
<1>14. /\ channel' \in Seq(Msg) /\ OrderInv'
       /\ Pipe' = Passed \union Elements(queued) \union Elements(last)
  <2>1. Elements(slot') = {}
    BY <1>1, NoElements
  <2> QED BY <2>1, <1>1, <1>12, <1>13, Supplied
<1>15. EventsIn(Pipe') = EventsIn(Passed \union Elements(queued))
  BY <1>2, <1>7, <1>14 DEF EventsIn
<1>16. /\ EventsIn(Pipe') \subseteq EventsIn(Pipe)
       /\ EventsIn(Pipe) \subseteq EventsIn(Pipe') \union spilled'
  <2>1. EventsIn(Pipe') \subseteq EventsIn(Pipe)
    BY <1>6, <1>10, <1>15 DEF EventsIn
  <2>2. ASSUME NEW m \in Pipe, m.what = "event"
        PROVE  m.at \in EventsIn(Pipe') \union spilled'
    <3>1. CASE m \in Passed
      BY <3>1, <2>2, <1>15 DEF EventsIn
    <3>2. CASE m \in Elements(slot)
      <4>1. m.at \in lost \/ \E x \in Elements(queued) : x.at = m.at
        BY <3>2, <1>8
      <4>2. \A x \in Elements(queued) : x.at \in EventsIn(Pipe')
        BY <1>6, <1>10, <1>15 DEF EventsIn
      <4> QED BY <4>1, <4>2, <1>8
    <3> QED BY <3>1, <3>2, <1>10
  <2>3. EventsIn(Pipe) \subseteq EventsIn(Pipe') \union spilled'
    BY <2>2 DEF EventsIn
  <2> QED BY <2>1, <2>3
<1>17. MessageInv'
  <2>1. EventsIn(Pipe') \subseteq 1..published'
    BY <1>1, <1>16 DEF IInv, MessageInv
  <2> QED BY <2>1, <1>1, <1>13, Supplied
<1>18. spilled' \subseteq 1..published
  <2>1. {m.at : m \in Elements(slot)} \subseteq 1..published
    BY <1>10, Zenon
  <2>2. spilled \subseteq 1..published
    BY DEF IInv, TypeInv
  <2> QED
    BY <1>8, <2>1, <2>2, Zenon
<1>19. TypeInv'
  BY <1>1, <1>5, <1>14, <1>18 DEF IInv, TypeInv
<1>20. WorkerInv'
  BY <1>1 DEF IInv, WorkerInv
<1>21. StageInv'
  <2>1. \A m \in Pipe' : m.what # "result"
    BY <1>2, <1>6, <1>7, <1>10, <1>14
  <2> QED BY <2>1, <1>1 DEF StageInv
<1>22. AccountInv'
  <2>1. Accounted(published', EventsIn(Pipe'), spilled', script')
    <3>1. EventsIn(Pipe) \union spilled \subseteq EventsIn(Pipe') \union spilled'
      BY <1>8, <1>16
    <3>2. Accounted(published, EventsIn(Pipe), spilled, script)
      BY DEF IInv, AccountInv
    <3>3. Accounted(published, EventsIn(Pipe'), spilled', script)
      BY <3>1, <3>2, <1>16, LoggedIsAccounted
    <3> QED BY <3>3, <1>1
  <2>2. spilled' # {} => \E m \in Pipe' : m.what = "notice"
    BY <1>2, <1>7, <1>14
  <2>3. style' = "direct" => spilled' = {}
    <3>1. style = "direct" => spilled = {} /\ slot = << >>
      BY DEF IInv, AccountInv, StageInv
    <3>2. slot = << >> => lost = {}
      BY <1>8, NoElements
    <3> QED BY <3>1, <3>2, <1>1, <1>8
  <2> QED BY <2>1, <2>2, <2>3 DEF AccountInv
<1> QED BY <1>14, <1>17, <1>19, <1>20, <1>21, <1>22 DEF IInv

LEMMA OtherAnswerPreserves == ASSUME IInv, OtherAnswer PROVE IInv'
<1>1. /\ operation # 0 /\ channel' = Append(channel, Other)
      /\ UNCHANGED <<operation, started, worker, style, script, published, sent,
                     spilled, slot, ui, taken, batch, seen, answered>>
  BY DEF OtherAnswer, uiVars, workerVars
<1>2. Other \in Msg /\ Other.op = 0 /\ Other.what = "other"
  BY DEF Other, Msg
<1>3. channel \in Seq(Msg) /\ Rising(channel)
  BY DEF IInv, TypeInv, OrderInv
<1>4. /\ channel' \in Seq(Msg) /\ Rising(channel')
      /\ Elements(channel') = Elements(channel) \union {Other}
  BY <1>1, <1>2, <1>3, Appended
<1>5. Queued' = Queued
  BY <1>1, <1>2, <1>4 DEF Queued, Mine
<1>6. Pipe' = Pipe
  BY <1>1, <1>5 DEF Pipe
<1>7. TypeInv'
  BY <1>1, <1>4 DEF IInv, TypeInv
<1>8. MessageInv'
  BY <1>1, <1>4, <1>6 DEF IInv, MessageInv, Other
<1>9. WorkerInv'
  BY <1>1, <1>5 DEF IInv, WorkerInv
<1>10. StageInv'
  BY <1>1, <1>6 DEF IInv, StageInv
<1>11. OrderInv'
  BY <1>1, <1>4, <1>5 DEF IInv, OrderInv
<1>12. AccountInv'
  BY <1>1, <1>6 DEF IInv, AccountInv
<1> QED BY <1>7, <1>8, <1>9, <1>10, <1>11, <1>12 DEF IInv

LEMMA BeginPreserves == ASSUME IInv, Begin PROVE IInv'
<1>1. /\ operation = 0 /\ ui = "Idle" /\ started' = started + 1
      /\ operation' = started + 1 /\ worker' = "Publish"
      /\ style' \in {"slot", "direct"} /\ script' \in Scripts
      /\ published' = 0 /\ sent' = 0 /\ spilled' = {}
      /\ seen' = << >> /\ answered' = FALSE
      /\ UNCHANGED <<slot, channel, ui, taken, batch>>
  BY DEF Begin
<1>2. worker = "None" /\ batch = << >> /\ slot = << >>
  BY <1>1 DEF IInv, WorkerInv, StageInv
<1>3. Queued' = {}
  <2>1. \A m \in Elements(channel) : m.what = "other" \/ m.op \in 1..started
    BY DEF IInv, MessageInv, Other
  <2>2. started \in Nat
    BY DEF IInv, TypeInv
  <2> QED BY <2>1, <2>2, <1>1 DEF Queued, Mine
<1>4. /\ Elements(seen') = {} /\ Elements(batch') = {} /\ Elements(slot') = {}
      /\ Rising(seen') /\ Rising(batch')
  BY <1>1, <1>2, NoElements
<1>5. Pipe' = {} /\ EventsIn(Pipe') = {}
  BY <1>3, <1>4 DEF Pipe, EventsIn
<1>6. TypeInv'
  <2>1. script' \in Seq(Event) /\ 0 \in 0..Len(script') /\ 0 \in 0..Retained
    BY <1>1, TransportAssumption
  <2>2. << >> \in Seq(Msg) /\ started + 1 \in Nat /\ {} \subseteq 1..0
    BY DEF IInv, TypeInv
  <2>3. /\ slot' \in Seq(Msg) /\ channel' \in Seq(Msg) /\ batch' \in Seq(Msg)
        /\ ui' \in {"Idle", "Polling", "Joining", "Waiting", "Gone"}
        /\ taken' \in Nat
    BY <1>1 DEF IInv, TypeInv
  <2> QED BY <2>1, <2>2, <2>3, <1>1 DEF TypeInv
<1>7. MessageInv'
  BY <1>1, <1>4, <1>5 DEF IInv, TypeInv, MessageInv
<1>8. WorkerInv'
  BY <1>1, <1>2 DEF IInv, TypeInv, WorkerInv
<1>9. StageInv'
  BY <1>1, <1>2, <1>5 DEF StageInv
<1>10. OrderInv'
  BY <1>1, <1>3, <1>4 DEF IInv, OrderInv, Below
<1>11. AccountInv'
  BY <1>1, <1>5 DEF AccountInv, Accounted
<1> QED BY <1>6, <1>7, <1>8, <1>9, <1>10, <1>11 DEF IInv
-----------------------------------------------------------------------------
(***************************************************************************)
(* The interface's steps.                                                  *)
(***************************************************************************)
\* A message that is not of the running operation is dropped.
LEMMA DropPreserves ==
  ASSUME IInv, ui = "Polling", channel # << >>, channel' = Tail(channel),
         Head(channel).op # operation \/ Head(channel) = Other,
         taken' = taken + 1,
         UNCHANGED <<operation, started, worker, style, script, published, sent,
                     spilled, slot, ui, batch, seen, answered>>
  PROVE  IInv'
<1> DEFINE m == Head(channel)
<1>1. /\ channel' \in Seq(Msg) /\ Rising(channel')
      /\ Elements(channel) = {m} \union Elements(channel')
  BY Taken DEF IInv, TypeInv, OrderInv
<1>2. ~ (Mine(m) /\ m \in Elements(channel))
  <2>1. CASE operation = started
    BY <2>1 DEF Mine, Other
  <2>2. CASE operation # started
    <3>1. Queued = {}
      BY <2>2 DEF IInv, TypeInv, WorkerInv
    <3> QED BY <3>1 DEF Queued
  <2> QED BY <2>1, <2>2
<1> HIDE DEF m
<1>3. Queued' = Queued
  BY <1>1, <1>2 DEF Queued, Mine
<1>4. Pipe' = Pipe
  BY <1>3 DEF Pipe
<1>5. TypeInv'
  BY <1>1 DEF IInv, TypeInv
<1>6. MessageInv'
  BY <1>1, <1>4 DEF IInv, MessageInv
<1>7. WorkerInv'
  BY <1>3 DEF IInv, WorkerInv
<1>8. StageInv'
  BY <1>4 DEF IInv, StageInv
<1>9. OrderInv'
  BY <1>1, <1>3 DEF IInv, OrderInv
<1>10. AccountInv'
  BY <1>4 DEF IInv, AccountInv
<1> QED BY <1>5, <1>6, <1>7, <1>8, <1>9, <1>10 DEF IInv

\* The first message of the channel is the operation's.
LEMMA OwnMessage ==
  ASSUME IInv, ui = "Polling", channel # << >>, channel' = Tail(channel),
         started' = started, Head(channel).op = operation, Head(channel).what # "other"
  PROVE  /\ operation = started /\ started # 0
         /\ Head(channel) \in Msg /\ Head(channel) \in Queued
         /\ channel' \in Seq(Msg) /\ Rising(channel')
         /\ Elements(channel') \subseteq Elements(channel)
         /\ Queued = {Head(channel)} \union Queued'
         /\ Below({Head(channel)}, Queued')
<1> DEFINE m == Head(channel)
<1>1. /\ m \in Msg /\ channel' \in Seq(Msg) /\ Rising(channel')
      /\ Elements(channel) = {m} \union Elements(channel')
      /\ \A n \in Elements(channel') : n.op = m.op /\ n.op # 0 => Before(m, n)
  BY Taken DEF IInv, TypeInv, OrderInv
<1> HIDE DEF m
<1>2. m.op = operation /\ m.what # "other" /\ m \in Elements(channel)
  BY <1>1 DEF m
<1>3. m.op \in 1..started
  BY <1>2 DEF IInv, MessageInv, Other
<1>4. operation = started /\ started # 0
  BY <1>2, <1>3 DEF IInv, TypeInv
<1>5. m \in Queued /\ Queued = {m} \union Queued'
  BY <1>1, <1>2, <1>4 DEF Queued, Mine
<1>6. Below({m}, Queued')
  BY <1>1, <1>2, <1>4 DEF Below, Queued, Mine
<1> QED BY <1>1, <1>4, <1>5, <1>6 DEF m

LEMMA TakePreserves ==
  ASSUME IInv, ui = "Polling", channel # << >>, channel' = Tail(channel),
         Head(channel).op = operation, Head(channel).what \in {"event", "notice"},
         batch' = IF style = "slot" THEN Push(batch, Head(channel))
                                    ELSE Append(batch, Head(channel)),
         taken' = taken + 1,
         UNCHANGED <<operation, started, worker, style, script, published, sent,
                     spilled, slot, ui, seen, answered>>
  PROVE  IInv'
<1> DEFINE m == Head(channel)
<1>1. /\ operation = started /\ started # 0 /\ m \in Msg /\ m \in Queued
      /\ channel' \in Seq(Msg) /\ Rising(channel')
      /\ Elements(channel') \subseteq Elements(channel)
      /\ Queued = {m} \union Queued' /\ Below({m}, Queued')
      /\ m.what \in {"event", "notice"}
  BY OwnMessage
<1>2. m.op = started
  BY <1>1
<1>3. batch \in Seq(Msg) /\ Rising(batch)
  BY DEF IInv, TypeInv, OrderInv
<1>4. \A x \in Elements(batch) : x.op = m.op /\ x.op # 0 /\ Before(x, m)
  BY <1>1, <1>2 DEF IInv, MessageInv, OrderInv, Below
<1>5. PushedOnto(batch', batch, m)
  <2>1. PushedOnto(Append(batch, m), batch, m)
    BY <1>1, <1>3, <1>4, AppendsOnto
  <2>2. PushedOnto(Push(batch, m), batch, m)
    BY <1>1, <1>3, <1>4, PushesOnto
  <2> QED BY <2>1, <2>2
<1> HIDE DEF m
<1>6. /\ batch' \in Seq(Msg) /\ Rising(batch')
      /\ Elements(batch') \subseteq Elements(batch) \union {m}
      /\ \A x \in Elements(batch) \union {m} :
           x.what # "event" => x \in Elements(batch')
  BY <1>5 DEF PushedOnto, Replaces
<1> DEFINE S == Elements(seen)
           T == Queued' \union Elements(slot)
<1>7. /\ Pipe = ((S \union Elements(batch)) \union {m}) \union T
      /\ Pipe' = (S \union Elements(batch')) \union T
  BY <1>1 DEF Pipe
<1>8. /\ Below(S, Elements(batch)) /\ Below(S, {m}) /\ Below(S, T)
      /\ Below(Elements(batch), {m}) /\ Below(Elements(batch), T)
      /\ Below({m}, T) /\ Below(Queued', Elements(slot))
  BY <1>1 DEF IInv, OrderInv, Below
<1> HIDE DEF S, T
<1>9. Pipe' \subseteq Pipe /\ EventsIn(Pipe') \subseteq EventsIn(Pipe)
  <2>1. Pipe' \subseteq Pipe
    BY <1>6, <1>7
  <2> QED BY <2>1 DEF EventsIn
<1>10. TypeInv'
  BY <1>1, <1>6 DEF IInv, TypeInv
<1>11. MessageInv'
  <2>1. \A x \in Elements(channel') :
          x = Other \/ (x.op \in 1..started' /\ x.what # "other")
    BY <1>1 DEF IInv, MessageInv
  <2>2. \A x \in Elements(batch') :
          x.op = started' /\ x.op # 0 /\ x.what \in {"event", "notice"}
    BY <1>1, <1>2, <1>6 DEF IInv, MessageInv
  <2> QED BY <2>1, <2>2, <1>9 DEF IInv, MessageInv, Other
<1>12. WorkerInv'
  BY <1>1 DEF IInv, WorkerInv
<1>13. StageInv'
  BY <1>9 DEF IInv, StageInv
<1>14. OrderInv'
  <2>1. Below(Elements(seen'), Elements(batch'))
    BY <1>6, <1>8 DEF Below, S
  <2>2. Below(Elements(seen'), Queued') /\ Below(Elements(seen'), Elements(slot'))
    BY <1>8 DEF Below, S, T
  <2>3. Below(Elements(batch'), Queued') /\ Below(Elements(batch'), Elements(slot'))
    BY <1>6, <1>8 DEF Below, T
  <2> QED BY <2>1, <2>2, <2>3, <1>1, <1>6, <1>8 DEF IInv, OrderInv
<1>15. AccountInv'
  <2>1. Accounted(published, EventsIn(Pipe), spilled, script)
        /\ EventsIn(Pipe) \subseteq 1..published /\ published \in Nat
    BY PipeFacts DEF IInv, AccountInv, MessageInv
  <2>2. Accounted(published, EventsIn(Pipe'), spilled, script)
    BY <2>1, <1>5, <1>7, <1>8, PushIsAccounted
  <2>3. ASSUME NEW x \in Pipe, x.what = "notice" PROVE x \in Pipe'
    BY <2>3, <1>6, <1>7
  <2> QED BY <2>2, <2>3 DEF IInv, AccountInv
<1> QED BY <1>10, <1>11, <1>12, <1>13, <1>14, <1>15 DEF IInv

\* The result is the operation's last message.
LEMMA ResultPreserves ==
  ASSUME IInv, ui = "Polling", channel # << >>, channel' = Tail(channel),
         Head(channel).op = operation, Head(channel).what = "result",
         ui' = "Joining", taken' = taken + 1,
         UNCHANGED <<operation, started, worker, style, script, published, sent,
                     spilled, slot, batch, seen, answered>>
  PROVE  IInv'
<1> DEFINE m == Head(channel)
<1>1. /\ operation = started /\ started # 0 /\ m \in Msg /\ m \in Queued
      /\ channel' \in Seq(Msg) /\ Rising(channel')
      /\ Elements(channel') \subseteq Elements(channel)
      /\ Queued = {m} \union Queued' /\ Below({m}, Queued')
      /\ m.what = "result"
  BY OwnMessage
<1> HIDE DEF m
<1>2. Queued' = {} /\ Queued = {m}
  <2>1. \A n : ~ Before(m, n)
    BY <1>1 DEF Before
  <2> QED BY <2>1, <1>1 DEF Below
<1>3. worker \in {"Exit", "None"} /\ slot = << >>
  <2>1. m \in Pipe
    BY <1>1 DEF Pipe
  <2> QED BY <2>1, <1>1 DEF IInv, TypeInv, StageInv
<1>4. Pipe = Pipe' \union {m}
  BY <1>2 DEF Pipe
<1>5. EventsIn(Pipe') = EventsIn(Pipe)
  BY <1>1, <1>4 DEF EventsIn
<1>6. TypeInv'
  BY <1>1 DEF IInv, TypeInv
<1>7. MessageInv'
  BY <1>1, <1>5 DEF IInv, MessageInv, Other
<1>8. WorkerInv'
  BY <1>1, <1>2, <1>3 DEF IInv, WorkerInv
<1>9. StageInv'
  BY <1>3 DEF StageInv
<1>10. OrderInv'
  BY <1>1, <1>2 DEF IInv, OrderInv, Below
<1>11. AccountInv'
  BY <1>1, <1>4, <1>5 DEF IInv, AccountInv
<1> QED BY <1>6, <1>7, <1>8, <1>9, <1>10, <1>11 DEF IInv

LEMMA TakeMessagePreserves == ASSUME IInv, TakeMessage PROVE IInv'
<1>1. /\ ui = "Polling" /\ channel # << >> /\ channel' = Tail(channel)
      /\ taken' = taken + 1
      /\ UNCHANGED <<operation, started, worker, style, script, published, sent,
                     spilled, slot, seen, answered>>
  BY DEF TakeMessage, workerVars
<1>2. \/ /\ Head(channel).op # operation \/ Head(channel) = Other
         /\ UNCHANGED <<ui, batch>>
      \/ /\ Head(channel).op = operation
         /\ Head(channel).what \in {"event", "notice"}
         /\ batch' = IF style = "slot" THEN Push(batch, Head(channel))
                                       ELSE Append(batch, Head(channel))
         /\ UNCHANGED ui
      \/ /\ Head(channel).op = operation /\ Head(channel).what = "result"
         /\ ui' = "Joining" /\ UNCHANGED batch
  BY DEF TakeMessage
<1> QED BY <1>1, <1>2, DropPreserves, TakePreserves, ResultPreserves

LEMMA JoinPreserves == ASSUME IInv, Join PROVE IInv'
<1>1. /\ ui = "Joining" /\ worker = "None" /\ operation' = 0
      /\ answered' = TRUE /\ ui' = "Polling"
      /\ UNCHANGED <<started, worker, style, script, published, sent, spilled,
                     slot, channel, taken, batch, seen>>
  BY DEF Join, workerVars
<1>2. Queued' = Queued /\ Pipe' = Pipe /\ MessageInv' /\ OrderInv'
  BY <1>1, StillPipe
<1>3. TypeInv'
  BY <1>1 DEF IInv, TypeInv
<1>4. WorkerInv'
  BY <1>1, <1>2 DEF IInv, WorkerInv
<1>5. StageInv'
  BY <1>1, <1>2 DEF IInv, StageInv
<1>6. AccountInv'
  BY <1>1, <1>2 DEF IInv, AccountInv
<1> QED BY <1>2, <1>3, <1>4, <1>5, <1>6 DEF IInv

\* What is left of the batch is shown; nothing else moves.
LEMMA ShowsBatch ==
  ASSUME IInv, seen' = seen \o batch, batch' = << >>, ui = "Polling", ui' = "Idle",
         taken' = 0,
         UNCHANGED <<operation, started, worker, style, script, published, sent,
                     spilled, slot, channel, answered>>
  PROVE  IInv'
<1>1. seen \in Seq(Msg) /\ batch \in Seq(Msg)
  BY DEF IInv, TypeInv
<1>2. /\ seen' \in Seq(Msg) /\ Rising(seen')
      /\ Elements(seen') = Elements(seen) \union Elements(batch)
  BY <1>1, Joined DEF IInv, OrderInv, Below
<1>3. Elements(batch') = {} /\ Rising(batch') /\ batch' \in Seq(Msg)
  BY NoElements
<1>4. Queued' = Queued
  BY DEF Queued, Mine
<1>5. Pipe' = Pipe
  BY <1>2, <1>3, <1>4 DEF Pipe
<1>6. TypeInv'
  BY <1>2, <1>3 DEF IInv, TypeInv
<1>7. MessageInv'
  BY <1>2, <1>3, <1>5 DEF IInv, MessageInv, Other
<1>8. WorkerInv'
  BY <1>4 DEF IInv, WorkerInv
<1>9. StageInv'
  BY <1>5 DEF IInv, StageInv
<1>10. OrderInv'
  BY <1>2, <1>3, <1>4 DEF IInv, OrderInv, Below
<1>11. AccountInv'
  BY <1>5 DEF IInv, AccountInv
<1> QED BY <1>6, <1>7, <1>8, <1>9, <1>10, <1>11 DEF IInv

\* The slot follows an empty channel.
LEMMA DrainsSlot ==
  ASSUME IInv, slot # << >>, channel = << >>, slot' = << >>,
         seen' = seen \o Push(batch, slot[1]), batch' = << >>,
         ui = "Polling", ui' = "Idle", taken' = 0,
         UNCHANGED <<operation, started, worker, style, script, published, sent,
                     spilled, channel, answered>>
  PROVE  IInv'
<1> DEFINE o == slot[1]
           new == Push(batch, o)
<1>1. seen \in Seq(Msg) /\ batch \in Seq(Msg) /\ Rising(seen) /\ Rising(batch)
  BY DEF IInv, TypeInv, OrderInv
<1>2. Elements(slot) = {o} /\ o \in Pipe /\ o \in Msg
  BY PipeFacts
<1>3. o.op = started /\ o.what = "event" /\ started # 0 /\ worker # "None"
  BY <1>2, PipeFacts DEF IInv, StageInv, WorkerInv
<1>4. Queued = {} /\ Queued' = {}
  BY NoElements DEF Queued
<1>5. /\ Below(Elements(seen), Elements(batch)) /\ Below(Elements(seen), {o})
      /\ Below(Elements(batch), {o})
  BY <1>2 DEF IInv, OrderInv
<1> HIDE DEF o
<1>6. \A x \in Elements(batch) : x.op = o.op /\ x.op # 0 /\ Before(x, o)
  BY <1>3, <1>5 DEF IInv, MessageInv, Below
<1>7. PushedOnto(new, batch, o)
  BY <1>1, <1>2, <1>6, PushesOnto
<1>8. seen' = seen \o new
  BY DEF o
<1> HIDE DEF new
<1>9. /\ new \in Seq(Msg) /\ Rising(new)
      /\ Elements(new) \subseteq Elements(batch) \union {o}
      /\ \A x \in Elements(batch) \union {o} :
           x.what # "event" => x \in Elements(new)
  BY <1>7 DEF PushedOnto, Replaces
<1>10. /\ seen' \in Seq(Msg) /\ Rising(seen')
       /\ Elements(seen') = Elements(seen) \union Elements(new)
  BY <1>1, <1>5, <1>8, <1>9, Joined DEF Below
<1>11. /\ Elements(batch') = {} /\ Rising(batch') /\ batch' \in Seq(Msg)
       /\ Elements(slot') = {} /\ slot' \in Seq(Msg)
  BY NoElements
<1>12. /\ Pipe = ((Elements(seen) \union Elements(batch)) \union {o}) \union {}
       /\ Pipe' = (Elements(seen) \union Elements(new)) \union {}
  BY <1>2, <1>4, <1>10, <1>11 DEF Pipe
<1>13. Pipe' \subseteq Pipe /\ EventsIn(Pipe') \subseteq EventsIn(Pipe)
  <2>1. Pipe' \subseteq Pipe
    BY <1>9, <1>12
  <2> QED BY <2>1 DEF EventsIn
<1>14. TypeInv'
  BY <1>10, <1>11 DEF IInv, TypeInv
<1>15. MessageInv'
  <2>1. \A x \in Elements(seen') :
          x.op = started' /\ x.op # 0 /\ x.what \in {"event", "notice"}
    BY <1>3, <1>9, <1>10 DEF IInv, MessageInv
  <2> QED BY <2>1, <1>11, <1>13 DEF IInv, MessageInv, Other
<1>16. WorkerInv'
  BY <1>4 DEF IInv, WorkerInv
<1>17. StageInv'
  BY <1>13 DEF IInv, StageInv
<1>18. OrderInv'
  BY <1>4, <1>10, <1>11 DEF IInv, OrderInv, Below
<1>19. AccountInv'
  <2>1. Accounted(published, EventsIn(Pipe), spilled, script)
        /\ EventsIn(Pipe) \subseteq 1..published /\ published \in Nat
    BY PipeFacts DEF IInv, AccountInv, MessageInv
  <2>2. Below({o}, {})
    BY DEF Below
  <2>3. Accounted(published, EventsIn(Pipe'), spilled, script)
    BY <2>1, <2>2, <1>5, <1>7, <1>12, PushIsAccounted
  <2>4. ASSUME NEW x \in Pipe, x.what = "notice" PROVE x \in Pipe'
    BY <2>4, <1>9, <1>12
  <2> QED BY <2>3, <2>4 DEF IInv, AccountInv
<1> QED BY <1>14, <1>15, <1>16, <1>17, <1>18, <1>19 DEF IInv

LEMMA EndPollPreserves == ASSUME IInv, EndPoll PROVE IInv'
<1>1. /\ ui = "Polling" /\ ui' = "Idle" /\ taken' = 0 /\ batch' = << >>
      /\ taken = PollLimit \/ channel = << >>
      /\ slot' = IF taken < PollLimit THEN << >> ELSE slot
      /\ seen' = seen \o (IF taken < PollLimit /\ slot # << >>
                               /\ slot[1].op = operation
                          THEN Push(batch, slot[1]) ELSE batch)
      /\ UNCHANGED <<operation, started, worker, style, script, published, sent,
                     spilled, channel, answered>>
  BY DEF EndPoll, workerVars
<1>2. slot # << >> => slot[1].op = operation
  <2>1. slot # << >> => slot[1] \in Pipe /\ operation = started
    BY PipeFacts DEF IInv, StageInv, WorkerInv
  <2> QED BY <2>1, PipeFacts
<1>3. CASE taken < PollLimit /\ slot # << >>
  <2>1. channel = << >>
    BY <1>1, <1>3, TransportAssumption DEF IInv, TypeInv
  <2> QED BY <2>1, <1>1, <1>2, <1>3, DrainsSlot
<1>4. CASE ~ (taken < PollLimit /\ slot # << >>)
  <2>1. slot' = slot /\ seen' = seen \o batch
    BY <1>1, <1>4
  <2> QED BY <2>1, <1>1, ShowsBatch
<1> QED BY <1>3, <1>4

\* Nothing but the interface's stage changes.
LEMMA StagePreserves ==
  ASSUME IInv, StartPoll \/ TerminalFails \/ Waited
  PROVE  IInv'
<1>1. UNCHANGED <<started, worker, style, script, published, sent, spilled,
                  slot, channel, seen, answered>>
  BY DEF StartPoll, TerminalFails, Waited, workerVars
<1>2. batch' = batch /\ taken' \in Nat
  BY DEF StartPoll, TerminalFails, Waited, IInv, TypeInv, WorkerInv
<1>3. Queued' = Queued /\ Pipe' = Pipe /\ MessageInv' /\ OrderInv'
  BY <1>1, <1>2, StillPipe
<1>4. TypeInv'
  <2>1. operation' \in {0, started}
    BY DEF StartPoll, TerminalFails, Waited, IInv, TypeInv
  <2>2. ui' \in {"Idle", "Polling", "Joining", "Waiting", "Gone"}
    BY DEF StartPoll, TerminalFails, Waited, IInv, TypeInv
  <2> QED BY <2>1, <2>2, <1>1, <1>2 DEF IInv, TypeInv
<1>5. WorkerInv'
  <2>1. CASE StartPoll
    BY <2>1, <1>1, <1>2, <1>3 DEF StartPoll, IInv, WorkerInv
  <2>2. CASE TerminalFails
    BY <2>2, <1>1, <1>2, <1>3 DEF TerminalFails, IInv, WorkerInv
  <2>3. CASE Waited
    BY <2>3, <1>1, <1>2, <1>3 DEF Waited, IInv, WorkerInv
  <2> QED BY <2>1, <2>2, <2>3
<1>6. StageInv'
  BY <1>1, <1>3 DEF IInv, StageInv
<1>7. AccountInv'
  BY <1>1, <1>3 DEF IInv, AccountInv
<1> QED BY <1>3, <1>4, <1>5, <1>6, <1>7 DEF IInv
-----------------------------------------------------------------------------
(***************************************************************************)
(* The theorems.                                                           *)
(***************************************************************************)
LEMMA InitEstablishes == TransportInit => IInv
<1> SUFFICES ASSUME TransportInit PROVE IInv
  OBVIOUS
<1> USE DEF TransportInit
<1>1. /\ Elements(seen) = {} /\ Elements(batch) = {} /\ Elements(channel) = {}
      /\ Elements(slot) = {} /\ Rising(seen) /\ Rising(batch) /\ Rising(channel)
  BY NoElements
<1>2. Queued = {} /\ Pipe = {} /\ EventsIn(Pipe) = {}
  BY <1>1 DEF Queued, Pipe, EventsIn
<1>3. TypeInv
  <2>1. << >> \in Seq(Event) /\ << >> \in Seq(Msg) /\ 0 \in 0..Len(<< >>)
    OBVIOUS
  <2>2. 0 \in 0..Retained
    BY TransportAssumption
  <2> QED BY <2>1, <2>2 DEF TypeInv
<1>4. MessageInv
  BY <1>1, <1>2 DEF MessageInv
<1>5. WorkerInv
  BY <1>2 DEF WorkerInv
<1>6. StageInv
  BY <1>2 DEF StageInv
<1>7. OrderInv
  BY <1>1, <1>2 DEF OrderInv, Below
<1>8. AccountInv
  BY <1>2 DEF AccountInv, Accounted
<1> QED BY <1>3, <1>4, <1>5, <1>6, <1>7, <1>8 DEF IInv

LEMMA NextPreserves == IInv /\ [TransportNext]_transportVars => IInv'
<1> SUFFICES ASSUME IInv, [TransportNext]_transportVars PROVE IInv'
  OBVIOUS
<1>1. CASE Begin
  BY <1>1, BeginPreserves
<1>2. CASE Worker
  BY <1>2, PublishPreserves, ReturnPreserves, FlushPreserves, ReportPreserves,
     ExitPreserves DEF Worker
<1>3. CASE OtherAnswer
  BY <1>3, OtherAnswerPreserves
<1>4. CASE Interface
  BY <1>4, StagePreserves, TakeMessagePreserves, JoinPreserves, EndPollPreserves
     DEF Interface
<1>5. CASE TerminalFails
  BY <1>5, StagePreserves
<1>6. CASE UNCHANGED transportVars
  <2>1. UNCHANGED <<operation, started, worker, style, script, published, sent,
                    spilled, slot, channel, ui, taken, batch, seen, answered>>
    BY <1>6 DEF transportVars, workerVars, uiVars
  <2>2. Queued' = Queued /\ Pipe' = Pipe /\ MessageInv' /\ OrderInv'
    BY <2>1, StillPipe
  <2>3. TypeInv'
    BY <2>1 DEF IInv, TypeInv
  <2>4. WorkerInv' /\ StageInv' /\ AccountInv'
    BY <2>1, <2>2 DEF IInv, WorkerInv, StageInv, AccountInv
  <2> QED BY <2>2, <2>3, <2>4 DEF IInv
<1> QED BY <1>1, <1>2, <1>3, <1>4, <1>5, <1>6 DEF TransportNext

\* The invariant: types, whose messages are where, how far the worker is, the
\* order of the messages, and the account of those that are gone
\* (src/src/tui/task_progress.rs, task.rs).
THEOREM TransportInvariant == TransportSpec => []IInv
BY InitEstablishes, NextPreserves, PTL DEF TransportSpec

\* Losing the terminal never abandons a running worker: no worker runs unless
\* its operation is counted, and the loop's error ends the process only when
\* none runs (wait_for_critical_operation).  Nothing is said of the user's exit.
THEOREM TerminalLossAlwaysWaits == TransportSpec => []TerminalLossWaits
<1>1. IInv => TerminalLossWaits
  BY DEF IInv, WorkerInv, TerminalLossWaits
<1> QED BY <1>1, TransportInvariant, PTL

\* Whatever the budget, the poll's limit and the other workers' answers, what
\* is shown of an operation is in the order of its publication, the notice of
\* a spill last (poll_updates drains the slot only after an empty channel).
THEOREM ProgressGoesForward == TransportSpec => []NeverBackwards
<1>1. IInv => NeverBackwards
  <2> SUFFICES ASSUME IInv, NEW j \in 1..Len(seen), NEW k \in 1..Len(seen), j < k
               PROVE  /\ seen[j].what = "event"
                      /\ seen[k].what = "event" => seen[j].at < seen[k].at
    BY DEF NeverBackwards
  <2>1. seen[j] \in Elements(seen) /\ seen[k] \in Elements(seen)
    BY DEF Elements
  <2>2. /\ seen[j].op = started /\ seen[k].op = started /\ started # 0
        /\ seen[k].what \in {"event", "notice"}
    BY <2>1 DEF IInv, MessageInv
  <2>4. Before(seen[j], seen[k])
    BY <2>2 DEF IInv, OrderInv, Rising
  <2> QED BY <2>2, <2>4 DEF Before
<1> QED BY <1>1, TransportInvariant, PTL

\* When a result is shown, every published event has been shown, has been
\* told to be in the log, or has given way to a later snapshot that has:
\* for every budget and every race of the slot with the channel.
THEOREM EventsAreAccountedFor == TransportSpec => []NothingLostSilently
<1>1. IInv => NothingLostSilently
  <2> SUFFICES ASSUME IInv, answered, ui = "Idle", NEW i \in 1..published,
                      i \notin Kept
               PROVE  Superseded(i)
    BY DEF NothingLostSilently
  <2>1. operation = 0 /\ worker \in {"Exit", "None"} /\ Queued = {}
        /\ batch = << >> /\ slot = << >>
    BY DEF IInv, WorkerInv, StageInv
  <2>2. Pipe = Elements(seen)
    BY <2>1, NoElements DEF Pipe
  <2>3. EventsIn(Pipe) = Shown
    BY <2>2 DEF EventsIn, Elements, Shown
  <2>4. spilled # {} => Told
    BY <2>1, <2>2 DEF IInv, AccountInv, Told, Elements
  <2>5. EventsIn(Pipe) \union spilled = Kept
    BY <2>3, <2>4 DEF Kept
  <2>6. PICK j \in 1..published :
          j \in Kept /\ GaveWay(i, j, EventsIn(Pipe), script)
    BY <2>5 DEF IInv, AccountInv, Accounted
  <2> QED BY <2>3, <2>6 DEF Superseded, GaveWay, Coalescible, SameStream
<1> QED BY <1>1, TransportInvariant, PTL
=============================================================================

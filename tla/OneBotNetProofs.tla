--------------------------- MODULE OneBotNetProofs ---------------------------
(* What TLAPS proves of OneBotNet, for every number of nets, callers, calls *)
(* and events, and for every size of the buffer.                           *)
EXTENDS OneBotNet, TLAPS

(***************************************************************************)
(* What is in a buffer k and on a wire w.                                  *)
(***************************************************************************)
Elems(k)    == {k[i] : i \in DOMAIN k}
EventsIn(w) == {w[i].what : i \in {j \in DOMAIN w : w[j].kind = "event"}}
All(k, w)   == Elems(k) \cup EventsIn(w)

Ups(k) == \A i, j \in DOMAIN k : i < j => k[i] < k[j]
WireUps(w) ==
  \A i, j \in DOMAIN w :
    i < j /\ w[i].kind = "event" /\ w[j].kind = "event" => w[i].what < w[j].what

\* Those of a net whose connection is l, after em events: in order, without
\* a gap, and with the newest of them.
Good(k, w, l, em) ==
  /\ Ups(k) /\ WireUps(w)
  /\ \A e \in Elems(k) : \A f \in EventsIn(w) : e < f
  /\ \A e \in All(k, w) : e <= em
  /\ \A e, f \in All(k, w) : \A g \in e..f : g \in All(k, w)
  /\ l = "open" /\ All(k, w) # {} => em \in All(k, w)
  /\ l \in {"none", "opening"} => All(k, w) = {}

LEMMA AppendFacts ==
  \A S : \A s \in Seq(S) : \A x \in S :
    /\ Append(s, x) \in Seq(S)
    /\ Len(s) \in Nat /\ Len(Append(s, x)) = Len(s) + 1
    /\ DOMAIN s = 1..Len(s) /\ DOMAIN Append(s, x) = 1..(Len(s) + 1)
    /\ \A i \in 1..Len(s) : Append(s, x)[i] = s[i]
    /\ Append(s, x)[Len(s) + 1] = x
OBVIOUS

LEMMA TailFacts ==
  \A S : \A s \in Seq(S) : s # <<>> =>
    /\ Head(s) \in S /\ Tail(s) \in Seq(S)
    /\ Len(s) \in Nat /\ DOMAIN s = 1..Len(s) /\ 1 \in DOMAIN s
    /\ Len(Tail(s)) = Len(s) - 1
    /\ DOMAIN Tail(s) = 1..(Len(s) - 1)
    /\ \A i \in 1..(Len(s) - 1) : Tail(s)[i] = s[i + 1]
    /\ Head(s) = s[1]
OBVIOUS

LEMMA SeqElems == \A S : \A s \in Seq(S) : \A i \in DOMAIN s : s[i] \in S
OBVIOUS

LEMMA MessageFacts ==
  \A w \in Seq(MessageType) :
    /\ DOMAIN w = 1..Len(w) /\ Len(w) \in Nat
    /\ \A i \in DOMAIN w : /\ w[i].kind \in {"event", "answer"}
                           /\ w[i].kind = "event" => w[i].what \in Events
                           /\ w[i].kind = "answer" => w[i].what \in Calls
    /\ EventsIn(w) \subseteq Events
<1> SUFFICES ASSUME NEW w \in Seq(MessageType)
             PROVE  /\ DOMAIN w = 1..Len(w) /\ Len(w) \in Nat
                    /\ \A i \in DOMAIN w : /\ w[i].kind \in {"event", "answer"}
                                           /\ w[i].kind = "event" => w[i].what \in Events
                                           /\ w[i].kind = "answer" => w[i].what \in Calls
                    /\ EventsIn(w) \subseteq Events
  OBVIOUS
<1>1. DOMAIN w = 1..Len(w) /\ Len(w) \in Nat /\ \A i \in DOMAIN w : w[i] \in MessageType
  OBVIOUS
<1>2. \A m \in MessageType : /\ m.kind \in {"event", "answer"}
                             /\ m.kind = "event" => m.what \in Events
                             /\ m.kind = "answer" => m.what \in Calls
  BY DEF MessageType
<1> QED
  BY <1>1, <1>2 DEF EventsIn

LEMMA EventNumbers == Events \subseteq Nat /\ MaxEvents \in Nat /\ BufSize \in Nat
BY NetAssumption DEF Events

LEMMA EmptyFacts == Elems(<<>>) = {} /\ EventsIn(<<>>) = {} /\ Ups(<<>>) /\ WireUps(<<>>)
BY DEF Elems, EventsIn, Ups, WireUps

LEMMA AllNumbers ==
  \A k \in Seq(Events) : \A w \in Seq(MessageType) :
    Elems(k) \subseteq Nat /\ EventsIn(w) \subseteq Nat /\ All(k, w) \subseteq Nat
<1> SUFFICES ASSUME NEW k \in Seq(Events), NEW w \in Seq(MessageType)
             PROVE  Elems(k) \subseteq Nat /\ EventsIn(w) \subseteq Nat
  BY DEF All
<1>1. \A i \in DOMAIN k : k[i] \in Events
  BY SeqElems
<1>2. EventsIn(w) \subseteq Events
  BY MessageFacts
<1> QED
  BY <1>1, <1>2, EventNumbers DEF Elems

LEMMA TailWire ==
  ASSUME NEW w \in Seq(MessageType), w # <<>>
  PROVE  /\ EventsIn(w) = EventsIn(Tail(w)) \cup
              IF Head(w).kind = "event" THEN {Head(w).what} ELSE {}
         /\ WireUps(w) => WireUps(Tail(w))
         /\ WireUps(w) /\ Head(w).kind = "event" =>
              \A f \in EventsIn(Tail(w)) : Head(w).what < f
<1> DEFINE t == Tail(w)
<1>1. /\ Len(w) \in Nat /\ DOMAIN w = 1..Len(w) /\ 1 \in DOMAIN w
      /\ DOMAIN t = 1..(Len(w) - 1) /\ Head(w) = w[1]
      /\ \A i \in 1..(Len(w) - 1) : t[i] = w[i + 1]
  BY TailFacts
<1> HIDE DEF t
<1>2. \A i \in DOMAIN t : i + 1 \in DOMAIN w /\ t[i] = w[i + 1] /\ 1 < i + 1
  BY <1>1
<1>3. \A i \in DOMAIN w : i = 1 \/ (i - 1 \in DOMAIN t /\ t[i - 1] = w[i])
  BY <1>1
<1>4. \A i, j \in DOMAIN t : i < j => i + 1 < j + 1
  BY <1>1
<1>5. EventsIn(w) = EventsIn(t) \cup IF Head(w).kind = "event" THEN {Head(w).what} ELSE {}
  <2>1. \A f \in EventsIn(t) : f \in EventsIn(w)
    BY <1>2 DEF EventsIn
  <2>2. \A f \in EventsIn(w) : f \in EventsIn(t) \/ (w[1].kind = "event" /\ f = w[1].what)
    BY <1>3 DEF EventsIn
  <2>3. w[1].kind = "event" => w[1].what \in EventsIn(w)
    BY <1>1 DEF EventsIn
  <2> QED
    BY <1>1, <2>1, <2>2, <2>3
<1>6. WireUps(w) => WireUps(t)
  BY <1>2, <1>4 DEF WireUps
<1>7. ASSUME WireUps(w), Head(w).kind = "event", NEW f \in EventsIn(t) PROVE Head(w).what < f
  <2>1. PICK i \in DOMAIN t : t[i].kind = "event" /\ t[i].what = f
    BY <1>7 DEF EventsIn
  <2> QED
    BY <1>1, <1>2, <1>7, <2>1 DEF WireUps
<1> QED
  BY <1>5, <1>6, <1>7 DEF t

LEMMA AppendWire ==
  ASSUME NEW w \in Seq(MessageType), NEW m \in MessageType
  PROVE  /\ Append(w, m) \in Seq(MessageType)
         /\ EventsIn(Append(w, m)) = EventsIn(w) \cup
              IF m.kind = "event" THEN {m.what} ELSE {}
         /\ WireUps(w) /\ (m.kind = "event" => \A f \in EventsIn(w) : f < m.what)
              => WireUps(Append(w, m))
<1> DEFINE t == Append(w, m)
<1>1. /\ Len(w) \in Nat /\ DOMAIN w = 1..Len(w) /\ DOMAIN t = 1..(Len(w) + 1)
      /\ \A i \in 1..Len(w) : t[i] = w[i]
      /\ t[Len(w) + 1] = m /\ t \in Seq(MessageType)
  BY AppendFacts
<1> HIDE DEF t
<1>2. \A i \in DOMAIN t : \/ i \in DOMAIN w /\ t[i] = w[i]
                          \/ i = Len(w) + 1 /\ t[i] = m
  BY <1>1
<1>3. \A i \in DOMAIN w : i \in DOMAIN t /\ i < Len(w) + 1
  BY <1>1
<1>4. EventsIn(t) = EventsIn(w) \cup IF m.kind = "event" THEN {m.what} ELSE {}
  <2>1. \A f \in EventsIn(t) : f \in EventsIn(w) \/ (m.kind = "event" /\ f = m.what)
    BY <1>2 DEF EventsIn
  <2>2. \A f \in EventsIn(w) : f \in EventsIn(t)
    BY <1>1, <1>3 DEF EventsIn
  <2>3. m.kind = "event" => m.what \in EventsIn(t)
    <3>1. Len(w) + 1 \in DOMAIN t
      BY <1>1
    <3> QED
      BY <1>1, <3>1 DEF EventsIn
  <2> QED
    BY <2>1, <2>2, <2>3
<1>5. ASSUME WireUps(w), m.kind = "event" => \A f \in EventsIn(w) : f < m.what,
             NEW i \in DOMAIN t, NEW j \in DOMAIN t, i < j,
             t[i].kind = "event", t[j].kind = "event"
      PROVE  t[i].what < t[j].what
  <2>1. i \in DOMAIN w /\ t[i] = w[i]
    BY <1>1, <1>2, <1>5
  <2>2. CASE j \in DOMAIN w /\ t[j] = w[j]
    BY <1>5, <2>1, <2>2 DEF WireUps
  <2>3. CASE t[j] = m
    <3>1. t[i].what \in EventsIn(w)
      BY <1>5, <2>1 DEF EventsIn
    <3> QED
      BY <1>5, <2>3, <3>1
  <2> QED
    BY <1>2, <2>2, <2>3
<1> QED
  BY <1>1, <1>4, <1>5 DEF WireUps, t

\* add_event keeps what is newest, and as much of it as fits.
LEMMA AddEventFacts ==
  ASSUME NEW k \in Seq(Events), NEW e \in Events, Ups(k), \A f \in Elems(k) : f < e,
         Len(k) <= BufSize
  PROVE  LET t == AddEvent(k, e) IN
         /\ t \in Seq(Events) /\ Len(t) <= BufSize /\ Ups(t)
         /\ Elems(t) \subseteq Elems(k) \cup {e}
         /\ \A f \in Elems(t) : \A g \in Elems(k) \cup {e} : f < g => g \in Elems(t)
<1> DEFINE s == Append(k, e)
<1>1. /\ Len(k) \in Nat /\ DOMAIN k = 1..Len(k) /\ DOMAIN s = 1..(Len(k) + 1)
      /\ \A i \in 1..Len(k) : s[i] = k[i]
      /\ s[Len(k) + 1] = e /\ s \in Seq(Events) /\ Len(s) = Len(k) + 1
  BY AppendFacts
<1>2. s # <<>>
  BY <1>1
<1> HIDE DEF s
<1>3. \A i \in DOMAIN s : \/ i \in DOMAIN k /\ s[i] = k[i]
                          \/ i = Len(k) + 1 /\ s[i] = e
  BY <1>1
<1>4. Elems(s) = Elems(k) \cup {e}
  <2>1. \A x \in Elems(s) : x \in Elems(k) \/ x = e
    BY <1>3 DEF Elems
  <2>2. \A x \in Elems(k) : x \in Elems(s)
    <3>1. \A i \in DOMAIN k : i \in DOMAIN s /\ s[i] = k[i]
      BY <1>1
    <3> QED
      BY <3>1 DEF Elems
  <2>3. e \in Elems(s)
    <3>1. Len(k) + 1 \in DOMAIN s
      BY <1>1
    <3> QED
      BY <1>1, <3>1 DEF Elems
  <2> QED
    BY <2>1, <2>2, <2>3
<1>5. Ups(s)
  <2> SUFFICES ASSUME NEW i \in DOMAIN s, NEW j \in DOMAIN s, i < j PROVE s[i] < s[j]
    BY DEF Ups
  <2>1. i \in DOMAIN k /\ s[i] = k[i]
    BY <1>1, <1>3
  <2>2. s[i] \in Elems(k)
    BY <2>1 DEF Elems
  <2> QED
    BY <1>3, <2>1, <2>2 DEF Ups
<1>6. CASE ~(Len(k) + 1 > BufSize)
  <2>1. AddEvent(k, e) = s
    BY <1>6 DEF AddEvent, s
  <2>2. Len(s) <= BufSize
    BY <1>1, <1>6, EventNumbers
  <2> QED
    BY <1>1, <1>4, <1>5, <2>1, <2>2
<1>7. CASE Len(k) + 1 > BufSize
  <2> DEFINE t == Tail(s)
  <2>1. /\ t \in Seq(Events) /\ Len(t) = Len(s) - 1 /\ 1 \in DOMAIN s
        /\ DOMAIN t = 1..(Len(s) - 1)
        /\ \A i \in 1..(Len(s) - 1) : t[i] = s[i + 1]
    BY <1>1, <1>2, TailFacts
  <2>2. AddEvent(k, e) = t
    BY <1>7 DEF AddEvent, s
  <2> HIDE DEF t
  <2>3. Len(t) <= BufSize
    BY <1>1, <2>1, EventNumbers
  <2>4. \A i \in DOMAIN t : i + 1 \in DOMAIN s /\ t[i] = s[i + 1] /\ 1 < i + 1
    BY <1>1, <2>1
  <2>5. \A i \in DOMAIN s : i = 1 \/ (i - 1 \in DOMAIN t /\ t[i - 1] = s[i])
    BY <1>1, <2>1
  <2>6. Ups(t)
    <3>1. \A i, j \in DOMAIN t : i < j => i + 1 < j + 1
      BY <2>1, <1>1
    <3> QED
      BY <1>5, <2>4, <3>1 DEF Ups
  <2>7. Elems(t) \subseteq Elems(s)
    BY <2>4 DEF Elems
  <2>8. ASSUME NEW f \in Elems(t), NEW g \in Elems(s), f < g PROVE g \in Elems(t)
    <3>1. PICK i \in DOMAIN s : s[i] = g
      BY DEF Elems
    <3>2. PICK j \in DOMAIN t : t[j] = f
      BY DEF Elems
    <3>3. s[1] < f
      BY <1>5, <2>1, <2>4, <3>2 DEF Ups
    <3>4. i # 1
      <4>1. \A x \in DOMAIN s : s[x] \in Nat
        <5>1. \A x \in DOMAIN s : s[x] \in Events
          BY <1>1, SeqElems
        <5> QED
          BY <5>1, EventNumbers
      <4>2. f \in Nat
        BY <2>4, <3>2, <4>1
      <4> QED
        BY <2>1, <2>8, <3>1, <3>3, <4>1, <4>2
    <3> QED
      BY <2>5, <3>1, <3>4 DEF Elems
  <2> QED
    BY <1>4, <2>1, <2>2, <2>3, <2>6, <2>7, <2>8
<1> QED
  BY <1>6, <1>7

-----------------------------------------------------------------------------
(***************************************************************************)
(* What the steps do to what a net has.                                    *)
(***************************************************************************)
LEMMA GoodEmpty ==
  ASSUME NEW l, NEW em \in Nat PROVE Good(<<>>, <<>>, l, em)
BY EmptyFacts DEF Good, All

LEMMA GoodOpens ==
  ASSUME NEW k, NEW w, NEW l, NEW m, NEW em, Good(k, w, l, em), l \in {"none", "opening"}
  PROVE  Good(k, w, m, em) /\ All(k, w) = {}
BY DEF Good

LEMMA GoodEvent ==
  ASSUME NEW k \in Seq(Events), NEW w \in Seq(MessageType), NEW l, NEW em \in Nat,
         Good(k, w, l, em), Len(k) <= BufSize, w # <<>>, Head(w).kind = "event"
  PROVE  LET t == AddEvent(k, Head(w).what) IN
         /\ Good(t, Tail(w), l, em) /\ All(t, Tail(w)) \subseteq All(k, w)
         /\ t \in Seq(Events) /\ Len(t) <= BufSize
<1> DEFINE e == Head(w).what
           t == AddEvent(k, e)
           v == Tail(w)
<1>1. /\ EventsIn(w) = EventsIn(v) \cup {e} /\ WireUps(v)
      /\ \A f \in EventsIn(v) : e < f
  BY TailWire DEF Good
<1>2. e \in Events
  BY MessageFacts, TailFacts
<1>3. v \in Seq(MessageType)
  BY TailFacts
<1>4. \A f \in Elems(k) : f < e
  BY <1>1 DEF Good
<1> HIDE DEF e, v
<1>5. /\ t \in Seq(Events) /\ Len(t) <= BufSize /\ Ups(t)
      /\ Elems(t) \subseteq Elems(k) \cup {e}
      /\ \A f \in Elems(t) : \A g \in Elems(k) \cup {e} : f < g => g \in Elems(t)
  BY <1>2, <1>4, AddEventFacts DEF Good
<1> HIDE DEF t
<1>6. All(t, v) \subseteq All(k, w)
  BY <1>1, <1>5 DEF All
<1>7. \A f \in All(t, v) : \A g \in All(k, w) : f < g => g \in All(t, v)
  <2> SUFFICES ASSUME NEW f \in All(t, v), NEW g \in All(k, w), f < g, g \notin EventsIn(v)
               PROVE  g \in Elems(t)
    BY DEF All
  <2>1. g \in Elems(k) \cup {e}
    BY <1>1 DEF All
  <2>2. f \in Elems(t)
    <3> SUFFICES ASSUME f \in EventsIn(v) PROVE FALSE
      BY DEF All
    <3>1. e < f /\ f \in Nat /\ e \in Nat /\ g \in Nat
      BY <1>1, <1>2, <1>3, EventNumbers, AllNumbers
    <3>2. g = e \/ g < e
      BY <1>4, <2>1
    <3> QED
      BY <3>1, <3>2
  <2> QED
    BY <1>5, <2>1, <2>2
<1>8. \A f \in Elems(t) : \A g \in EventsIn(v) : f < g
  <2> SUFFICES ASSUME NEW f \in Elems(t), NEW g \in EventsIn(v) PROVE f < g
    OBVIOUS
  <2>1. e < g /\ (f = e \/ f < e)
    BY <1>1, <1>4, <1>5
  <2>2. f \in Nat /\ g \in Nat /\ e \in Nat
    BY <1>2, <1>3, <1>5, AllNumbers, EventNumbers
  <2> QED
    BY <2>1, <2>2
<1>9. All(t, v) \subseteq Nat
  BY <1>3, <1>5, AllNumbers
<1>10. \A f, g \in All(t, v) : \A h \in f..g : h \in All(t, v)
  <2> SUFFICES ASSUME NEW f \in All(t, v), NEW g \in All(t, v), NEW h \in f..g
               PROVE  h \in All(t, v)
    OBVIOUS
  <2>1. h \in All(k, w)
    BY <1>6 DEF Good
  <2>2. h = f \/ f < h
    BY <1>9
  <2> QED
    BY <1>7, <2>1, <2>2
<1>11. l = "open" /\ All(t, v) # {} => em \in All(t, v)
  <2> SUFFICES ASSUME l = "open", NEW f \in All(t, v) PROVE em \in All(t, v)
    OBVIOUS
  <2>1. em \in All(k, w) /\ f <= em
    BY <1>6 DEF Good
  <2>2. f = em \/ f < em
    BY <1>9, <2>1
  <2> QED
    BY <1>7, <2>1, <2>2
<1> QED
  BY <1>1, <1>5, <1>6, <1>8, <1>10, <1>11 DEF Good, t, e, v

LEMMA GoodAnswerRead ==
  ASSUME NEW k, NEW w \in Seq(MessageType), NEW l, NEW em,
         Good(k, w, l, em), w # <<>>, Head(w).kind = "answer"
  PROVE  Good(k, Tail(w), l, em) /\ All(k, Tail(w)) = All(k, w)
<1>1. Head(w).kind # "event"
  OBVIOUS
<1>2. EventsIn(w) = EventsIn(Tail(w)) /\ WireUps(Tail(w))
  <2>1. EventsIn(w) = EventsIn(Tail(w)) \cup {}
    BY <1>1, TailWire
  <2>2. WireUps(Tail(w))
    BY TailWire DEF Good
  <2> QED
    BY <2>1, <2>2
<1> QED
  BY <1>2 DEF Good, All

LEMMA GoodAnswerSent ==
  ASSUME NEW k, NEW w \in Seq(MessageType), NEW m \in MessageType, NEW l, NEW em,
         Good(k, w, l, em), m.kind = "answer"
  PROVE  Good(k, Append(w, m), l, em) /\ All(k, Append(w, m)) = All(k, w)
<1>1. EventsIn(Append(w, m)) = EventsIn(w) /\ WireUps(Append(w, m))
  BY AppendWire DEF Good
<1> QED
  BY <1>1 DEF Good, All

LEMMA GoodBreaks ==
  ASSUME NEW k \in Seq(Events), NEW w \in Seq(MessageType), NEW l, NEW em \in Nat, Good(k, w, l, em)
  PROVE  Good(k, <<>>, "closed", em) /\ All(k, <<>>) \subseteq All(k, w)
<1>1. All(k, <<>>) = Elems(k)
  BY EmptyFacts DEF All
<1>2. ASSUME NEW e \in Elems(k), NEW f \in Elems(k), NEW g \in e..f PROVE g \in Elems(k)
  <2>1. g \in All(k, w)
    BY <1>2 DEF Good, All
  <2>2. g \notin EventsIn(w)
    <3> SUFFICES ASSUME g \in EventsIn(w) PROVE FALSE
      OBVIOUS
    <3>1. f < g /\ g <= f /\ f \in Nat /\ g \in Nat
      BY AllNumbers DEF Good
    <3> QED
      BY <3>1
  <2> QED
    BY <2>1, <2>2 DEF All
<1> QED
  BY <1>1, <1>2, EmptyFacts DEF Good, All

LEMMA GoodTaken ==
  ASSUME NEW k \in Seq(Events), NEW w \in Seq(MessageType), NEW l, NEW em \in Nat, Good(k, w, l, em)
  PROVE  Good(<<>>, w, l, em) /\ All(<<>>, w) \subseteq All(k, w)
<1>1. All(<<>>, w) = EventsIn(w)
  BY EmptyFacts DEF All
<1>2. ASSUME NEW e \in EventsIn(w), NEW g \in All(k, w), e <= g PROVE g \in EventsIn(w)
  <2>1. g \notin Elems(k)
    <3> SUFFICES ASSUME g \in Elems(k) PROVE FALSE
      OBVIOUS
    <3>1. g < e /\ g \in Nat /\ e \in Nat
      BY AllNumbers DEF Good
    <3> QED
      BY <1>2, <3>1
  <2> QED
    BY <2>1 DEF All
<1>3. ASSUME NEW e \in EventsIn(w), NEW f \in EventsIn(w), NEW g \in e..f PROVE g \in EventsIn(w)
  <2>1. g \in All(k, w)
    BY <1>3 DEF Good, All
  <2>2. e <= g
    BY AllNumbers
  <2> QED
    BY <1>2, <2>1, <2>2
<1>4. l = "open" /\ EventsIn(w) # {} => em \in EventsIn(w)
  BY <1>2 DEF Good, All
<1> QED
  BY <1>1, <1>3, <1>4, EmptyFacts DEF Good, All

LEMMA GoodEmit ==
  ASSUME NEW k \in Seq(Events), NEW w \in Seq(MessageType), NEW em \in Nat, em + 1 \in Events,
         Good(k, w, "open", em)
  PROVE  LET v == Append(w, Message("event", em + 1)) IN
         Good(k, v, "open", em + 1) /\ All(k, v) = All(k, w) \cup {em + 1}
<1> DEFINE m == Message("event", em + 1)
           v == Append(w, m)
<1>1. m \in MessageType /\ m.kind = "event" /\ m.what = em + 1
  BY DEF Message, MessageType
<1> HIDE DEF m
<1>2. \A e \in All(k, w) : e \in Nat /\ e < em + 1
  <2>1. \A e \in All(k, w) : e \in Nat /\ e <= em
    BY AllNumbers DEF Good
  <2> QED
    BY <2>1
<1>3. EventsIn(v) = EventsIn(w) \cup {em + 1} /\ WireUps(v)
  BY <1>1, <1>2, AppendWire DEF Good, All
<1> HIDE DEF v
<1>4. All(k, v) = All(k, w) \cup {em + 1}
  BY <1>3 DEF All
<1>5. ASSUME NEW e \in All(k, v), NEW f \in All(k, v), NEW g \in e..f PROVE g \in All(k, v)
  <2>1. CASE g = em + 1
    BY <1>4, <2>1
  <2>2. CASE g # em + 1
    <3>1. g < em + 1 /\ e <= g /\ g \in Int
      BY <1>2, <1>4, <2>2
    <3>2. e \in All(k, w)
      BY <1>2, <1>4, <3>1
    <3>3. em \in All(k, w)
      BY <3>2 DEF Good
    <3>4. g \in e..em
      BY <1>2, <3>1, <3>2
    <3> QED
      BY <1>4, <3>2, <3>3, <3>4 DEF Good
  <2> QED
    BY <2>1, <2>2
<1>6. \A e \in All(k, v) : e <= em + 1
  BY <1>2, <1>4
<1>7. \A e \in Elems(k) : \A f \in EventsIn(v) : e < f
  BY <1>2, <1>3 DEF Good, All
<1>8. Good(k, v, "open", em + 1)
  BY <1>3, <1>4, <1>5, <1>6, <1>7 DEF Good
<1> QED
  BY <1>4, <1>8 DEF v, m

LEMMA GoodElsewhere ==
  ASSUME NEW k \in Seq(Events), NEW w \in Seq(MessageType), NEW l, NEW em \in Nat,
         Good(k, w, l, em), l # "open"
  PROVE  Good(k, w, l, em + 1)
<1>1. \A e \in All(k, w) : e \in Nat /\ e <= em
  BY AllNumbers DEF Good
<1>2. \A e \in All(k, w) : e <= em + 1
  BY <1>1
<1> QED
  BY <1>2 DEF Good

-----------------------------------------------------------------------------
(***************************************************************************)
(* The invariant.                                                          *)
(*                                                                         *)
(* Exists: what a shared_ptr leads to has not been destroyed.  CallsInv:   *)
(* where a call stands says whether its request may be about, and whoever  *)
(* has an answer has that of a call that was carried out.  Streams: what a *)
(* net has kept and is still to be given, see Good.  Links: is_run says    *)
(* that a connection was open and was not seen to close.  Places: what the *)
(* reconnecting thread has in hand.  Line: the nets Center takes its       *)
(* events from, one after the other; the earlier one has lost its          *)
(* connection, and what it has left is older.  Behind: what was taken is   *)
(* older still.                                                            *)
(***************************************************************************)
Types ==
  /\ link \in [Nets -> {"none", "opening", "open", "closed"}]
  /\ is_run \in [Nets -> BOOLEAN]
  /\ wire \in [Nets -> Seq(MessageType)]
  /\ event_vec \in [Nets -> Seq(Events)]
  /\ call_map \in [Nets -> SUBSET Calls]
  /\ net \in Nets /\ center \in Nets \cup {NoNet}
  /\ new_net \in Nets \cup {NoNet} /\ loop \in Nets \cup {NoNet}
  /\ login \in {"sleep", "connect", "publish"}
  /\ made \in [Callers -> 0..MaxCalls]
  /\ at \in [Calls -> {"idle", "copy", "put", "send", "connect", "wait", "remove", "back"}]
  /\ seen \in [Calls -> Nets \cup {NoNet}]
  /\ on \in [Calls -> Nets \cup {NoNet}] /\ outer \in [Calls -> Nets \cup {NoNet}]
  /\ answer \in [Calls -> Calls \cup {NoCall}] /\ result \in [Calls -> Calls \cup {NoCall}]
  /\ requests \subseteq [call : Calls, net : Nets \cup {NoNet}]
  /\ emitted \in 0..MaxEvents /\ taken \in Seq(Events) /\ torn \in BOOLEAN
  /\ runs \in [Calls -> 0..1]

Exists == \A n \in Nets : Held(n) => link[n] # "none"

Sent == {"wait", "remove", "back"}
AnswersIn(w) == {w[i].what : i \in {j \in DOMAIN w : w[j].kind = "answer"}}

CallsInv ==
  /\ \A c \in Calls : c[2] > made[c[1]] => at[c] = "idle"
  /\ \A r \in requests : runs[r.call] = 0 /\ at[r.call] \in Sent
  /\ \A r, s \in requests : r.call = s.call => r = s
  /\ \A c \in Calls : runs[c] = 1 => at[c] \in Sent
  /\ \A n \in Nets : \A c \in AnswersIn(wire[n]) : runs[c] = 1
  /\ \A c \in Calls : answer[c] # NoCall => answer[c] = c /\ runs[c] = 1
  /\ \A c \in Calls : result[c] # NoCall => result[c] = c /\ runs[c] = 1

Small   == \A n \in Nets : Len(event_vec[n]) <= BufSize
Streams == \A n \in Nets : Good(event_vec[n], wire[n], link[n], emitted)

Links ==
  \A n \in Nets : /\ link[n] = "open" => is_run[n]
                  /\ is_run[n] => link[n] \in {"open", "closed"}

Places ==
  /\ link[net] \in {"open", "closed"}
  /\ login = "sleep" => new_net = NoNet /\ center = net
  /\ login = "connect" => new_net \in Nets /\ new_net # net /\ center = net
  /\ login = "publish" => new_net = net /\ center # net

Has(n) == All(event_vec[n], wire[n])

Before(n, m) ==
  /\ n # m
  /\ \/ n = loop /\ m \in {center, net, new_net}
     \/ n = center /\ m \in {net, new_net}
     \/ n = net /\ m = new_net

Line ==
  \A n, m \in Nets : Before(n, m) =>
    link[n] = "closed" /\ \A e \in Has(n) : \A f \in Has(m) : e < f

Behind ==
  /\ Ups(taken) /\ \A e \in Elems(taken) : e <= emitted
  /\ \A n \in Nets : n \in {loop, center, net, new_net} =>
       \A e \in Elems(taken) : \A f \in Has(n) : e < f

NetInv == Small /\ Streams /\ Links /\ Places /\ Line /\ Behind

IInv == Types /\ Exists /\ CallsInv /\ NetInv

-----------------------------------------------------------------------------
(***************************************************************************)
(* Type correctness.                                                       *)
(***************************************************************************)
LEMMA NetFacts ==
  /\ NoNet \notin Nets /\ First \in Nets /\ NoCall \notin Calls
  /\ MaxCalls \in Nat /\ MaxEvents \in Nat
  /\ \A c \in Calls : c[1] \in Callers /\ c[2] \in 1..MaxCalls /\ c = <<c[1], c[2]>>
  /\ \A a \in Callers : \A i \in 1..MaxCalls : <<a, i>> \in Calls
BY NetAssumption DEF Calls

LEMMA MadeFacts == Room => Made \in Nets /\ link[Made] = "none"
BY DEF Room, Made

LEMMA TypesInit == Init => Types
<1> SUFFICES ASSUME Init PROVE Types
  OBVIOUS
<1>1. /\ 0 \in 0..MaxCalls /\ 0 \in 0..1 /\ 0 \in 0..MaxEvents
      /\ <<>> \in Seq(MessageType) /\ <<>> \in Seq(Events)
  BY NetFacts
<1>2. is_run \in [Nets -> BOOLEAN]
  BY DEF Init
<1> QED
  BY <1>1, <1>2, NetFacts DEF Init, Types

LEMMA AnswerType == \A c \in Calls : /\ Message("answer", c) \in MessageType
                                     /\ Message("answer", c).kind = "answer"
                                     /\ Message("answer", c).what = c
BY DEF Message, MessageType

LEMMA EventType == \A e \in Events : Message("event", e) \in MessageType
BY DEF Message, MessageType

LEMMA HeadFacts ==
  ASSUME Types, NEW n \in Nets, wire[n] # <<>>
  PROVE  /\ Tail(wire[n]) \in Seq(MessageType)
         /\ Head(wire[n]).kind = "event" => Head(wire[n]).what \in Events
         /\ Head(wire[n]).kind = "answer" => Head(wire[n]).what \in Calls
<1>1. wire[n] \in Seq(MessageType)
  BY DEF Types
<1> QED
  BY <1>1, TailFacts, MessageFacts

LEMMA AddEventType == \A k \in Seq(Events) : \A e \in Events : AddEvent(k, e) \in Seq(Events)
<1> SUFFICES ASSUME NEW k \in Seq(Events), NEW e \in Events PROVE AddEvent(k, e) \in Seq(Events)
  OBVIOUS
<1>1. Append(k, e) \in Seq(Events) /\ Len(Append(k, e)) = Len(k) + 1 /\ Len(k) \in Nat
  BY AppendFacts
<1>2. Append(k, e) # <<>>
  BY <1>1
<1>3. Tail(Append(k, e)) \in Seq(Events)
  BY <1>1, <1>2, TailFacts
<1> QED
  BY <1>1, <1>3 DEF AddEvent

\* Where a call may stand.
PC == {"idle", "copy", "put", "send", "connect", "wait", "remove", "back"}

LEMMA GoesType ==
  ASSUME Types, NEW c \in Calls, NEW from \in PC, NEW to \in PC, Goes(c, from, to)
  PROVE  /\ at' \in [Calls -> PC] /\ at[c] = from /\ at'[c] = to
         /\ \A d \in Calls \ {c} : at'[d] = at[d]
BY DEF Goes, Types, PC

LEMMA PCFacts ==
  /\ "copy" \in PC /\ "put" \in PC /\ "send" \in PC /\ "connect" \in PC
  /\ "wait" \in PC /\ "remove" \in PC /\ "back" \in PC
BY DEF PC

LEMMA DisownedType ==
  ASSUME Types, NEW n \in Nets
  PROVE  /\ Disowned(n) \subseteq [call : Calls, net : Nets \cup {NoNet}]
         /\ \A d \in Disowned(n) : \E r \in requests : d.call = r.call /\ d.net # n
         /\ \A d \in Disowned(n) : \E r \in requests : d = IF r.net = n THEN [r EXCEPT !.net = NoNet] ELSE r
<1>1. \A r \in requests : /\ r \in [call : Calls, net : Nets \cup {NoNet}]
                          /\ [r EXCEPT !.net = NoNet] \in [call : Calls, net : Nets \cup {NoNet}]
                          /\ [r EXCEPT !.net = NoNet].call = r.call
                          /\ [r EXCEPT !.net = NoNet].net = NoNet
  BY DEF Types
<1> QED
  BY <1>1, NetFacts DEF Disowned

LEMMA LockEffect ==
  ASSUME Types, NEW c \in Calls, Lock(c)
  PROVE  /\ at[c] = "copy" /\ at'[c] \in {"put", "back"}
         /\ \/ \E n \in Nets : Held(n) /\ on' = [on EXCEPT ![c] = n]
            \/ on' = on
<1>1. PICK n \in {seen[c], center} :
        \/ Held(n) /\ Goes(c, "copy", "put") /\ on' = [on EXCEPT ![c] = n]
        \/ ~Held(n) /\ Goes(c, "copy", "back") /\ on' = on
  BY DEF Lock
<1>2. n \in Nets \cup {NoNet}
  BY DEF Types
<1>3. Held(n) => n \in Nets
  BY <1>2 DEF Held
<1> QED
  BY <1>1, <1>3, GoesType, PCFacts

LEMMA TypesNext == Types /\ CallsInv /\ Places /\ [Next]_vars => Types'
<1> SUFFICES ASSUME Types, CallsInv, Places, [Next]_vars PROVE Types'
  OBVIOUS
<1> USE DEF netVars, loginVars, callVars, serverVars
<1>1. ASSUME NEW n \in Nets, OpenLink(n) PROVE Types'
  BY <1>1 DEF OpenLink, Types
<1>2. ASSUME NEW n \in Nets, Break(n) PROVE Types'
  BY <1>2, DisownedType DEF Break, Types
<1>3. ASSUME NEW n \in Nets, OnClose(n) PROVE Types'
  BY <1>3 DEF OnClose, Types
<1>4. ASSUME NEW n \in Nets, OnEvent(n) PROVE Types'
  <2>1. /\ event_vec' = [event_vec EXCEPT ![n] = AddEvent(@, Head(wire[n]).what)]
        /\ wire' = [wire EXCEPT ![n] = Tail(@)]
        /\ AddEvent(event_vec[n], Head(wire[n]).what) \in Seq(Events)
        /\ Tail(wire[n]) \in Seq(MessageType)
    BY <1>4, HeadFacts, AddEventType DEF OnEvent, Arrives, Types
  <2> QED
    BY <1>4, <2>1 DEF OnEvent, Types
<1>5. ASSUME NEW n \in Nets, OnAnswer(n) PROVE Types'
  <2>1. Tail(wire[n]) \in Seq(MessageType) /\ Head(wire[n]).what \in Calls
    BY <1>5, HeadFacts DEF OnAnswer, Arrives
  <2> QED
    BY <1>5, <2>1 DEF OnAnswer, Types
<1>6. ASSUME NEW n \in Nets, Destroy(n) PROVE Types'
  <2>1. /\ requests' \subseteq [call : Calls, net : Nets \cup {NoNet}]
        /\ center' \in Nets \cup {NoNet} /\ seen' \in [Calls -> Nets \cup {NoNet}]
    BY <1>6, DisownedType DEF Destroy, Types
  <2>2. /\ wire' \in [Nets -> Seq(MessageType)] /\ event_vec' \in [Nets -> Seq(Events)]
        /\ call_map' \in [Nets -> SUBSET Calls]
    BY <1>6 DEF Destroy, Types
  <2>3. /\ link' \in [Nets -> {"none", "opening", "open", "closed"}]
        /\ is_run' \in [Nets -> BOOLEAN]
    BY <1>6 DEF Destroy, Types
  <2> QED
    BY <1>6, <2>1, <2>2, <2>3 DEF Destroy, Types
<1>7. ASSUME LoginStep PROVE Types'
  <2>1. CASE Reconnect
    BY <2>1, MadeFacts DEF Reconnect, Types
  <2>2. CASE Adopt
    <3>1. new_net \in Nets
      BY <2>2 DEF Adopt, Places
    <3> QED
      BY <2>2, <3>1 DEF Adopt, Types
  <2>3. CASE GiveUp
    BY <2>3 DEF GiveUp, Types
  <2>4. CASE Publish
    BY <2>4 DEF Publish, Types
  <2> QED
    BY <1>7, <2>1, <2>2, <2>3, <2>4 DEF LoginStep
<1>8. ASSUME LoopStep PROVE Types'
  <2>1. CASE LoopLock
    BY <2>1 DEF LoopLock, Types
  <2>2. CASE LoopTake
    <3>1. event_vec[loop] \in Seq(Events)
      BY <2>2 DEF LoopTake, Types
    <3>2. taken' \in Seq(Events) /\ event_vec' \in [Nets -> Seq(Events)]
      BY <2>2, <3>1 DEF LoopTake, Types
    <3> QED
      BY <2>2, <3>2 DEF LoopTake, Types
  <2> QED
    BY <1>8, <2>1, <2>2 DEF LoopStep
<1>9. ASSUME NEW a \in Callers, Begin(a) PROVE Types'
  <2>1. made' \in [Callers -> 0..MaxCalls]
    BY <1>9, NetFacts DEF Begin, Types
  <2>2. /\ at' \in [Calls -> {"idle", "copy", "put", "send", "connect", "wait", "remove", "back"}]
        /\ seen' \in [Calls -> Nets \cup {NoNet}]
    BY <1>9 DEF Begin, Types
  <2> QED
    BY <1>9, <2>1, <2>2 DEF Begin, Types
<1>10. ASSUME NEW c \in Calls, CallStep(c) PROVE Types'
  <2>1. CASE Lock(c)
    <3>1. at' \in [Calls -> PC]
      BY <2>1, GoesType, PCFacts DEF Lock
    <3>2. on' \in [Calls -> Nets \cup {NoNet}]
      BY <2>1, LockEffect DEF Types
    <3> QED
      BY <2>1, <3>1, <3>2 DEF Lock, Types, PC
  <2>2. CASE Put(c)
    BY <2>2 DEF Put, Goes, Types
  <2>3. CASE Send(c)
    <3>1. at' \in [Calls -> PC]
      BY <2>3, GoesType, PCFacts DEF Send
    <3>2. requests' \subseteq [call : Calls, net : Nets \cup {NoNet}]
      BY <2>3 DEF Send, Types
    <3> QED
      BY <2>3, <3>1, <3>2 DEF Send, Types, PC
  <2>4. CASE LargeConnected(c)
    <3>1. at' \in [Calls -> PC]
      BY <2>4, GoesType, PCFacts DEF LargeConnected
    <3> QED
      BY <2>4, <3>1 DEF LargeConnected, Types, PC
  <2>5. CASE Pop(c)
    BY <2>5 DEF Pop, Goes, Types
  <2>6. CASE Remove(c)
    BY <2>6 DEF Remove, Goes, Types
  <2> QED
    BY <1>10, <2>1, <2>2, <2>3, <2>4, <2>5, <2>6 DEF CallStep
<1>11. ASSUME NEW c \in Calls, SendLarge(c) PROVE Types'
  BY <1>11, MadeFacts DEF SendLarge, Goes, Types
<1>12. ASSUME NEW c \in Calls, Tear(c) PROVE Types'
  BY <1>12 DEF Tear, Types
<1>13. ASSUME Emit PROVE Types'
  <2>1. emitted' = emitted + 1 /\ emitted + 1 \in Events /\ emitted' \in 0..MaxEvents
    BY <1>13, NetFacts DEF Emit, Types, Events
  <2>2. \A n \in Nets : Append(wire[n], Message("event", emitted + 1)) \in Seq(MessageType)
    BY <2>1, EventType DEF Types
  <2> QED
    BY <1>13, <2>1, <2>2 DEF Emit, Types
<1>14. ASSUME NEW r \in requests, Serve(r) PROVE Types'
  <2>1. r.call \in Calls /\ runs[r.call] = 0
    BY DEF Types, CallsInv
  <2>2. wire' \in [Nets -> Seq(MessageType)]
    BY <1>14, <2>1, AnswerType DEF Serve, Types
  <2>3. runs' \in [Calls -> 0..1]
    BY <1>14, <2>1 DEF Serve, Types
  <2> QED
    BY <1>14, <2>2, <2>3 DEF Serve, Types
<1>15. ASSUME NEW r \in requests, Lose(r) PROVE Types'
  BY <1>15 DEF Lose, Types
<1>16. CASE UNCHANGED vars
  BY <1>16 DEF vars, Types
<1> QED
  BY <1>1, <1>2, <1>3, <1>4, <1>5, <1>6, <1>7, <1>8, <1>9, <1>10, <1>11, <1>12, <1>13,
     <1>14, <1>15, <1>16 DEF Next, Step, NetStep

-----------------------------------------------------------------------------
(***************************************************************************)
(* What a shared_ptr leads to.                                             *)
(***************************************************************************)
LEMMA ExistsInit == Init => Exists
BY NetFacts DEF Init, Exists, Held

\* Nobody is given a pointer to what nobody had, but for what is new.
LEMMA HeldMove ==
  ASSUME Exists,
         \A n \in Nets : Held(n)' => Held(n) \/ link'[n] # "none",
         \A n \in Nets : Held(n)' /\ link[n] # "none" => link'[n] # "none"
  PROVE  Exists'
BY DEF Exists

LEMMA ExistsNext == Types /\ Exists /\ Places /\ [Next]_vars => Exists'
<1> SUFFICES ASSUME Types, Exists, Places, [Next]_vars PROVE Exists'
  OBVIOUS
<1> USE DEF netVars, loginVars, callVars, serverVars
<1>0. ASSUME UNCHANGED <<link, net, new_net, loop, on, outer>> PROVE Exists'
  BY <1>0 DEF Exists, Held
<1>1. ASSUME NEW n \in Nets, OpenLink(n) PROVE Exists'
  BY <1>1 DEF OpenLink, Exists, Held, Types
<1>2. ASSUME NEW n \in Nets, Break(n) PROVE Exists'
  BY <1>2 DEF Break, Exists, Held, Types
<1>3. ASSUME NEW n \in Nets, OnClose(n) \/ OnEvent(n) \/ OnAnswer(n) PROVE Exists'
  BY <1>0, <1>3 DEF OnClose, OnEvent, OnAnswer
<1>4. ASSUME NEW n \in Nets, Destroy(n) PROVE Exists'
  <2>1. \A m \in Nets : Held(m)' <=> Held(m)
    BY <1>4 DEF Destroy, Held
  <2>2. ~Held(n) /\ \A m \in Nets \ {n} : link'[m] = link[m]
    BY <1>4 DEF Destroy, Types
  <2> QED
    BY <2>1, <2>2, HeldMove DEF Exists
<1>5. CASE Reconnect
  <2>1. Made \in Nets /\ link' = [link EXCEPT ![Made] = "opening"] /\ new_net' = Made
    BY <1>5, MadeFacts DEF Reconnect
  <2>2. \A m \in Nets : Held(m)' => Held(m) \/ m = Made
    BY <1>5, <2>1 DEF Reconnect, Held
  <2>3. link'[Made] = "opening" /\ \A m \in Nets : link[m] # "none" => link'[m] # "none"
    BY <2>1 DEF Types
  <2> QED
    BY <2>2, <2>3, HeldMove DEF Exists
<1>6. CASE Adopt \/ GiveUp \/ Publish
  <2>1. \A m \in Nets : Held(m)' => Held(m)
    BY <1>6, NetFacts DEF Adopt, GiveUp, Publish, Held
  <2>2. link' = link
    BY <1>6 DEF Adopt, GiveUp, Publish
  <2> QED
    BY <2>1, <2>2 DEF Exists
<1>7. CASE LoopStep
  <2>1. \A m \in Nets : Held(m)' => Held(m)
    BY <1>7, NetFacts DEF LoopStep, LoopLock, LoopTake, Held
  <2>2. link' = link
    BY <1>7 DEF LoopStep, LoopLock, LoopTake
  <2> QED
    BY <2>1, <2>2 DEF Exists
<1>8. ASSUME NEW c \in Calls, CallStep(c) PROVE Exists'
  <2>1. CASE Lock(c)
    <3>1. \A m \in Nets : Held(m)' => Held(m)
      BY <2>1, LockEffect DEF Lock, Held, Types
    <3>2. link' = link
      BY <2>1 DEF Lock
    <3> QED
      BY <3>1, <3>2 DEF Exists
  <2>2. CASE Put(c) \/ Send(c) \/ LargeConnected(c) \/ Pop(c)
    BY <1>0, <2>2 DEF Put, Send, LargeConnected, Pop
  <2>3. CASE Remove(c)
    <3>1. \A m \in Nets : Held(m)' => Held(m)
      BY <2>3, NetFacts DEF Remove, Held, Types
    <3>2. link' = link
      BY <2>3 DEF Remove
    <3> QED
      BY <3>1, <3>2 DEF Exists
  <2> QED
    BY <1>8, <2>1, <2>2, <2>3 DEF CallStep
<1>9. ASSUME NEW c \in Calls, SendLarge(c) PROVE Exists'
  <2>1. /\ Made \in Nets /\ link' = [link EXCEPT ![Made] = "opening"]
        /\ on' = [on EXCEPT ![c] = Made] /\ outer' = [outer EXCEPT ![c] = on[c]]
        /\ UNCHANGED <<net, new_net, loop>>
    BY <1>9, MadeFacts DEF SendLarge
  <2>2. \A m \in Nets : Held(m)' => Held(m) \/ m = Made
    BY <2>1 DEF Held, Types
  <2>3. link'[Made] = "opening" /\ \A m \in Nets : link[m] # "none" => link'[m] # "none"
    BY <2>1 DEF Types
  <2> QED
    BY <2>2, <2>3, HeldMove DEF Exists
<1>10. ASSUME NEW a \in Callers, Begin(a) PROVE Exists'
  BY <1>0, <1>10 DEF Begin
<1>11. ASSUME NEW c \in Calls, Tear(c) PROVE Exists'
  BY <1>0, <1>11 DEF Tear
<1>12. CASE Emit
  BY <1>0, <1>12 DEF Emit
<1>13. ASSUME NEW r \in requests, Serve(r) \/ Lose(r) PROVE Exists'
  BY <1>0, <1>13 DEF Serve, Lose
<1>14. CASE UNCHANGED vars
  BY <1>0, <1>14 DEF vars
<1> QED
  BY <1>1, <1>2, <1>3, <1>4, <1>5, <1>6, <1>7, <1>8, <1>9, <1>10, <1>11, <1>12, <1>13, <1>14
  DEF Next, Step, NetStep, LoginStep

-----------------------------------------------------------------------------
(***************************************************************************)
(* Where the calls are, and their answers.                                 *)
(***************************************************************************)
LEMMA AnswersTail ==
  ASSUME NEW w \in Seq(MessageType), w # <<>>
  PROVE  /\ AnswersIn(Tail(w)) \subseteq AnswersIn(w)
         /\ Head(w).kind = "answer" => Head(w).what \in AnswersIn(w)
<1> DEFINE t == Tail(w)
<1>1. /\ Len(w) \in Nat /\ DOMAIN w = 1..Len(w) /\ 1 \in DOMAIN w
      /\ DOMAIN t = 1..(Len(w) - 1) /\ Head(w) = w[1]
      /\ \A i \in 1..(Len(w) - 1) : t[i] = w[i + 1]
  BY TailFacts
<1> HIDE DEF t
<1>2. \A i \in DOMAIN t : i + 1 \in DOMAIN w /\ t[i] = w[i + 1]
  BY <1>1
<1>3. AnswersIn(t) \subseteq AnswersIn(w)
  BY <1>2 DEF AnswersIn
<1>4. Head(w).kind = "answer" => Head(w).what \in AnswersIn(w)
  BY <1>1 DEF AnswersIn
<1> QED
  BY <1>3, <1>4 DEF t

LEMMA AnswersAppend ==
  ASSUME NEW w \in Seq(MessageType), NEW m \in MessageType
  PROVE  \A c \in AnswersIn(Append(w, m)) :
           c \in AnswersIn(w) \/ (m.kind = "answer" /\ c = m.what)
<1> DEFINE t == Append(w, m)
<1>1. /\ Len(w) \in Nat /\ DOMAIN w = 1..Len(w) /\ DOMAIN t = 1..(Len(w) + 1)
      /\ \A i \in 1..Len(w) : t[i] = w[i]
      /\ t[Len(w) + 1] = m
  BY AppendFacts
<1> HIDE DEF t
<1>2. \A i \in DOMAIN t : \/ i \in DOMAIN w /\ t[i] = w[i]
                          \/ t[i] = m
  BY <1>1
<1>3. \A c \in AnswersIn(t) : c \in AnswersIn(w) \/ (m.kind = "answer" /\ c = m.what)
  BY <1>2 DEF AnswersIn
<1> QED
  BY <1>3 DEF t

LEMMA AnswersEmpty == AnswersIn(<<>>) = {}
BY DEF AnswersIn

LEMMA CallsInit == Init => CallsInv
<1> SUFFICES ASSUME Init PROVE CallsInv
  OBVIOUS
<1>1. \A c \in Calls : runs[c] = 0 /\ answer[c] = NoCall /\ result[c] = NoCall /\ at[c] = "idle"
  BY DEF Init
<1>2. \A n \in Nets : AnswersIn(wire[n]) = {}
  BY AnswersEmpty DEF Init
<1>3. requests = {}
  BY DEF Init
<1> QED
  BY <1>1, <1>2, <1>3 DEF CallsInv

LEMMA CallsStay ==
  ASSUME CallsInv, UNCHANGED <<made, at, runs, answer, result>>,
         \A d \in requests' : \E r \in requests : d.call = r.call,
         \A d, e \in requests' : d.call = e.call => d = e,
         \A n \in Nets : AnswersIn(wire'[n]) \subseteq AnswersIn(wire[n])
  PROVE  CallsInv'
BY DEF CallsInv

LEMMA DisownedApart ==
  ASSUME Types, CallsInv, NEW n \in Nets
  PROVE  /\ \A d \in Disowned(n) : \E r \in requests : d.call = r.call
         /\ \A d, e \in Disowned(n) : d.call = e.call => d = e
<1> SUFFICES ASSUME NEW d \in Disowned(n), NEW e \in Disowned(n), d.call = e.call
             PROVE  d = e
  BY DisownedType
<1>1. PICK r \in requests : d = IF r.net = n THEN [r EXCEPT !.net = NoNet] ELSE r
  BY DisownedType
<1>2. PICK s \in requests : e = IF s.net = n THEN [s EXCEPT !.net = NoNet] ELSE s
  BY DisownedType
<1>3. d.call = r.call /\ e.call = s.call
  BY <1>1, <1>2 DEF Types
<1>4. r.call = s.call
  BY <1>3
<1>5. r = s
  BY <1>4 DEF CallsInv
<1> QED
  BY <1>1, <1>2, <1>5

\* A call moves on from where it may not have sent anything yet, or after.
LEMMA CallMoves ==
  ASSUME Types, CallsInv, NEW c \in Calls, NEW from \in PC, NEW to \in PC,
         Goes(c, from, to), from # "idle", from \in Sent => to \in Sent,
         UNCHANGED <<made, runs, requests, wire, answer, result>>
  PROVE  CallsInv'
<1>1. at[c] = from /\ at'[c] = to /\ \A d \in Calls \ {c} : at'[d] = at[d]
  BY GoesType
<1>2. \A d \in Calls : at[d] \in Sent => at'[d] \in Sent
  BY <1>1
<1>3. \A d \in Calls : at[d] = "idle" => at'[d] = "idle"
  BY <1>1
<1>4. \A r \in requests : r.call \in Calls
  BY DEF Types
<1> QED
  BY <1>2, <1>3, <1>4 DEF CallsInv

LEMMA CallsNext == Types /\ CallsInv /\ [Next]_vars => CallsInv'
<1> SUFFICES ASSUME Types, CallsInv, [Next]_vars PROVE CallsInv'
  OBVIOUS
<1> USE DEF netVars, loginVars, callVars, serverVars
<1>0. ASSUME UNCHANGED <<made, at, runs, answer, result, requests>>,
             \A n \in Nets : AnswersIn(wire'[n]) \subseteq AnswersIn(wire[n])
      PROVE  CallsInv'
  BY <1>0, CallsStay DEF CallsInv
<1>w. \A n \in Nets : wire[n] \in Seq(MessageType)
  BY DEF Types
<1>1. ASSUME NEW n \in Nets, OpenLink(n) \/ OnClose(n) PROVE CallsInv'
  BY <1>0, <1>1 DEF OpenLink, OnClose
<1>2. ASSUME NEW n \in Nets, Break(n) \/ Destroy(n) PROVE CallsInv'
  <2>1. /\ UNCHANGED <<made, at, runs, answer, result>>
        /\ requests' = Disowned(n) /\ wire' = [wire EXCEPT ![n] = <<>>]
    BY <1>2 DEF Break, Destroy
  <2>2. \A m \in Nets : AnswersIn(wire'[m]) \subseteq AnswersIn(wire[m])
    BY <2>1, AnswersEmpty DEF Types
  <2> QED
    BY <2>1, <2>2, DisownedApart, CallsStay
<1>3. ASSUME NEW n \in Nets, OnEvent(n) PROVE CallsInv'
  <2>1. /\ UNCHANGED <<made, at, runs, answer, result, requests>>
        /\ wire[n] # <<>> /\ wire' = [wire EXCEPT ![n] = Tail(@)]
    BY <1>3 DEF OnEvent, Arrives
  <2>2. \A m \in Nets : AnswersIn(wire'[m]) \subseteq AnswersIn(wire[m])
    BY <1>w, <2>1, AnswersTail DEF Types
  <2> QED
    BY <1>0, <2>1, <2>2
<1>4. ASSUME NEW n \in Nets, OnAnswer(n) PROVE CallsInv'
  <2> DEFINE c == Head(wire[n]).what
  <2>1. /\ UNCHANGED <<made, at, runs, result, requests>>
        /\ wire[n] # <<>> /\ wire' = [wire EXCEPT ![n] = Tail(@)]
        /\ Head(wire[n]).kind = "answer"
        /\ answer' = answer \/ answer' = [answer EXCEPT ![c] = c]
    BY <1>4 DEF OnAnswer, Arrives
  <2>2. \A m \in Nets : AnswersIn(wire'[m]) \subseteq AnswersIn(wire[m])
    BY <1>w, <2>1, AnswersTail DEF Types
  <2>3. c \in AnswersIn(wire[n])
    BY <1>w, <2>1, AnswersTail
  <2> HIDE DEF c
  <2>4. runs[c] = 1
    BY <2>3 DEF CallsInv
  <2>5. \A d \in Calls : answer'[d] # NoCall => answer'[d] = d /\ runs[d] = 1
    BY <2>1, <2>4 DEF CallsInv, Types
  <2> QED
    BY <2>1, <2>2, <2>5 DEF CallsInv
<1>5. CASE LoginStep
  BY <1>0, <1>5 DEF LoginStep, Reconnect, Adopt, GiveUp, Publish
<1>6. CASE LoopStep
  BY <1>0, <1>6 DEF LoopStep, LoopLock, LoopTake
<1>7. ASSUME NEW a \in Callers, Begin(a) PROVE CallsInv'
  <2> DEFINE c == <<a, made[a] + 1>>
  <2>1. /\ made' = [made EXCEPT ![a] = made[a] + 1] /\ at' = [at EXCEPT ![c] = "copy"]
        /\ UNCHANGED <<runs, answer, result, requests, wire>>
    BY <1>7 DEF Begin
  <2>2. made[a] \in Nat /\ made[a] + 1 \in 1..MaxCalls /\ made \in [Callers -> 0..MaxCalls]
    BY <1>7, NetFacts DEF Begin, Types
  <2>3. c \in Calls /\ c[1] = a /\ c[2] = made[a] + 1
    BY <2>2, NetFacts
  <2>4. \A d \in Calls : d[1] = a /\ d[2] > made[a] + 1 => d # c
    BY <2>2, <2>3
  <2> HIDE DEF c
  <2>5. at[c] = "idle"
    BY <2>2, <2>3 DEF CallsInv
  <2>6. runs[c] # 1 /\ \A r \in requests : r.call # c
    BY <2>3, <2>5 DEF CallsInv, Sent
  <2>7. \A d \in Calls \ {c} : at'[d] = at[d]
    BY <2>1 DEF Types
  <2>8. ASSUME NEW d \in Calls, d[2] > made'[d[1]] PROVE at'[d] = "idle"
    <3>1. d[1] \in Callers /\ d[2] \in 1..MaxCalls /\ made[d[1]] \in 0..MaxCalls
      BY NetFacts DEF Types
    <3>2. CASE d[1] = a
      <4>1. made'[d[1]] = made[a] + 1
        BY <2>1, <2>2, <3>2
      <4>2. d # c /\ d[2] > made[d[1]]
        BY <2>2, <2>4, <2>8, <3>1, <3>2, <4>1
      <4> QED
        BY <2>7, <4>2 DEF CallsInv
    <3>3. CASE d[1] # a
      <4>1. made'[d[1]] = made[d[1]] /\ d # c
        BY <2>1, <2>2, <2>3, <3>1, <3>3
      <4> QED
        BY <2>7, <2>8, <4>1 DEF CallsInv
    <3> QED
      BY <3>2, <3>3
  <2>9. \A r \in requests : r.call \in Calls /\ at'[r.call] = at[r.call]
    BY <2>6, <2>7 DEF Types
  <2>10. \A d \in Calls : runs[d] = 1 => at'[d] \in Sent
    BY <2>6, <2>7 DEF CallsInv
  <2> QED
    BY <2>1, <2>8, <2>9, <2>10 DEF CallsInv
<1>8. ASSUME NEW c \in Calls, CallStep(c) PROVE CallsInv'
  <2>1. CASE Lock(c)
    <3>1. Goes(c, "copy", "put") \/ Goes(c, "copy", "back")
      BY <2>1 DEF Lock
    <3>2. UNCHANGED <<made, runs, requests, wire, answer, result>>
      BY <2>1 DEF Lock
    <3> QED
      BY <3>1, <3>2, CallMoves, PCFacts DEF Sent
  <2>2. CASE Put(c)
    BY <2>2, CallMoves, PCFacts DEF Put, Sent
  <2>3. CASE Send(c)
    <3>1. CASE requests' = requests
      <4>1. /\ Goes(c, "send", "wait") \/ Goes(c, "send", "remove")
            /\ UNCHANGED <<made, runs, wire, answer, result>>
        BY <2>3 DEF Send
      <4> QED
        BY <3>1, <4>1, CallMoves, PCFacts DEF Sent
    <3>2. CASE Goes(c, "send", "wait") /\ requests' = requests \cup {[call |-> c, net |-> on[c]]}
      <4>1. UNCHANGED <<made, runs, wire, answer, result>>
        BY <2>3 DEF Send
      <4>2. at[c] = "send" /\ at'[c] = "wait" /\ \A d \in Calls \ {c} : at'[d] = at[d]
        BY <3>2, GoesType, PCFacts
      <4>3. runs[c] = 0 /\ \A r \in requests : r.call # c
        <5>1. at[c] \notin Sent
          BY <4>2 DEF Sent
        <5>2. runs[c] # 1 /\ \A r \in requests : r.call # c
          BY <5>1 DEF CallsInv
        <5>3. runs[c] \in 0..1
          BY DEF Types
        <5> QED
          BY <5>2, <5>3
      <4>4. \A d \in Calls : at[d] \in Sent => at'[d] \in Sent
        BY <4>2 DEF Sent
      <4>5. \A d \in Calls : at[d] = "idle" => at'[d] = "idle"
        BY <4>2
      <4>6. \A r \in requests' : r \in requests \/ (r.call = c /\ r = [call |-> c, net |-> on[c]])
        BY <3>2
      <4>7. \A r \in requests' : runs[r.call] = 0 /\ at'[r.call] \in Sent
        <5>1. \A r \in requests : r.call \in Calls
          BY DEF Types
        <5>2. at'[c] \in Sent
          BY <4>2 DEF Sent
        <5> QED
          BY <4>3, <4>4, <4>6, <5>1, <5>2 DEF CallsInv
      <4>8. \A r, s \in requests' : r.call = s.call => r = s
        BY <4>3, <4>6 DEF CallsInv
      <4> QED
        BY <4>1, <4>4, <4>5, <4>7, <4>8 DEF CallsInv
    <3> QED
      BY <2>3, <3>1, <3>2 DEF Send
  <2>4. CASE LargeConnected(c)
    <3>1. Goes(c, "connect", "put") \/ Goes(c, "connect", "remove")
      BY <2>4 DEF LargeConnected
    <3>2. UNCHANGED <<made, runs, requests, wire, answer, result>>
      BY <2>4 DEF LargeConnected
    <3> QED
      BY <3>1, <3>2, CallMoves, PCFacts DEF Sent
  <2>5. CASE Pop(c)
    <3>1. at[c] = "wait" /\ at'[c] = "remove" /\ \A d \in Calls \ {c} : at'[d] = at[d]
      BY <2>5, GoesType, PCFacts DEF Pop
    <3>2. \A d \in Calls : at[d] \in Sent => at'[d] \in Sent
      BY <3>1 DEF Sent
    <3>3. \A d \in Calls : at[d] = "idle" => at'[d] = "idle"
      BY <3>1
    <3>4. result' = [result EXCEPT ![c] = answer[c]] /\ UNCHANGED <<made, runs, requests, wire, answer>>
      BY <2>5 DEF Pop
    <3>5. \A d \in Calls : result'[d] # NoCall => result'[d] = d /\ runs[d] = 1
      BY <3>4 DEF CallsInv, Types
    <3>6. \A r \in requests : r.call \in Calls
      BY DEF Types
    <3> QED
      BY <3>2, <3>3, <3>4, <3>5, <3>6 DEF CallsInv
  <2>6. CASE Remove(c)
    BY <2>6, CallMoves, PCFacts DEF Remove, Sent
  <2> QED
    BY <1>8, <2>1, <2>2, <2>3, <2>4, <2>5, <2>6 DEF CallStep
<1>9. ASSUME NEW c \in Calls, SendLarge(c) PROVE CallsInv'
  BY <1>9, CallMoves, PCFacts DEF SendLarge, Sent
<1>10. ASSUME NEW c \in Calls, Tear(c) PROVE CallsInv'
  BY <1>0, <1>10 DEF Tear
<1>11. CASE Emit
  <2>1. Message("event", emitted + 1) \in MessageType /\ Message("event", emitted + 1).kind = "event"
    <3>1. emitted + 1 \in Events
      BY <1>11, NetFacts DEF Emit, Types, Events
    <3> QED
      BY <3>1, EventType DEF Message
  <2>2. \A n \in Nets : AnswersIn(wire'[n]) \subseteq AnswersIn(wire[n])
    <3> SUFFICES ASSUME NEW n \in Nets PROVE AnswersIn(wire'[n]) \subseteq AnswersIn(wire[n])
      OBVIOUS
    <3>1. wire'[n] = Append(wire[n], Message("event", emitted + 1)) \/ wire'[n] = wire[n]
      BY <1>11 DEF Emit
    <3>2. AnswersIn(Append(wire[n], Message("event", emitted + 1))) \subseteq AnswersIn(wire[n])
      BY <1>w, <2>1, AnswersAppend
    <3> QED
      BY <3>1, <3>2
  <2> QED
    BY <1>0, <1>11, <2>2 DEF Emit
<1>12. ASSUME NEW r \in requests, Serve(r) PROVE CallsInv'
  <2>1. r.call \in Calls /\ runs[r.call] = 0 /\ at[r.call] \in Sent
    BY DEF Types, CallsInv
  <2> DEFINE m == Message("answer", r.call)
  <2>2. m \in MessageType /\ m.kind = "answer" /\ m.what = r.call
    BY <2>1, AnswerType
  <2>3. \A n \in Nets : wire'[n] = wire[n] \/ wire'[n] = Append(wire[n], m)
    BY <1>12 DEF Serve, Types
  <2>4. requests' = requests \ {r} /\ UNCHANGED <<made, at, answer, result>>
    BY <1>12 DEF Serve
  <2>5. runs'[r.call] = 1 /\ \A d \in Calls : d # r.call => runs'[d] = runs[d]
    BY <1>12, <2>1 DEF Serve, Types
  <2> HIDE DEF m
  <2>6. \A n \in Nets : \A c \in AnswersIn(wire'[n]) : c \in AnswersIn(wire[n]) \/ c = r.call
    <3> SUFFICES ASSUME NEW n \in Nets, NEW c \in AnswersIn(wire'[n])
                 PROVE  c \in AnswersIn(wire[n]) \/ c = r.call
      OBVIOUS
    <3> QED
      BY <1>w, <2>2, <2>3, AnswersAppend
  <2>7. \A n \in Nets : AnswersIn(wire[n]) \subseteq Calls
    <3> SUFFICES ASSUME NEW n \in Nets PROVE AnswersIn(wire[n]) \subseteq Calls
      OBVIOUS
    <3> QED
      BY <1>w, MessageFacts DEF AnswersIn
  <2>8. \A n \in Nets : \A c \in AnswersIn(wire'[n]) : runs'[c] = 1
    <3> SUFFICES ASSUME NEW n \in Nets, NEW c \in AnswersIn(wire'[n]) PROVE runs'[c] = 1
      OBVIOUS
    <3>1. CASE c = r.call
      BY <2>5, <3>1
    <3>2. CASE c # r.call
      <4>1. c \in AnswersIn(wire[n]) /\ c \in Calls /\ runs[c] = 1
        BY <2>6, <2>7, <3>2 DEF CallsInv
      <4> QED
        BY <2>5, <3>2, <4>1
    <3> QED
      BY <3>1, <3>2
  <2>9. \A d \in Calls : runs[d] = 1 => runs'[d] = 1
    BY <2>5
  <2>10. \A s \in requests' : s.call \in Calls /\ s.call # r.call
    BY <2>4 DEF CallsInv, Types
  <2>11. \A d \in Calls : runs'[d] = 1 => at[d] \in Sent
    BY <2>1, <2>5 DEF CallsInv
  <2> QED
    BY <2>4, <2>5, <2>8, <2>9, <2>10, <2>11 DEF CallsInv
<1>13. ASSUME NEW r \in requests, Lose(r) PROVE CallsInv'
  <2>1. requests' \subseteq requests /\ UNCHANGED <<made, at, runs, answer, result, wire>>
    BY <1>13 DEF Lose
  <2> QED
    BY <2>1, CallsStay DEF CallsInv
<1>14. CASE UNCHANGED vars
  BY <1>0, <1>14 DEF vars
<1> QED
  BY <1>1, <1>2, <1>3, <1>4, <1>5, <1>6, <1>7, <1>8, <1>9, <1>10, <1>11, <1>12, <1>13, <1>14
  DEF Next, Step, NetStep

-----------------------------------------------------------------------------
(***************************************************************************)
(* What the nets have, and the line they stand in.                         *)
(***************************************************************************)
LEMMA NetTypes ==
  ASSUME Types
  PROVE  /\ emitted \in Nat /\ taken \in Seq(Events)
         /\ \A n \in Nets : /\ event_vec[n] \in Seq(Events) /\ wire[n] \in Seq(MessageType)
                            /\ Has(n) \subseteq Nat
         /\ Elems(taken) \subseteq Nat
<1>1. emitted \in Nat /\ taken \in Seq(Events)
  BY NetFacts DEF Types
<1>2. \A n \in Nets : event_vec[n] \in Seq(Events) /\ wire[n] \in Seq(MessageType)
  BY DEF Types
<1>3. \A n \in Nets : Has(n) \subseteq Nat
  BY <1>2, AllNumbers DEF Has
<1>4. Elems(taken) \subseteq Nat
  <2>1. \A i \in DOMAIN taken : taken[i] \in Events
    BY <1>1, SeqElems
  <2> QED
    BY <2>1, EventNumbers DEF Elems
<1> QED
  BY <1>1, <1>2, <1>3, <1>4

LEMMA ConcatFacts ==
  ASSUME NEW k \in Seq(Events), NEW s \in Seq(Events)
  PROVE  /\ k \o s \in Seq(Events)
         /\ Elems(k \o s) = Elems(k) \cup Elems(s)
         /\ Ups(k) /\ Ups(s) /\ (\A e \in Elems(k) : \A f \in Elems(s) : e < f) => Ups(k \o s)
<1> DEFINE t == k \o s
<1>1. /\ t \in Seq(Events) /\ Len(k) \in Nat /\ Len(s) \in Nat
      /\ DOMAIN k = 1..Len(k) /\ DOMAIN s = 1..Len(s) /\ DOMAIN t = 1..(Len(k) + Len(s))
      /\ \A i \in 1..(Len(k) + Len(s)) : t[i] = IF i <= Len(k) THEN k[i] ELSE s[i - Len(k)]
  OBVIOUS
<1> HIDE DEF t
<1>2. \A i \in DOMAIN t : \/ i \in DOMAIN k /\ t[i] = k[i]
                          \/ i > Len(k) /\ i - Len(k) \in DOMAIN s /\ t[i] = s[i - Len(k)]
  BY <1>1
<1>3. \A i \in DOMAIN k : i \in DOMAIN t /\ t[i] = k[i] /\ i <= Len(k)
  BY <1>1
<1>4. \A i \in DOMAIN s : i + Len(k) \in DOMAIN t /\ t[i + Len(k)] = s[i]
  BY <1>1
<1>5. Elems(t) = Elems(k) \cup Elems(s)
  <2>1. \A x \in Elems(t) : x \in Elems(k) \cup Elems(s)
    BY <1>2 DEF Elems
  <2>2. \A x \in Elems(k) : x \in Elems(t)
    BY <1>3 DEF Elems
  <2>3. \A x \in Elems(s) : x \in Elems(t)
    BY <1>4 DEF Elems
  <2> QED
    BY <2>1, <2>2, <2>3
<1>6. ASSUME Ups(k), Ups(s), \A e \in Elems(k) : \A f \in Elems(s) : e < f,
             NEW i \in DOMAIN t, NEW j \in DOMAIN t, i < j
      PROVE  t[i] < t[j]
  <2>1. CASE j \in DOMAIN k /\ t[j] = k[j]
    <3>1. i \in DOMAIN k /\ t[i] = k[i]
      BY <1>1, <1>6, <2>1
    <3> QED
      BY <1>6, <2>1, <3>1 DEF Ups
  <2>2. CASE j > Len(k) /\ j - Len(k) \in DOMAIN s /\ t[j] = s[j - Len(k)]
    <3>1. CASE i \in DOMAIN k /\ t[i] = k[i]
      BY <1>6, <2>2, <3>1 DEF Elems
    <3>2. CASE i > Len(k) /\ i - Len(k) \in DOMAIN s /\ t[i] = s[i - Len(k)]
      <4>1. i - Len(k) < j - Len(k)
        BY <1>1, <1>6
      <4> QED
        BY <1>6, <2>2, <3>2, <4>1 DEF Ups
    <3> QED
      BY <1>2, <3>1, <3>2
  <2> QED
    BY <1>2, <2>1, <2>2
<1> QED
  BY <1>1, <1>5, <1>6 DEF Ups, t

LEMMA NetInit == Init => NetInv
<1> SUFFICES ASSUME Init PROVE NetInv
  OBVIOUS
<1>1. \A n \in Nets : event_vec[n] = <<>> /\ wire[n] = <<>>
  BY DEF Init
<1>2. emitted = 0 /\ taken = <<>>
  BY DEF Init
<1>3. \A n \in Nets : Has(n) = {}
  BY <1>1, EmptyFacts DEF Has, All
<1>4. Small /\ Streams
  BY <1>1, <1>2, GoodEmpty, EventNumbers DEF Small, Streams
<1>5. Links /\ Places
  BY NetFacts DEF Init, Links, Places
<1>6. Line
  BY NetFacts DEF Init, Line, Before
<1>7. Behind
  BY <1>2, <1>3, EmptyFacts DEF Behind
<1> QED
  BY <1>4, <1>5, <1>6, <1>7 DEF NetInv

\* Nobody is put into the line and nobody gets anything.
LEMMA LineMove ==
  ASSUME Line, Behind, UNCHANGED <<taken, emitted>>,
         \A n, m \in Nets : Before(n, m)' => Before(n, m),
         \A n \in Nets : n \in {loop', center', net', new_net'} =>
                           n \in {loop, center, net, new_net},
         \A n \in Nets : Has(n)' \subseteq Has(n),
         \A n \in Nets : n \in {loop', center', net'} /\ link[n] = "closed" =>
                           link'[n] = "closed"
  PROVE  Line' /\ Behind'
<1>1. Line'
  <2> SUFFICES ASSUME NEW n \in Nets, NEW m \in Nets, Before(n, m)'
               PROVE  link'[n] = "closed" /\ \A e \in Has(n)' : \A f \in Has(m)' : e < f
    BY DEF Line
  <2>1. link[n] = "closed" /\ \A e \in Has(n) : \A f \in Has(m) : e < f
    BY DEF Line
  <2>2. n \in {loop', center', net'}
    BY DEF Before
  <2> QED
    BY <2>1, <2>2
<1>2. Behind'
  <2> SUFFICES ASSUME NEW n \in Nets, n \in {loop', center', net', new_net'},
                      NEW e \in Elems(taken), NEW f \in Has(n)'
               PROVE  e < f
    BY DEF Behind
  <2> QED
    BY DEF Behind
<1> QED
  BY <1>1, <1>2

\* The nets and the line stay as they are.
LEMMA NetStay ==
  ASSUME NetInv,
         UNCHANGED <<link, is_run, wire, event_vec, net, new_net, login, center, loop,
                     emitted, taken>>
  PROVE  NetInv'
BY DEF NetInv, Small, Streams, Links, Places, Line, Before, Behind, Has

\* One net changes and gets no events.
LEMMA NetMove ==
  ASSUME Types, NetInv, NEW n \in Nets,
         UNCHANGED <<net, new_net, login, loop, taken, emitted>>,
         \A m \in Nets \ {n} : /\ link'[m] = link[m] /\ is_run'[m] = is_run[m]
                               /\ wire'[m] = wire[m] /\ event_vec'[m] = event_vec[m],
         Good(event_vec'[n], wire'[n], link'[n], emitted),
         All(event_vec'[n], wire'[n]) \subseteq All(event_vec[n], wire[n]),
         Len(event_vec'[n]) <= BufSize,
         link'[n] = "open" => is_run'[n],
         is_run'[n] => link'[n] \in {"open", "closed"},
         n = net => link'[n] \in {"open", "closed"},
         n \in {loop, center', net} /\ link[n] = "closed" => link'[n] = "closed",
         \/ center' = center
         \/ center = n /\ n # net /\ center' = NoNet
  PROVE  NetInv'
<1>1. Small'
  <2>1. \A m \in Nets : Len(event_vec'[m]) <= BufSize
    BY DEF NetInv, Small
  <2> QED
    BY <2>1 DEF Small
<1>2. Streams'
  <2>1. \A m \in Nets : Good(event_vec'[m], wire'[m], link'[m], emitted)
    BY DEF NetInv, Streams
  <2>2. \A m \in Nets : Good(event_vec'[m], wire'[m], link'[m], emitted')
    BY <2>1
  <2> QED
    BY <2>2 DEF Streams
<1>3. Links'
  <2>1. \A m \in Nets : /\ link'[m] = "open" => is_run'[m]
                        /\ is_run'[m] => link'[m] \in {"open", "closed"}
    BY DEF NetInv, Links
  <2> QED
    BY <2>1 DEF Links
<1>4. Places'
  <2>1. link'[net] \in {"open", "closed"}
    BY DEF NetInv, Places, Types
  <2>2. center = net => center' = net
    OBVIOUS
  <2>3. center # net => center' # net
    BY NetFacts DEF Types
  <2> QED
    BY <2>1, <2>2, <2>3 DEF NetInv, Places
<1>5. Line' /\ Behind'
  <2>1. \A m \in Nets : Has(m)' \subseteq Has(m)
    BY DEF Has
  <2>2. \A m, k \in Nets : Before(m, k)' => Before(m, k)
    BY NetFacts DEF Before
  <2>3. \A m \in Nets : m \in {loop', center', net', new_net'} => m \in {loop, center, net, new_net}
    BY NetFacts
  <2>4. \A m \in Nets : m \in {loop', center', net'} /\ link[m] = "closed" => link'[m] = "closed"
    OBVIOUS
  <2> QED
    BY <2>1, <2>2, <2>3, <2>4, LineMove DEF NetInv
<1> QED
  BY <1>1, <1>2, <1>3, <1>4, <1>5 DEF NetInv

LEMMA NetStreams ==
  ASSUME Types, NetInv, NEW n \in Nets
  PROVE  /\ event_vec[n] \in Seq(Events) /\ wire[n] \in Seq(MessageType) /\ emitted \in Nat
         /\ Good(event_vec[n], wire[n], link[n], emitted)
         /\ Len(event_vec[n]) <= BufSize
         /\ link[n] = "open" => is_run[n]
         /\ is_run[n] => link[n] \in {"open", "closed"}
         /\ n = net => link[n] \in {"open", "closed"}
BY NetTypes DEF NetInv, Small, Streams, Links, Places

\* The connection and its io thread.
LEMMA NetOfLink ==
  ASSUME Types, NetInv, NEW n \in Nets, OpenLink(n) \/ Break(n) \/ OnClose(n)
  PROVE  NetInv'
<1> USE DEF netVars, loginVars, callVars, serverVars
<1>0. UNCHANGED <<event_vec, net, new_net, login, center, loop, taken, emitted>>
  BY DEF OpenLink, Break, OnClose
<1>1. CASE OpenLink(n)
  <2>1. /\ link[n] = "opening" /\ link'[n] = "open" /\ is_run'[n] /\ wire' = wire
        /\ \A m \in Nets \ {n} : link'[m] = link[m] /\ is_run'[m] = is_run[m]
    BY <1>1 DEF OpenLink, Types
  <2>2. Good(event_vec[n], wire[n], "open", emitted)
    BY <2>1, NetStreams, GoodOpens
  <2> QED
    BY <1>0, <2>1, <2>2, NetStreams, NetMove
<1>2. CASE Break(n)
  <2>1. /\ link'[n] = "closed" /\ wire'[n] = <<>> /\ is_run' = is_run
        /\ \A m \in Nets \ {n} : link'[m] = link[m] /\ wire'[m] = wire[m]
    BY <1>2 DEF Break, Types
  <2>2. Good(event_vec[n], <<>>, "closed", emitted) /\ All(event_vec[n], <<>>) \subseteq Has(n)
    BY NetStreams, GoodBreaks DEF Has
  <2> QED
    BY <1>0, <2>1, <2>2, NetStreams, NetMove DEF Has
<1>3. CASE OnClose(n)
  <2>1. /\ link' = link /\ wire' = wire /\ link[n] = "closed" /\ is_run'[n] = FALSE
        /\ \A m \in Nets \ {n} : is_run'[m] = is_run[m]
    BY <1>3 DEF OnClose, Types
  <2> QED
    BY <1>0, <2>1, NetStreams, NetMove
<1> QED
  BY <1>1, <1>2, <1>3

LEMMA NetOfRead ==
  ASSUME Types, NetInv, NEW n \in Nets, OnEvent(n) \/ OnAnswer(n)
  PROVE  NetInv'
<1> USE DEF netVars, loginVars, callVars, serverVars
<1>0. /\ UNCHANGED <<link, is_run, net, new_net, login, center, loop, taken, emitted>>
      /\ wire[n] # <<>> /\ wire'[n] = Tail(wire[n])
      /\ \A m \in Nets \ {n} : wire'[m] = wire[m]
  BY DEF OnEvent, OnAnswer, Arrives, Types
<1>1. CASE OnEvent(n)
  <2> DEFINE t == AddEvent(event_vec[n], Head(wire[n]).what)
  <2>1. /\ Head(wire[n]).kind = "event" /\ event_vec'[n] = t
        /\ \A m \in Nets \ {n} : event_vec'[m] = event_vec[m]
    BY <1>1 DEF OnEvent, Arrives, Types
  <2>2. /\ Good(t, Tail(wire[n]), link[n], emitted)
        /\ All(t, Tail(wire[n])) \subseteq All(event_vec[n], wire[n])
        /\ Len(t) <= BufSize
    BY <1>0, <2>1, NetStreams, GoodEvent
  <2> HIDE DEF t
  <2> QED
    BY <1>0, <2>1, <2>2, NetStreams, NetMove
<1>2. CASE OnAnswer(n)
  <2>1. Head(wire[n]).kind = "answer" /\ event_vec' = event_vec
    BY <1>2 DEF OnAnswer, Arrives
  <2>2. /\ Good(event_vec[n], Tail(wire[n]), link[n], emitted)
        /\ All(event_vec[n], Tail(wire[n])) = All(event_vec[n], wire[n])
    BY <1>0, <2>1, NetStreams, GoodAnswerRead
  <2> QED
    BY <1>0, <2>1, <2>2, NetStreams, NetMove
<1> QED
  BY <1>1, <1>2

LEMMA NetOfDestroy == ASSUME Types, NetInv, NEW n \in Nets, Destroy(n) PROVE NetInv'
<1> USE DEF netVars, loginVars, callVars, serverVars
<1>1. /\ UNCHANGED <<net, new_net, login, loop, taken, emitted>>
      /\ link'[n] = "none" /\ is_run'[n] = FALSE /\ wire'[n] = <<>> /\ event_vec'[n] = <<>>
      /\ center' = IF center = n THEN NoNet ELSE center
  BY DEF Destroy, Types
<1>2. \A m \in Nets \ {n} : /\ link'[m] = link[m] /\ is_run'[m] = is_run[m]
                            /\ wire'[m] = wire[m] /\ event_vec'[m] = event_vec[m]
  BY DEF Destroy, Types
<1>3. n \notin {net, new_net, loop} /\ n # NoNet
  BY NetFacts DEF Destroy, Held
<1>4. Good(<<>>, <<>>, "none", emitted) /\ All(<<>>, <<>>) = {} /\ Len(<<>>) <= BufSize
  BY NetStreams, GoodEmpty, EmptyFacts, EventNumbers DEF All
<1>5. n \notin {loop, center', net}
  BY <1>1, <1>3
<1>6. center' = center \/ (center = n /\ n # net /\ center' = NoNet)
  BY <1>1, <1>3
<1> QED
  BY <1>1, <1>2, <1>3, <1>4, <1>5, <1>6, NetMove

LEMMA NetOfServe == ASSUME Types, NetInv, NEW r \in requests, Serve(r) PROVE NetInv'
<1> USE DEF netVars, loginVars, callVars, serverVars
<1>0. UNCHANGED <<link, is_run, event_vec, net, new_net, login, center, loop, taken, emitted>>
  BY DEF Serve
<1>1. CASE r.net = NoNet
  <2>1. wire' = wire
    BY <1>1 DEF Serve
  <2> QED
    BY <1>0, <2>1, NetStay
<1>2. CASE r.net # NoNet
  <2> DEFINE n == r.net
             m == Message("answer", r.call)
  <2>1. n \in Nets /\ r.call \in Calls
    BY <1>2 DEF Types
  <2>2. m \in MessageType /\ m.kind = "answer"
    BY <2>1, AnswerType
  <2>3. wire'[n] = Append(wire[n], m) /\ \A k \in Nets \ {n} : wire'[k] = wire[k]
    BY <1>2, <2>1 DEF Serve, Types
  <2> HIDE DEF n, m
  <2>4. /\ Good(event_vec[n], Append(wire[n], m), link[n], emitted)
        /\ All(event_vec[n], Append(wire[n], m)) = All(event_vec[n], wire[n])
    BY <2>1, <2>2, NetStreams, GoodAnswerSent
  <2> QED
    BY <1>0, <2>1, <2>3, <2>4, NetStreams, NetMove
<1> QED
  BY <1>1, <1>2

LEMMA NetOfLarge == ASSUME Types, NetInv, NEW c \in Calls, SendLarge(c) PROVE NetInv'
<1> USE DEF netVars, loginVars, callVars, serverVars
<1>1. /\ UNCHANGED <<is_run, wire, event_vec, net, new_net, login, center, loop, taken, emitted>>
      /\ Room /\ link' = [link EXCEPT ![Made] = "opening"]
  BY DEF SendLarge
<1> DEFINE n == Made
<1>2. n \in Nets /\ link[n] = "none"
  BY <1>1, MadeFacts
<1>3. link'[n] = "opening" /\ \A m \in Nets \ {n} : link'[m] = link[m]
  BY <1>1, <1>2 DEF Types
<1> HIDE DEF n
<1>4. Good(event_vec[n], wire[n], "opening", emitted)
  BY <1>2, NetStreams, GoodOpens
<1>5. ~is_run[n] /\ n # net
  BY <1>2, NetStreams
<1> QED
  BY <1>1, <1>2, <1>3, <1>4, <1>5, NetStreams, NetMove

\* The reconnecting thread.
LEMMA NetOfReconnect == ASSUME Types, NetInv, Reconnect PROVE NetInv'
<1> USE DEF netVars, loginVars, callVars, serverVars
<1>1. /\ UNCHANGED <<is_run, wire, event_vec, net, center, loop, taken, emitted>>
      /\ login = "sleep" /\ login' = "connect" /\ ~is_run[net]
      /\ Room /\ new_net' = Made /\ link' = [link EXCEPT ![Made] = "opening"]
  BY DEF Reconnect
<1> DEFINE n == Made
<1>2. n \in Nets /\ link[n] = "none" /\ new_net' = n
  BY <1>1, MadeFacts
<1>3. link'[n] = "opening" /\ \A m \in Nets \ {n} : link'[m] = link[m]
  BY <1>1, <1>2 DEF Types
<1> HIDE DEF n
<1>4. Good(event_vec[n], wire[n], "opening", emitted) /\ Has(n) = {}
  BY <1>2, NetStreams, GoodOpens DEF Has
<1>5. net \in Nets /\ link[net] = "closed" /\ center = net /\ ~is_run[n] /\ n # net
  BY <1>1, <1>2, NetStreams DEF Types, NetInv, Places
<1>6. \A m \in Nets : m = loop => link[m] = "closed"
  BY <1>5 DEF NetInv, Line, Before
<1>7. \A m \in Nets : Has(m)' = Has(m)
  BY <1>1 DEF Has
<1>8. Small' /\ Streams'
  <2>1. \A m \in Nets : Good(event_vec'[m], wire'[m], link'[m], emitted')
    BY <1>1, <1>3, <1>4 DEF NetInv, Streams
  <2> QED
    BY <1>1, <2>1 DEF NetInv, Small, Streams
<1>9. Links' /\ Places'
  <2>1. \A m \in Nets : /\ link'[m] = "open" => is_run'[m]
                        /\ is_run'[m] => link'[m] \in {"open", "closed"}
    BY <1>1, <1>3, <1>5 DEF NetInv, Links
  <2>2. link'[net] = "closed"
    BY <1>3, <1>5
  <2> QED
    BY <1>1, <1>2, <1>5, <2>1, <2>2 DEF Links, Places
<1>10. Line'
  <2> SUFFICES ASSUME NEW k \in Nets, NEW m \in Nets, Before(k, m)'
               PROVE  link'[k] = "closed" /\ \A e \in Has(k)' : \A f \in Has(m)' : e < f
    BY DEF Line
  <2>1. k # m /\ (k = loop \/ k = net)
    BY <1>1, <1>2, <1>5 DEF Before
  <2>2. link'[k] = "closed"
    BY <1>2, <1>3, <1>5, <1>6, <2>1
  <2>3. CASE m = n
    BY <1>4, <1>7, <2>2, <2>3
  <2>4. CASE m # n
    <3>1. Before(k, m)
      BY <1>1, <1>2, <1>5, <2>1, <2>4 DEF Before
    <3> QED
      BY <1>7, <2>2, <3>1 DEF NetInv, Line
  <2> QED
    BY <2>3, <2>4
<1>11. Behind'
  <2> SUFFICES ASSUME NEW m \in Nets, m \in {loop', center', net', new_net'},
                      NEW e \in Elems(taken), NEW f \in Has(m)
               PROVE  e < f
    BY <1>1, <1>7 DEF NetInv, Behind
  <2>1. m # n
    BY <1>4
  <2> QED
    BY <1>1, <1>2, <2>1 DEF NetInv, Behind
<1> QED
  BY <1>8, <1>9, <1>10, <1>11 DEF NetInv

\* The nets stay as they are, and nobody is put into the line.
LEMMA NetPasses ==
  ASSUME NetInv, UNCHANGED <<link, is_run, wire, event_vec, taken, emitted>>, Places',
         \A n, m \in Nets : Before(n, m)' => Before(n, m),
         \A n \in Nets : n \in {loop', center', net', new_net'} =>
                           n \in {loop, center, net, new_net}
  PROVE  NetInv'
<1>1. \A n \in Nets : Has(n)' = Has(n)
  BY DEF Has
<1>2. Small' /\ Streams' /\ Links'
  BY DEF NetInv, Small, Streams, Links
<1>3. Line' /\ Behind'
  BY <1>1, LineMove DEF NetInv
<1> QED
  BY <1>2, <1>3 DEF NetInv

LEMMA NetOfLogin == ASSUME Types, NetInv, LoginStep PROVE NetInv'
<1> USE DEF netVars, loginVars, callVars, serverVars
<1>1. CASE Reconnect
  BY <1>1, NetOfReconnect
<1>2. CASE Adopt
  <2>1. /\ UNCHANGED <<link, is_run, wire, event_vec, new_net, center, loop, taken, emitted>>
        /\ login = "connect" /\ is_run[new_net] /\ net' = new_net /\ login' = "publish"
    BY <1>2 DEF Adopt
  <2>2. new_net \in Nets /\ new_net # net /\ center = net
    BY <2>1 DEF NetInv, Places
  <2>3. link[new_net] \in {"open", "closed"}
    BY <2>1, <2>2, NetStreams
  <2>4. Places'
    BY <2>1, <2>2, <2>3 DEF Places
  <2>5. \A n, m \in Nets : Before(n, m)' => Before(n, m)
    BY <2>1 DEF Before
  <2> QED
    BY <2>1, <2>4, <2>5, NetPasses
<1>3. CASE GiveUp
  <2>1. /\ UNCHANGED <<link, is_run, wire, event_vec, net, center, loop, taken, emitted>>
        /\ login = "connect" /\ new_net' = NoNet /\ login' = "sleep"
    BY <1>3 DEF GiveUp
  <2>2. Places'
    BY <2>1 DEF NetInv, Places
  <2>3. \A n, m \in Nets : Before(n, m)' => Before(n, m)
    BY <2>1, NetFacts DEF Before
  <2> QED
    BY <2>1, <2>2, <2>3, NetPasses, NetFacts
<1>4. CASE Publish
  <2>1. /\ UNCHANGED <<link, is_run, wire, event_vec, net, loop, taken, emitted>>
        /\ login = "publish" /\ center' = net /\ new_net' = NoNet /\ login' = "sleep"
    BY <1>4 DEF Publish
  <2>2. Places'
    BY <2>1 DEF NetInv, Places
  <2>3. \A n, m \in Nets : Before(n, m)' => Before(n, m)
    BY <2>1, NetFacts DEF Before
  <2> QED
    BY <2>1, <2>2, <2>3, NetPasses, NetFacts
<1> QED
  BY <1>1, <1>2, <1>3, <1>4 DEF LoginStep

\* Center::run.
LEMMA NetOfLoopLock == ASSUME NetInv, LoopLock PROVE NetInv'
<1> USE DEF netVars, loginVars, callVars, serverVars
<1>1. /\ UNCHANGED <<link, is_run, wire, event_vec, net, new_net, login, center, taken, emitted>>
      /\ loop' = center
  BY DEF LoopLock
<1>2. Places'
  BY <1>1 DEF NetInv, Places
<1>3. \A n, m \in Nets : Before(n, m)' => Before(n, m)
  BY <1>1 DEF Before
<1> QED
  BY <1>1, <1>2, <1>3, NetPasses

LEMMA NetOfLoopTake == ASSUME Types, NetInv, LoopTake PROVE NetInv'
<1> USE DEF netVars, loginVars, callVars, serverVars
<1>1. /\ UNCHANGED <<link, is_run, wire, net, new_net, login, center, emitted>>
      /\ loop \in Nets /\ loop' = NoNet
      /\ taken' = taken \o event_vec[loop]
      /\ event_vec'[loop] = <<>> /\ \A n \in Nets \ {loop} : event_vec'[n] = event_vec[n]
  BY DEF LoopTake, Types
<1> DEFINE k == event_vec[loop]
           w == wire[loop]
<1>2. /\ k \in Seq(Events) /\ w \in Seq(MessageType) /\ emitted \in Nat
      /\ Good(k, w, link[loop], emitted) /\ taken \in Seq(Events)
  BY <1>1, NetStreams, NetTypes
<1>3. /\ Has(loop) = All(k, w) /\ Elems(k) \subseteq All(k, w)
      /\ \A n \in Nets : n = loop => Has(n)' = All(<<>>, w)
  BY <1>1 DEF Has, All
<1>4. \A n \in Nets \ {loop} : Has(n)' = Has(n)
  BY <1>1 DEF Has
<1>5. taken' = taken \o k /\ event_vec'[loop] = <<>>
  BY <1>1
<1> HIDE DEF k, w
<1>6. Good(<<>>, w, link[loop], emitted) /\ All(<<>>, w) \subseteq All(k, w)
  BY <1>2, GoodTaken
<1>7. \A e \in Elems(k) : \A f \in All(<<>>, w) : e < f
  BY <1>2, EmptyFacts DEF Good, All
<1>8. Ups(k) /\ \A e \in Elems(k) : e <= emitted
  BY <1>2, <1>3 DEF Good
<1>9. \A n \in Nets : Has(n)' \subseteq Has(n)
  BY <1>3, <1>4, <1>6
<1>10. Small'
  <2>1. \A n \in Nets : Len(event_vec'[n]) <= BufSize
    BY <1>1, EventNumbers DEF NetInv, Small
  <2> QED
    BY <2>1 DEF Small
<1>11. Streams'
  <2>1. \A n \in Nets : Good(event_vec'[n], wire[n], link[n], emitted)
    BY <1>1, <1>6 DEF NetInv, Streams, w
  <2> QED
    BY <1>1, <2>1 DEF Streams
<1>12. Links' /\ Places'
  BY <1>1 DEF NetInv, Links, Places
<1>13. Line'
  <2> SUFFICES ASSUME NEW n \in Nets, NEW m \in Nets, Before(n, m)'
               PROVE  link'[n] = "closed" /\ \A e \in Has(n)' : \A f \in Has(m)' : e < f
    BY DEF Line
  <2>1. Before(n, m)
    BY <1>1, NetFacts DEF Before
  <2> QED
    BY <1>1, <1>9, <2>1 DEF NetInv, Line
<1>14. Behind'
  <2>1. \A e \in Elems(taken) : \A f \in Elems(k) : e < f
    BY <1>1, <1>3 DEF NetInv, Behind
  <2>2. Ups(taken') /\ Elems(taken') = Elems(taken) \cup Elems(k)
    BY <1>2, <1>5, <1>8, <2>1, ConcatFacts DEF NetInv, Behind
  <2>3. ASSUME NEW n \in Nets, n \in {center, net, new_net},
               NEW e \in Elems(taken'), NEW f \in Has(n)'
        PROVE  e < f
    <3>1. CASE e \in Elems(taken)
      BY <1>9, <2>3, <3>1 DEF NetInv, Behind
    <3>2. CASE e \in Elems(k) /\ n = loop
      <4>1. f \in All(<<>>, w)
        BY <1>3, <2>3, <3>2
      <4> QED
        BY <1>7, <3>2, <4>1
    <3>3. CASE e \in Elems(k) /\ n # loop
      <4>1. Before(loop, n)
        BY <2>3, <3>3 DEF Before
      <4>2. e \in Has(loop) /\ f \in Has(n)
        BY <1>3, <1>9, <2>3, <3>3
      <4> QED
        BY <1>1, <4>1, <4>2 DEF NetInv, Line
    <3> QED
      BY <2>2, <2>3, <3>1, <3>2, <3>3
  <2>4. \A e \in Elems(taken') : e <= emitted
    BY <1>8, <2>2 DEF NetInv, Behind
  <2>5. \A n \in Nets : n \in {loop', center', net', new_net'} => n \in {center, net, new_net}
    BY <1>1, NetFacts
  <2> QED
    BY <1>1, <2>2, <2>3, <2>4, <2>5 DEF Behind
<1> QED
  BY <1>10, <1>11, <1>12, <1>13, <1>14 DEF NetInv

\* A new event is the newest one everywhere.
LEMMA NetOfEmit == ASSUME Types, NetInv, Emit PROVE NetInv'
<1> USE DEF netVars, loginVars, callVars, serverVars
<1> DEFINE e == emitted + 1
<1>1. /\ UNCHANGED <<link, is_run, event_vec, net, new_net, login, center, loop, taken>>
      /\ emitted' = e
      /\ \A n \in Nets : wire'[n] = IF link[n] = "open" THEN Append(wire[n], Message("event", e))
                                    ELSE wire[n]
  BY DEF Emit
<1>2. e \in Events /\ emitted \in Nat
  BY NetFacts DEF Emit, Types, Events
<1>3. \A n \in Nets : /\ Good(event_vec'[n], wire'[n], link'[n], e)
                      /\ Has(n)' = Has(n) \cup IF link[n] = "open" THEN {e} ELSE {}
  <2> SUFFICES ASSUME NEW n \in Nets
               PROVE  /\ Good(event_vec[n], wire'[n], link[n], e)
                      /\ All(event_vec[n], wire'[n]) =
                           All(event_vec[n], wire[n]) \cup IF link[n] = "open" THEN {e} ELSE {}
    BY <1>1 DEF Has
  <2>1. CASE link[n] = "open"
    BY <1>1, <1>2, <2>1, NetStreams, GoodEmit
  <2>2. CASE link[n] # "open"
    BY <1>1, <1>2, <2>2, NetStreams, GoodElsewhere
  <2> QED
    BY <2>1, <2>2
<1>4. /\ \A n \in Nets : \A f \in Has(n) : f < e
      /\ \A f \in Elems(taken) : f < e /\ f <= e
  <2>1. \A n \in Nets : \A f \in Has(n) : f \in Nat /\ f <= emitted
    BY NetTypes DEF NetInv, Streams, Good, Has
  <2>2. \A f \in Elems(taken) : f \in Nat /\ f <= emitted
    BY NetTypes DEF NetInv, Behind
  <2> QED
    BY <1>2, <2>1, <2>2
<1> HIDE DEF e
<1>5. Small' /\ Links' /\ Places'
  BY <1>1 DEF NetInv, Small, Links, Places
<1>6. Streams'
  BY <1>1, <1>3 DEF Streams
<1>7. Line'
  <2> SUFFICES ASSUME NEW n \in Nets, NEW m \in Nets, Before(n, m)'
               PROVE  link'[n] = "closed" /\ \A f \in Has(n)' : \A g \in Has(m)' : f < g
    BY DEF Line
  <2>1. Before(n, m)
    BY <1>1 DEF Before
  <2>2. link[n] = "closed" /\ \A f \in Has(n) : \A g \in Has(m) : f < g
    BY <2>1 DEF NetInv, Line
  <2>3. Has(n)' = Has(n) /\ Has(m)' \subseteq Has(m) \cup {e}
    BY <1>3, <2>2
  <2> QED
    BY <1>1, <1>4, <2>2, <2>3
<1>8. Behind'
  <2>1. ASSUME NEW n \in Nets, n \in {loop, center, net, new_net},
               NEW f \in Elems(taken), NEW g \in Has(n)'
        PROVE  f < g
    BY <1>3, <1>4, <2>1 DEF NetInv, Behind
  <2> QED
    BY <1>1, <1>4, <2>1 DEF NetInv, Behind
<1> QED
  BY <1>5, <1>6, <1>7, <1>8 DEF NetInv

LEMMA NetNext == Types /\ NetInv /\ [Next]_vars => NetInv'
<1> SUFFICES ASSUME Types, NetInv, [Next]_vars PROVE NetInv'
  OBVIOUS
<1>1. ASSUME NEW n \in Nets, OpenLink(n) \/ Break(n) \/ NetStep(n) PROVE NetInv'
  BY <1>1, NetOfLink, NetOfRead, NetOfDestroy DEF NetStep
<1>2. CASE LoginStep
  BY <1>2, NetOfLogin
<1>3. CASE LoopStep
  BY <1>3, NetOfLoopLock, NetOfLoopTake DEF LoopStep
<1>4. ASSUME NEW a \in Callers, Begin(a) PROVE NetInv'
  BY <1>4, NetStay DEF Begin, netVars, loginVars, serverVars
<1>5. ASSUME NEW c \in Calls, CallStep(c) PROVE NetInv'
  BY <1>5, NetStay
  DEF CallStep, Lock, Put, Send, LargeConnected, Pop, Remove, netVars, loginVars, serverVars
<1>6. ASSUME NEW c \in Calls, SendLarge(c) PROVE NetInv'
  BY <1>6, NetOfLarge
<1>7. ASSUME NEW c \in Calls, Tear(c) PROVE NetInv'
  BY <1>7, NetStay DEF Tear, netVars, loginVars, serverVars
<1>8. CASE Emit
  BY <1>8, NetOfEmit
<1>9. ASSUME NEW r \in requests, Serve(r) PROVE NetInv'
  BY <1>9, NetOfServe
<1>10. ASSUME NEW r \in requests, Lose(r) PROVE NetInv'
  BY <1>10, NetStay DEF Lose, netVars, loginVars
<1>11. CASE UNCHANGED vars
  BY <1>11, NetStay DEF vars, netVars, loginVars, serverVars
<1> QED
  BY <1>1, <1>2, <1>3, <1>4, <1>5, <1>6, <1>7, <1>8, <1>9, <1>10, <1>11 DEF Next, Step

-----------------------------------------------------------------------------
LEMMA IInvInit == Init => IInv
BY TypesInit, ExistsInit, CallsInit, NetInit DEF IInv

LEMMA Invariant == Spec => []IInv
<1>1. IInv /\ [Next]_vars => IInv'
  BY TypesNext, ExistsNext, CallsNext, NetNext DEF IInv, NetInv
<1> QED
  BY <1>1, IInvInit, PTL DEF Spec

(* The variables have their types, and no net that a thread works with has *)
(* been destroyed.                                                         *)
THEOREM TypeCorrect == Spec => []TypeOK
<1>1. IInv => TypeOK
  <2> SUFFICES ASSUME IInv PROVE TypeOK
    OBVIOUS
  <2>1. \A n \in {net, new_net, loop} \ {NoNet} : n \in Nets /\ link[n] # "none"
    BY DEF IInv, Types, Exists, Held
  <2>2. \A c \in Calls : on[c] # NoNet => link[on[c]] # "none"
    BY DEF IInv, Types, Exists, Held
  <2> QED
    BY <2>1, <2>2 DEF IInv, Types, NetInv, Small, TypeOK
<1> QED
  BY <1>1, Invariant, PTL

(* Center takes every event once at most and in the order of their         *)
(* arrival, however often the connection breaks and is made again.         *)
THEOREM EventsInOrder == Spec => []EventsOnceInOrder
<1>1. IInv => EventsOnceInOrder
  BY NetTypes DEF IInv, NetInv, Behind, Ups, EventsOnceInOrder
<1> QED
  BY <1>1, Invariant, PTL

(* Only the oldest events are missing from what a net has kept and is      *)
(* still to be given.                                                      *)
THEOREM NewestAreKept == Spec => []NewestKept
<1>1. IInv => NewestKept
  <2> SUFFICES ASSUME IInv, NEW n \in Nets
               PROVE  /\ \A e, f \in Pending(n) : e..f \subseteq Pending(n)
                      /\ link[n] = "open" /\ Pending(n) # {} => emitted \in Pending(n)
    BY DEF NewestKept
  <2>1. Pending(n) = All(event_vec[n], wire[n])
    BY DEF Pending, Kept, Coming, All, Elems, EventsIn
  <2> QED
    BY <2>1 DEF IInv, NetInv, Streams, Good
<1> QED
  BY <1>1, Invariant, PTL

-----------------------------------------------------------------------------
(***************************************************************************)
(* OneBotNet implements RemoteCall.                                        *)
(***************************************************************************)
LEMMA RemoteCallInit == Init => RC!Init
BY DEF Init, RC!Init

LEMMA RemoteCallStep == IInv /\ [Next]_vars => [RC!Next]_(RC!callVars)
<1> DEFINE phase == [c \in Calls |-> IF at[c] \in {"idle", "back"} THEN at[c] ELSE "out"]
           given == [c \in Calls |-> IF at[c] = "back" THEN result[c] ELSE NoCall]
<1> SUFFICES ASSUME IInv, [Next]_vars
             PROVE  (\E c \in Calls : RC!Begin(c) \/ RC!Run(c) \/ RC!Succeed(c) \/ RC!Fail(c))
                      \/ UNCHANGED <<phase, runs, given>>
  BY DEF RC!Next, RC!callVars
<1> USE DEF netVars, loginVars, callVars, serverVars
<1>0. Types /\ CallsInv
  BY DEF IInv
\* On the way, whatever becomes of its result.
<1>1. ASSUME NEW c \in Calls, at[c] \in PC \ {"idle", "back"}, at'[c] \in PC \ {"idle", "back"},
             UNCHANGED runs,
             \A d \in Calls \ {c} : at'[d] = at[d] /\ result'[d] = result[d]
      PROVE  UNCHANGED <<phase, runs, given>>
  <2>1. \A d \in Calls : (IF at'[d] \in {"idle", "back"} THEN at'[d] ELSE "out")
                           = IF at[d] \in {"idle", "back"} THEN at[d] ELSE "out"
    BY <1>1
  <2>2. \A d \in Calls : (IF at'[d] = "back" THEN result'[d] ELSE NoCall)
                           = IF at[d] = "back" THEN result[d] ELSE NoCall
    BY <1>1
  <2>3. UNCHANGED phase
    BY <2>1
  <2>4. UNCHANGED given
    BY <2>2
  <2> QED
    BY <1>1, <2>3, <2>4
<1>2. ASSUME UNCHANGED <<at, runs, result>> PROVE UNCHANGED <<phase, runs, given>>
  BY <1>2
\* A call returns what it has.
<1>3. ASSUME NEW c \in Calls, NEW from \in PC \ {"idle", "back"}, Goes(c, from, "back"),
             UNCHANGED <<runs, result>>
      PROVE  RC!Succeed(c) \/ RC!Fail(c)
  <2>1. at[c] = from /\ at'[c] = "back" /\ \A d \in Calls \ {c} : at'[d] = at[d]
    BY <1>0, <1>3, GoesType, PCFacts
  <2>2. phase[c] = "out" /\ phase' = [phase EXCEPT ![c] = "back"]
    BY <2>1
  <2>3. given[c] = NoCall /\ given' = [given EXCEPT ![c] = result[c]]
    BY <1>3, <2>1
  <2>4. CASE result[c] = NoCall
    <3>1. given' = given
      BY <2>3, <2>4
    <3> QED
      BY <1>3, <2>2, <3>1 DEF RC!Fail
  <2>5. CASE result[c] # NoCall
    <3>1. result[c] = c /\ runs[c] = 1
      BY <1>0, <2>5 DEF CallsInv
    <3> QED
      BY <1>3, <2>2, <2>3, <3>1 DEF RC!Succeed
  <2> QED
    BY <2>4, <2>5
<1>4. ASSUME NEW c \in Calls, NEW from \in PC \ {"idle", "back"}, NEW to \in PC \ {"idle", "back"},
             Goes(c, from, to), UNCHANGED runs,
             \A d \in Calls \ {c} : result'[d] = result[d]
      PROVE  UNCHANGED <<phase, runs, given>>
  <2>1. at[c] = from /\ at'[c] = to /\ \A d \in Calls \ {c} : at'[d] = at[d]
    BY <1>0, <1>4, GoesType
  <2> QED
    BY <1>1, <1>4, <2>1
<1>5. ASSUME NEW a \in Callers, Begin(a) PROVE \E c \in Calls : RC!Begin(c)
  <2>1. PICK c \in Calls : c = <<a, made[a] + 1>> /\ at[c] = "idle"
    <3> DEFINE d == <<a, made[a] + 1>>
    <3>1. made[a] \in Nat /\ made[a] + 1 \in 1..MaxCalls
      BY <1>0, <1>5, NetFacts DEF Begin, Types
    <3>2. d \in Calls /\ d[1] = a /\ d[2] = made[a] + 1
      BY <3>1, NetFacts
    <3>3. d[2] > made[d[1]]
      BY <3>1, <3>2
    <3> HIDE DEF d
    <3>4. at[d] = "idle"
      BY <1>0, <3>2, <3>3 DEF CallsInv
    <3> QED
      BY <3>2, <3>4 DEF d
  <2>2. at' = [at EXCEPT ![c] = "copy"] /\ UNCHANGED <<runs, result>>
    BY <1>5, <2>1 DEF Begin
  <2>3. at'[c] = "copy" /\ \A d \in Calls \ {c} : at'[d] = at[d]
    BY <1>0, <2>2 DEF Types
  <2>4. phase[c] = "idle" /\ phase' = [phase EXCEPT ![c] = "out"]
    BY <2>1, <2>3
  <2>5. given' = given
    BY <2>1, <2>2, <2>3
  <2> QED
    BY <2>2, <2>4, <2>5 DEF RC!Begin
<1>6. ASSUME NEW r \in requests, Serve(r) PROVE \E c \in Calls : RC!Run(c)
  <2> DEFINE c == r.call
  <2>1. c \in Calls /\ runs[c] = 0 /\ at[c] \in Sent
    BY <1>0 DEF Types, CallsInv
  <2>2. runs' = [runs EXCEPT ![c] = @ + 1] /\ UNCHANGED <<at, result>>
    BY <1>6 DEF Serve
  <2> HIDE DEF c
  <2>3. phase[c] # "idle"
    BY <2>1 DEF Sent
  <2>4. runs' = [runs EXCEPT ![c] = 1]
    BY <2>1, <2>2
  <2>5. UNCHANGED <<phase, given>>
    BY <2>2
  <2> QED
    BY <2>1, <2>3, <2>4, <2>5 DEF RC!Run
<1>7. ASSUME NEW c \in Calls, CallStep(c)
      PROVE  RC!Succeed(c) \/ RC!Fail(c) \/ UNCHANGED <<phase, runs, given>>
  <2>1. CASE Lock(c)
    <3>1. Goes(c, "copy", "put") \/ Goes(c, "copy", "back")
      BY <2>1 DEF Lock
    <3>2. UNCHANGED <<runs, result>>
      BY <2>1 DEF Lock
    <3> QED
      BY <1>3, <1>4, <3>1, <3>2, PCFacts
  <2>2. CASE Put(c)
    BY <1>4, <2>2, PCFacts DEF Put
  <2>3. CASE Send(c)
    <3>1. Goes(c, "send", "wait") \/ Goes(c, "send", "remove")
      BY <2>3 DEF Send
    <3>2. UNCHANGED <<runs, result>>
      BY <2>3 DEF Send
    <3> QED
      BY <1>4, <3>1, <3>2, PCFacts
  <2>4. CASE LargeConnected(c)
    <3>1. Goes(c, "connect", "put") \/ Goes(c, "connect", "remove")
      BY <2>4 DEF LargeConnected
    <3>2. UNCHANGED <<runs, result>>
      BY <2>4 DEF LargeConnected
    <3> QED
      BY <1>4, <3>1, <3>2, PCFacts
  <2>5. CASE Pop(c)
    <3>1. \A d \in Calls \ {c} : result'[d] = result[d]
      BY <1>0, <2>5 DEF Pop, Types
    <3>2. Goes(c, "wait", "remove") /\ UNCHANGED runs
      BY <2>5 DEF Pop
    <3> QED
      BY <1>4, <3>1, <3>2, PCFacts
  <2>6. CASE Remove(c)
    BY <1>3, <2>6, PCFacts DEF Remove
  <2> QED
    BY <1>7, <2>1, <2>2, <2>3, <2>4, <2>5, <2>6 DEF CallStep
<1>8. ASSUME NEW c \in Calls, SendLarge(c) PROVE UNCHANGED <<phase, runs, given>>
  BY <1>4, <1>8, PCFacts DEF SendLarge
<1>9. ASSUME NEW n \in Nets, OpenLink(n) \/ Break(n) \/ NetStep(n)
      PROVE  UNCHANGED <<phase, runs, given>>
  BY <1>2, <1>9 DEF OpenLink, Break, NetStep, OnClose, OnEvent, OnAnswer, Destroy
<1>10. ASSUME LoginStep \/ LoopStep \/ Emit \/ UNCHANGED vars
       PROVE  UNCHANGED <<phase, runs, given>>
  BY <1>2, <1>10
  DEF LoginStep, LoopStep, Reconnect, Adopt, GiveUp, Publish, LoopLock, LoopTake, Emit, vars
<1>11. ASSUME NEW c \in Calls, Tear(c) PROVE UNCHANGED <<phase, runs, given>>
  BY <1>2, <1>11 DEF Tear
<1>12. ASSUME NEW r \in requests, Lose(r) PROVE UNCHANGED <<phase, runs, given>>
  BY <1>2, <1>12 DEF Lose
<1> HIDE DEF phase, given
<1> QED
  BY <1>5, <1>6, <1>7, <1>8, <1>9, <1>10, <1>11, <1>12 DEF Next, Step

(* An API call is carried out once at most and returns its own answer or   *)
(* nothing, across timeouts, broken connections and new ones: OneBotNet    *)
(* implements RemoteCall.                                                  *)
THEOREM ImplementsRemoteCall == Spec => IsRemoteCall
BY RemoteCallInit, RemoteCallStep, Invariant, PTL DEF Spec, IsRemoteCall, RC!Spec
=============================================================================

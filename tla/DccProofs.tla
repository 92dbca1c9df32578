------------------------------- MODULE DccProofs -------------------------------
(***************************************************************************)
(* Proofs about the DCC track driver, for every set of commands and number *)
(* of repetitions.                                                         *)
(***************************************************************************)
EXTENDS Dcc, SequenceTheorems, TLAPS

Bits == {"PENDING", "INPROGRESS", "EXTENDED", "ON", "RESET_SENT"}
Names == {"load", "store", "start", "stop", "counter", "template", "cutout", "fill",
          "standard", "extended", "address", "data"}
Settings == Names \cup SUBSET Bits
Statements == [do : Names, set : Settings, clear : SUBSET Bits]

(* What a store to status may do: it sets PENDING only with INPROGRESS and *)
(* clears neither.                                                         *)
Harmless(s) ==
  /\ "PENDING" \in s.set => "INPROGRESS" \in s.set
  /\ "PENDING" \notin s.clear /\ "INPROGRESS" \notin s.clear

(* The rest of a call: every store of status follows its load.             *)
Rest(q) ==
  /\ q \in Seq(Statements)
  /\ \A i \in 1 .. Len(q) :
       q[i].do = "store" => Harmless(q[i]) /\ (i > 1 => q[i - 1].do = "load")

Whole(q) == Rest(q) /\ (Len(q) > 0 => q[1].do # "store")

(* What a setting can be.                                                  *)
LEMMA SettingsFacts ==
  /\ \A x \in Names : x \in Settings
  /\ \A x \in SUBSET Bits : x \in Settings
<1> QED BY Zenon DEF Settings

(* A statement put together from its parts is one.                         *)
LEMMA StatementIn ==
  ASSUME NEW x \in Names, NEW y \in Settings, NEW z \in SUBSET Bits
  PROVE  [do |-> x, set |-> y, clear |-> z] \in Statements
  BY DEF Statements

(* Scripts are built from whole pieces.                                    *)
LEMMA WholeConcat ==
  ASSUME NEW q, NEW r, Whole(q), Whole(r)
  PROVE  Whole(q \o r)
<1> USE DEF Whole, Rest
<1>1. q \in Seq(Statements) /\ r \in Seq(Statements)
  OBVIOUS
<1>2. /\ q \o r \in Seq(Statements)
      /\ Len(q \o r) = Len(q) + Len(r)
      /\ \A i \in 1 .. Len(q) + Len(r) : (q \o r)[i] = IF i <= Len(q) THEN q[i] ELSE r[i - Len(q)]
  BY <1>1, ConcatProperties
<1>3. Len(q) \in Nat /\ Len(r) \in Nat
  BY <1>1, LenProperties
<1>4. ASSUME NEW i \in 1 .. Len(q \o r), (q \o r)[i].do = "store"
      PROVE  Harmless((q \o r)[i]) /\ i > 1 /\ (q \o r)[i - 1].do = "load"
  <2>1. CASE i <= Len(q)
    <3>1. i \in 1 .. Len(q) /\ (q \o r)[i] = q[i]
      BY <1>2, <1>3, <2>1
    <3>2. i > 1 /\ q[i - 1].do = "load" /\ Harmless(q[i])
      BY <3>1, <1>4, <1>3
    <3>3. (q \o r)[i - 1] = q[i - 1]
      BY <1>2, <1>3, <3>2, <3>1
    <3> QED BY <3>1, <3>2, <3>3
  <2>2. CASE i > Len(q)
    <3> DEFINE j == i - Len(q)
    <3>1. j \in 1 .. Len(r) /\ (q \o r)[i] = r[j]
      BY <1>2, <1>3, <2>2
    <3>2. j > 1 /\ r[j - 1].do = "load" /\ Harmless(r[j])
      BY <3>1, <1>4, <1>3
    <3>3. (q \o r)[i - 1] = r[j - 1]
      BY <1>2, <1>3, <3>2, <3>1
    <3> QED BY <3>1, <3>2, <3>3, <1>3
  <2> QED BY <2>1, <2>2, <1>2, <1>3
<1>5. Len(q \o r) > 0 => (q \o r)[1].do # "store"
  BY <1>4, <1>2, <1>3
<1> QED BY <1>2, <1>4, <1>5

(* A statement that stores no status is whole, ...                         *)
LEMMA WholeSingle ==
  ASSUME NEW x \in Names, x # "store", NEW y \in Settings
  PROVE  Whole(<<Do(x, y)>>)
<1>1. Do(x, y) \in Statements
  BY DEF Do, Statements
<1>2. Do(x, y).do # "store"
  BY DEF Do
<1> HIDE DEF Do
<1> QED BY <1>1, <1>2 DEF Whole, Rest

(* ... and so are two, ...                                                 *)
LEMMA WholePair ==
  ASSUME NEW x \in Names, x # "store", NEW y \in Settings,
         NEW v \in Names, v # "store", NEW w \in Settings
  PROVE  Whole(<<Do(x, y), Do(v, w)>>)
<1>1. Do(x, y) \in Statements /\ Do(v, w) \in Statements
  BY DEF Do, Statements
<1>2. Do(x, y).do # "store" /\ Do(v, w).do # "store"
  BY DEF Do
<1> QED BY <1>1, <1>2 DEF Whole, Rest

(* ... a read-modify-write of status that is harmless, ...                 *)
LEMMA WholeRmw ==
  ASSUME NEW set \in SUBSET Bits, NEW clear \in SUBSET Bits,
         "PENDING" \in set => "INPROGRESS" \in set,
         "PENDING" \notin clear, "INPROGRESS" \notin clear
  PROVE  Whole(Rmw(set, clear))
<1> DEFINE s == [do |-> "store", set |-> set, clear |-> clear]
<1>1. s \in Statements /\ Do("load", {}) \in Statements
  <2>1. {} \in SUBSET Bits /\ set \in Settings /\ {} \in Settings
    BY SettingsFacts
  <2>2. "load" \in Names /\ "store" \in Names
    BY DEF Names
  <2> QED BY <2>1, <2>2, StatementIn DEF Do
<1>2. Rmw(set, clear) = <<Do("load", {}), s>>
  BY DEF Rmw
<1>3. s.do = "store" /\ Harmless(s) /\ Do("load", {}).do = "load"
  BY DEF Harmless, Do
<1> HIDE DEF s
<1> QED BY <1>1, <1>2, <1>3 DEF Whole, Rest

(* ... and nothing at all.                                                 *)
LEMMA WholeEmpty == Whole(<<>>)
  BY DEF Whole, Rest
-----------------------------------------------------------------------------
(* The invariant. A command only raises PENDING together with INPROGRESS;  *)
(* between the load and the store of status the interrupt only takes bits  *)
(* away, so that the store can bring old bits back but loses none of them. *)

Flagged(f) == "PENDING" \in f => "INPROGRESS" \in f

Inv ==
  /\ Rest(todo)
  /\ Flagged(status) /\ Flagged(reg)
  /\ Len(todo) > 0 /\ todo[1].do = "store" => status \subseteq reg
  /\ PoweredWhileSent

(* Before the first command nothing is left to do.                         *)
LEMMA InitInv == Init => Inv
<1> SUFFICES ASSUME Init PROVE Inv
  OBVIOUS
<1>1. todo = <<>> /\ Len(todo) = 0 /\ Rest(todo)
  BY WholeEmpty DEF Init, Whole
<1> QED BY <1>1 DEF Init, Inv, Flagged, PoweredWhileSent

(* Every script is whole.                                                  *)
LEMMA WholeScripts ==
  ASSUME Kinds \subseteq AllKinds, NEW kind \in Kinds
  PROVE  Whole(Start) /\ Whole(Stop) /\ (kind \notin {"dcc_start", "dcc_stop"} => Whole(Script(kind)))
<1>1. /\ {} \in SUBSET Bits /\ {"ON"} \in SUBSET Bits /\ {"EXTENDED"} \in SUBSET Bits
      /\ {"RESET_SENT"} \in SUBSET Bits /\ {"PENDING", "INPROGRESS"} \in SUBSET Bits
  BY DEF Bits
<1>2. Whole(<<Do("start", {})>>) /\ Whole(<<Do("stop", {})>>) /\ Whole(<<Do("counter", {})>>)
  <2>1. {} \in Settings
    BY <1>1, SettingsFacts
  <2>2. "start" \in Names /\ "stop" \in Names /\ "counter" \in Names
    BY DEF Names
  <2> QED BY <2>1, <2>2, WholeSingle
<1>3. /\ Whole(Rmw({"ON"}, {})) /\ Whole(Rmw({}, {"ON"}))
      /\ Whole(Rmw({}, {"EXTENDED"})) /\ Whole(Rmw({"EXTENDED"}, {}))
      /\ Whole(Rmw({"RESET_SENT"}, {})) /\ Whole(Rmw({"PENDING", "INPROGRESS"}, {}))
  BY <1>1, WholeRmw
<1>4. Whole(Start) /\ Whole(Stop) /\ Whole(Request)
  BY <1>2, <1>3, WholeConcat DEF Start, Stop, Request
<1>5. /\ Whole(<<Do("template", "standard"), Do("cutout", "standard")>>)
      /\ Whole(<<Do("template", "extended"), Do("cutout", "extended")>>)
      /\ Whole(Fill)
  <2>1. /\ "template" \in Names /\ "cutout" \in Names /\ "fill" \in Names
        /\ "standard" \in Names /\ "extended" \in Names /\ "address" \in Names /\ "data" \in Names
    BY DEF Names
  <2> QED BY <2>1, WholePair, SettingsFacts DEF Fill
<1>6. ASSUME kind \notin {"dcc_start", "dcc_stop"}
      PROVE  Whole(Compile(kind))
  <2>1. CASE kind = "T4"
    BY <2>1, <1>3, <1>5, WholeConcat DEF Compile
  <2>2. CASE kind = "T5"
    BY <2>2, <1>3, <1>5, WholeConcat DEF Compile
  <2>3. CASE kind = "R"
    BY <2>3, <1>3, <1>5, WholeConcat DEF Compile
  <2>4. CASE kind = "A"
    BY <2>4, <1>4 DEF Compile
  <2>5. CASE kind = "a"
    BY <2>5, <1>4 DEF Compile
  <2>6. CASE kind = "other"
    BY <2>6, WholeEmpty DEF Compile
  <2> QED BY <1>6, <2>1, <2>2, <2>3, <2>4, <2>5, <2>6 DEF AllKinds
<1> QED BY <1>4, <1>6, WholeConcat DEF Script

(* What is left of a call after a step is the rest of one too.             *)
LEMMA RestOfRest ==
  ASSUME NEW q, Rest(q), q # <<>>
  PROVE  /\ Rest(Tail(q)) /\ Head(q) = q[1] /\ Len(q) > 0
         /\ q[1] \in Statements
         /\ Len(Tail(q)) > 0 /\ Tail(q)[1].do = "store" => q[1].do = "load"
<1> USE DEF Rest
<1>1. q \in Seq(Statements)
  OBVIOUS
<1>2. /\ Head(q) \in Statements /\ Tail(q) \in Seq(Statements) /\ Len(Tail(q)) = Len(q) - 1
      /\ \A i \in 1 .. Len(Tail(q)) : Tail(q)[i] = q[i + 1]
  BY <1>1, HeadTailProperties
<1>3. Len(q) \in Nat /\ Len(q) > 0 /\ Head(q) = q[1]
  BY <1>1
<1>4. ASSUME NEW i \in 1 .. Len(Tail(q)), Tail(q)[i].do = "store"
      PROVE  Harmless(Tail(q)[i]) /\ q[i].do = "load" /\ (i > 1 => Tail(q)[i - 1].do = "load")
  <2>1. i + 1 \in 1 .. Len(q) /\ i + 1 > 1 /\ i = (i + 1) - 1
    BY <1>2, <1>3
  <2>2. Harmless(q[i + 1]) /\ q[i].do = "load"
    BY <2>1, <1>2, <1>4
  <2>3. i > 1 => Tail(q)[i - 1] = q[i]
    BY <1>2, <1>3
  <2> QED BY <2>2, <2>3, <1>2
<1> QED BY <1>2, <1>3, <1>4

(* Every statement and every interrupt keeps the invariant.                *)
LEMMA StepInv ==
  ASSUME Kinds \subseteq AllKinds, Inv, [Next]_vars
  PROVE  Inv'
<1>1. ASSUME NEW kind \in Kinds, Call(kind)
      PROVE  Inv'
  <2>1. Whole(todo')
    BY <1>1, WholeScripts DEF Call
  <2> QED BY <1>1, <2>1 DEF Call, Inv, Whole, driver, Flagged, PoweredWhileSent
<1>2. CASE Step
  <2> DEFINE s == Head(todo)
  <2>1. /\ Rest(todo') /\ s = todo[1] /\ Len(todo) > 0 /\ s \in Statements
        /\ Len(todo') > 0 /\ todo'[1].do = "store" => s.do = "load"
    BY <1>2, RestOfRest DEF Step, Inv
  <2>2. CASE s.do = "store"
    <3>1. Harmless(s) /\ status \subseteq reg /\ Flagged(reg)
      BY <2>1, <2>2 DEF Inv, Rest
    <3>2. status' = (reg \ s.clear) \cup s.set /\ reg' = reg
      BY <1>2, <2>2 DEF Step
    <3>3. Flagged(status') /\ Flagged(reg')
      BY <3>1, <3>2 DEF Flagged, Harmless
    <3>4. "INPROGRESS" \in status => "INPROGRESS" \in status'
      BY <3>1, <3>2 DEF Harmless
    <3>5. PoweredWhileSent'
      BY <1>2, <3>4 DEF Step, Inv, PoweredWhileSent
    <3> QED BY <2>1, <2>2, <3>3, <3>5 DEF Inv
  <2>3. CASE s.do # "store"
    <3>1. /\ status' = status /\ reg' = IF s.do = "load" THEN status ELSE reg
          /\ second' = second /\ power' = power
      BY <1>2, <2>3 DEF Step
    <3> QED BY <2>1, <3>1 DEF Inv, Flagged, PoweredWhileSent
  <2> QED BY <2>2, <2>3
<1>3. CASE Cplt
  <2>1. todo' = todo /\ reg' = reg /\ status' \subseteq status
    BY <1>3 DEF Cplt
  <2>2. Flagged(status') /\ PoweredWhileSent'
    BY <1>3 DEF Cplt, Inv, Flagged, PoweredWhileSent
  <2> QED BY <2>1, <2>2 DEF Inv, Flagged
<1>4. CASE UNCHANGED vars
  BY <1>4 DEF vars, driver, history, Inv, Flagged, PoweredWhileSent
<1> QED BY <1>1, <1>2, <1>3, <1>4 DEF Next

(* The line has power while a packet other than idle is sent, and the      *)
(* status says that one is in progress, wherever the interrupt cuts the    *)
(* statements of dcc_commands, dcc_start and dcc_stop.                     *)
THEOREM PoweredWhileSending ==
  ASSUME Kinds \subseteq AllKinds
  PROVE  Spec => []PoweredWhileSent
<1>1. Inv => PoweredWhileSent
  BY DEF Inv
<1> QED BY InitInv, StepInv, <1>1, PTL DEF Spec
-----------------------------------------------------------------------------
(* The commands as a whole.                                                *)

(* The statements of a call that write the work packet and the cutout,     *)
(* which come in this order.                                               *)
Data == {"template", "cutout", "fill"}
Rank(s) == CASE s.do = "template" -> 1
             [] s.do = "cutout" -> 2
             [] s.do = "fill" /\ s.set = "address" -> 3
             [] OTHER -> 4
InOrder(q) == \A i, j \in 1 .. Len(q) : i < j /\ q[i].do \in Data /\ q[j].do \in Data => Rank(q[i]) < Rank(q[j])

(* Which of them are left: of a packet of kind x, those from one on.       *)
Left(q) == {q[i] : i \in {j \in 1 .. Len(q) : q[j].do \in Data}}
Chain(n, x) ==
  CASE n = 1 -> {Do("template", x), Do("cutout", x), Do("fill", "address"), Do("fill", "data")}
    [] n = 2 -> {Do("cutout", x), Do("fill", "address"), Do("fill", "data")}
    [] n = 3 -> {Do("fill", "address"), Do("fill", "data")}
    [] n = 4 -> {Do("fill", "data")}

(* A command raises PENDING and INPROGRESS with its last statement, after  *)
(* it has set the counter, and no other statement raises them.             *)
Tame(s) == s.do = "store" => "PENDING" \notin s.set /\ "INPROGRESS" \notin s.set
Raises(s) == s.do = "store" /\ "PENDING" \in s.set /\ "INPROGRESS" \in s.set
Sends(q) == q # <<>> /\ Raises(q[Len(q)])
Counts(q) == \E i \in 1 .. Len(q) : q[i].do = "counter"
Control(q) ==
  /\ \A i \in 1 .. Len(q) : i < Len(q) => Tame(q[i])
  /\ q # <<>> => Tame(q[Len(q)]) \/ Raises(q[Len(q)])

(* A packet as a whole command leaves it.                                  *)
Compiled(w, c) ==
  w = Blank \/ (w.part["address"] = w.part["data"] /\ w.part["data"] # 0 /\ w.template = c)

(* The work packet, as far as the call has come.                           *)
Compiling ==
  \/ Left(todo) = {} /\ Compiled(work, cutout)
  \/ \E n \in 1 .. 4, x \in {"standard", "extended"} :
       /\ Left(todo) = Chain(n, x)
       /\ n = 4 => work.part["address"] = count
       /\ n >= 3 => work.template = cutout
       /\ n = 2 => work.template = x

Flags == {"PENDING", "INPROGRESS"}

(* While a command that came when none was in progress is compiled nothing *)
(* is sent; then it is sent and counted.                                   *)
Sending ==
  given = "free" =>
    /\ todo # <<>> =>
         /\ status \cap Flags = {} /\ second = Idle
         /\ todo[1].do = "store" => reg \cap Flags = {}
         /\ Sends(todo) => loads = 0 /\ (counter = Repeat \/ Counts(todo))
         /\ ~ Sends(todo) => loads = Repeat + 1
    /\ todo = <<>> =>
         /\ loads + (IF "PENDING" \in status THEN counter + 1 ELSE 0) = Repeat + 1
         /\ second = Idle \/ Compiled(second, cutout)

SendInv ==
  /\ InOrder(todo) /\ Control(todo) /\ Compiling /\ Sending
  /\ DOMAIN work = {"template", "part"} /\ DOMAIN work.part = Parts
  /\ count \in Nat /\ counter \in Nat /\ loads \in Nat
  /\ todo # <<>> => count > 0

(* The statements of packets of one kind, in their order.                  *)
LEMMA Ranks ==
  ASSUME NEW x
  PROVE  /\ Rank(Do("template", x)) = 1 /\ Do("template", x).do = "template" /\ Do("template", x).set = x
         /\ Rank(Do("cutout", x)) = 2 /\ Do("cutout", x).do = "cutout" /\ Do("cutout", x).set = x
         /\ Rank(Do("fill", "address")) = 3 /\ Do("fill", "address").do = "fill"
         /\ Rank(Do("fill", "data")) = 4 /\ Do("fill", "data").do = "fill"
         /\ Do("fill", "address").set = "address" /\ Do("fill", "data").set = "data"
BY DEF Rank, Do

(* The statement that comes first is the first of its chain.               *)
LEMMA ChainTop ==
  ASSUME NEW n \in 1 .. 4, NEW x, NEW h \in Chain(n, x),
         \A e \in Chain(n, x) : e = h \/ Rank(h) < Rank(e)
  PROVE  /\ n = 1 => h = Do("template", x) /\ Chain(n, x) \ {h} = Chain(2, x)
         /\ n = 2 => h = Do("cutout", x) /\ Chain(n, x) \ {h} = Chain(3, x)
         /\ n = 3 => h = Do("fill", "address") /\ Chain(n, x) \ {h} = Chain(4, x)
         /\ n = 4 => h = Do("fill", "data") /\ Chain(n, x) \ {h} = {}
<1> DEFINE a == Do("template", x)
           b == Do("cutout", x)
           c == Do("fill", "address")
           d == Do("fill", "data")
<1>1. Rank(a) = 1 /\ Rank(b) = 2 /\ Rank(c) = 3 /\ Rank(d) = 4
  BY Ranks
<1>2. /\ Chain(1, x) = {a, b, c, d} /\ Chain(2, x) = {b, c, d}
      /\ Chain(3, x) = {c, d} /\ Chain(4, x) = {d}
  BY DEF Chain
<1> HIDE DEF a, b, c, d
<1>3. a # b /\ a # c /\ a # d /\ b # c /\ b # d /\ c # d
  BY <1>1
<1>4. n = 1 \/ n = 2 \/ n = 3 \/ n = 4
  OBVIOUS
<1>5. CASE n = 1
  <2>1. h = a
    BY <1>1, <1>2, <1>3, <1>5
  <2> QED BY <1>2, <1>3, <1>5, <2>1 DEF a
<1>6. CASE n = 2
  <2>1. h = b
    BY <1>1, <1>2, <1>3, <1>6
  <2> QED BY <1>2, <1>3, <1>6, <2>1 DEF b
<1>7. CASE n = 3
  <2>1. h = c
    BY <1>1, <1>2, <1>3, <1>7
  <2> QED BY <1>2, <1>3, <1>7, <2>1 DEF c
<1>8. CASE n = 4
  BY <1>2, <1>8 DEF d
<1> QED BY <1>4, <1>5, <1>6, <1>7, <1>8

(* A piece of a script: its statements for the packet are S, of ranks from *)
(* a on up to b, in order, and it raises nothing.                          *)
Ordered(q, a, b) ==
  /\ InOrder(q)
  /\ \A i \in 1 .. Len(q) : q[i].do \in Data => a < Rank(q[i]) /\ Rank(q[i]) <= b
Piece(q, a, b, S) ==
  /\ q \in Seq(Statements) /\ Ordered(q, a, b) /\ Left(q) = S
  /\ \A i \in 1 .. Len(q) : Tame(q[i])

(* What is left to write is in the script.                                 *)
LEMMA LeftIn ==
  ASSUME NEW q, NEW e
  PROVE  e \in Left(q) <=> \E i \in 1 .. Len(q) : e = q[i] /\ q[i].do \in Data
BY DEF Left

(* There are four ranks.                                                   *)
LEMMA RankNat == ASSUME NEW s PROVE Rank(s) \in 1 .. 4
  BY DEF Rank

(* Scripts whose ranks follow each other make an ordered one.              *)
LEMMA OrderedConcat ==
  ASSUME NEW q \in Seq(Statements), NEW r \in Seq(Statements),
         NEW a \in Nat, NEW b \in Nat, NEW c \in Nat, a <= b, b <= c,
         Ordered(q, a, b), Ordered(r, b, c)
  PROVE  /\ q \o r \in Seq(Statements) /\ Len(q \o r) = Len(q) + Len(r)
         /\ \A i \in 1 .. Len(q) : (q \o r)[i] = q[i]
         /\ \A i \in 1 .. Len(r) : (q \o r)[Len(q) + i] = r[i]
         /\ \A i \in 1 .. Len(q \o r) : i \in 1 .. Len(q) \/ \E j \in 1 .. Len(r) : i = Len(q) + j
         /\ Ordered(q \o r, a, c) /\ Left(q \o r) = Left(q) \cup Left(r)
<1>1. /\ q \o r \in Seq(Statements) /\ Len(q \o r) = Len(q) + Len(r)
      /\ \A i \in 1 .. Len(q) + Len(r) : (q \o r)[i] = IF i <= Len(q) THEN q[i] ELSE r[i - Len(q)]
  BY ConcatProperties
<1>2. Len(q) \in Nat /\ Len(r) \in Nat
  BY LenProperties
<1>3. \A i \in 1 .. Len(q) : i \in 1 .. Len(q) + Len(r) /\ (q \o r)[i] = q[i]
  BY <1>1, <1>2
<1>4. \A i \in 1 .. Len(r) : Len(q) + i \in 1 .. Len(q) + Len(r) /\ (q \o r)[Len(q) + i] = r[i]
  <2>1. ASSUME NEW i \in 1 .. Len(r)
        PROVE  Len(q) + i \in 1 .. Len(q) + Len(r) /\ ~ (Len(q) + i <= Len(q)) /\ (Len(q) + i) - Len(q) = i
    BY <1>2
  <2> QED BY <1>1, <2>1
<1>5. \A i \in 1 .. Len(q \o r) : i \in 1 .. Len(q) \/ \E j \in 1 .. Len(r) : i = Len(q) + j
  <2>1. ASSUME NEW i \in 1 .. Len(q \o r), i \notin 1 .. Len(q)
        PROVE  i - Len(q) \in 1 .. Len(r) /\ i = Len(q) + (i - Len(q))
    BY <1>1, <1>2, <2>1
  <2> QED BY <2>1
<1>6. Left(q \o r) = Left(q) \cup Left(r)
  <2>1. ASSUME NEW e \in Left(q \o r)
        PROVE  e \in Left(q) \cup Left(r)
    <3>1. PICK i \in 1 .. Len(q \o r) : e = (q \o r)[i] /\ (q \o r)[i].do \in Data
      BY <2>1, LeftIn
    <3>2. CASE i \in 1 .. Len(q)
      <4>1. e = q[i] /\ q[i].do \in Data
        BY <1>3, <3>1, <3>2
      <4> QED BY <3>2, <4>1, LeftIn
    <3>3. ASSUME NEW j \in 1 .. Len(r), i = Len(q) + j
          PROVE  e \in Left(r)
      <4>1. e = r[j] /\ r[j].do \in Data
        BY <1>4, <3>1, <3>3
      <4> QED BY <4>1, LeftIn
    <3> QED BY <1>5, <3>2, <3>3
  <2>2. ASSUME NEW e \in Left(q)
        PROVE  e \in Left(q \o r)
    <3>1. PICK i \in 1 .. Len(q) : e = q[i] /\ q[i].do \in Data
      BY <2>2, LeftIn
    <3>2. i \in 1 .. Len(q \o r) /\ (q \o r)[i] = q[i]
      BY <1>1, <1>3
    <3> QED BY <3>1, <3>2, LeftIn
  <2>3. ASSUME NEW e \in Left(r)
        PROVE  e \in Left(q \o r)
    <3>1. PICK i \in 1 .. Len(r) : e = r[i] /\ r[i].do \in Data
      BY <2>3, LeftIn
    <3>2. Len(q) + i \in 1 .. Len(q \o r) /\ (q \o r)[Len(q) + i] = r[i]
      BY <1>1, <1>4
    <3> QED BY <3>1, <3>2, LeftIn
  <2> QED BY <2>1, <2>2, <2>3
<1>7. ASSUME NEW i \in 1 .. Len(q \o r), (q \o r)[i].do \in Data
      PROVE  a < Rank((q \o r)[i]) /\ Rank((q \o r)[i]) <= c
  <2>0. Rank((q \o r)[i]) \in Int
    BY RankNat
  <2>1. CASE i \in 1 .. Len(q)
    <3>1. a < Rank((q \o r)[i]) /\ Rank((q \o r)[i]) <= b
      BY <1>3, <1>7, <2>1 DEF Ordered
    <3> QED BY <2>0, <3>1
  <2>2. CASE \E j \in 1 .. Len(r) : i = Len(q) + j
    <3>1. b < Rank((q \o r)[i]) /\ Rank((q \o r)[i]) <= c
      BY <1>4, <1>7, <2>2 DEF Ordered
    <3> QED BY <2>0, <3>1
  <2> QED BY <1>5, <2>1, <2>2
<1>8. ASSUME NEW i \in 1 .. Len(q \o r), NEW j \in 1 .. Len(q \o r), i < j,
             (q \o r)[i].do \in Data, (q \o r)[j].do \in Data
      PROVE  Rank((q \o r)[i]) < Rank((q \o r)[j])
  <2>1. CASE i \in 1 .. Len(q) /\ j \in 1 .. Len(q)
    BY <1>3, <1>8, <2>1 DEF Ordered, InOrder
  <2>2. CASE i \in 1 .. Len(q) /\ \E k \in 1 .. Len(r) : j = Len(q) + k
    <3>1. Rank((q \o r)[i]) <= b
      BY <1>3, <1>8, <2>2 DEF Ordered
    <3>2. b < Rank((q \o r)[j])
      BY <1>4, <1>8, <2>2 DEF Ordered
    <3>3. Rank((q \o r)[i]) \in Int /\ Rank((q \o r)[j]) \in Int
      BY RankNat
    <3> QED BY <3>1, <3>2, <3>3
  <2>3. CASE (\E k \in 1 .. Len(r) : i = Len(q) + k) /\ j \in 1 .. Len(q)
    BY <1>2, <1>8, <2>3
  <2>4. ASSUME NEW k \in 1 .. Len(r), NEW m \in 1 .. Len(r), i = Len(q) + k, j = Len(q) + m
        PROVE  Rank((q \o r)[i]) < Rank((q \o r)[j])
    <3>1. k < m
      BY <1>2, <1>8, <2>4
    <3>2. (q \o r)[i] = r[k] /\ (q \o r)[j] = r[m]
      BY <1>4, <2>4
    <3> QED BY <1>8, <3>1, <3>2 DEF Ordered, InOrder
  <2> QED BY <1>5, <2>1, <2>2, <2>3, <2>4
<1>9. Ordered(q \o r, a, c)
  BY <1>7, <1>8 DEF Ordered, InOrder
<1> QED BY <1>1, <1>3, <1>4, <1>5, <1>6, <1>9

(* So do pieces, and what they leave to write adds up.                     *)
LEMMA PieceConcat ==
  ASSUME NEW q, NEW r, NEW a \in Nat, NEW b \in Nat, NEW c \in Nat, a <= b, b <= c,
         NEW S, NEW T, Piece(q, a, b, S), Piece(r, b, c, T)
  PROVE  Piece(q \o r, a, c, S \cup T)
<1>1. /\ q \o r \in Seq(Statements) /\ Ordered(q \o r, a, c) /\ Left(q \o r) = S \cup T
      /\ \A i \in 1 .. Len(q) : (q \o r)[i] = q[i]
      /\ \A i \in 1 .. Len(r) : (q \o r)[Len(q) + i] = r[i]
      /\ \A i \in 1 .. Len(q \o r) : i \in 1 .. Len(q) \/ \E j \in 1 .. Len(r) : i = Len(q) + j
  BY OrderedConcat DEF Piece
<1> QED BY <1>1 DEF Piece

(* The pieces scripts are made of: a statement that is not for the packet, *)
(* a read-modify-write of status, ...                                      *)
LEMMA PieceOther ==
  ASSUME NEW x \in Names, x \notin Data, x # "store", NEW y \in Settings, NEW k \in Nat
  PROVE  Piece(<<Do(x, y)>>, k, k, {})
<1>1. Do(x, y) \in Statements /\ Do(x, y).do = x
  BY DEF Do, Statements
<1> HIDE DEF Do
<1>2. <<Do(x, y)>> \in Seq(Statements) /\ Len(<<Do(x, y)>>) = 1 /\ <<Do(x, y)>>[1] = Do(x, y)
  BY <1>1
<1>3. \A i \in 1 .. 1 : i = 1
  OBVIOUS
<1> QED BY <1>1, <1>2, <1>3 DEF Piece, Ordered, InOrder, Left, Tame

(* A change of status bits that are not those of the packet is a piece.    *)
LEMMA PieceRmw ==
  ASSUME NEW set \in SUBSET Bits, NEW clear \in SUBSET Bits,
         "PENDING" \notin set, "INPROGRESS" \notin set, NEW k \in Nat
  PROVE  Piece(Rmw(set, clear), k, k, {})
<1> DEFINE s == [do |-> "store", set |-> set, clear |-> clear]
<1>1. s \in Statements /\ Do("load", {}) \in Statements
  <2>1. {} \in SUBSET Bits /\ set \in Settings /\ {} \in Settings
    BY SettingsFacts
  <2>2. "load" \in Names /\ "store" \in Names
    BY DEF Names
  <2> QED BY <2>1, <2>2, StatementIn DEF Do
<1>2. Rmw(set, clear) = <<Do("load", {}), s>>
  BY DEF Rmw
<1>3. s.do = "store" /\ s.set = set /\ Do("load", {}).do = "load"
  BY DEF Do
<1> HIDE DEF s
<1> DEFINE q == <<Do("load", {}), s>>
<1>4. q \in Seq(Statements) /\ Len(q) = 2 /\ q[1] = Do("load", {}) /\ q[2] = s
  BY <1>1
<1> HIDE DEF q
<1>5. \A i \in 1 .. 2 : i = 1 \/ i = 2
  OBVIOUS
<1>6. \A i \in 1 .. Len(q) : q[i].do \notin Data /\ Tame(q[i])
  BY <1>3, <1>4, <1>5 DEF Data, Tame
<1>7. Piece(q, k, k, {})
  BY <1>4, <1>6 DEF Piece, Ordered, InOrder, Left
<1> QED BY <1>2, <1>7 DEF q

(* ... and two statements for the packet.                                  *)
LEMMA PiecePair ==
  ASSUME NEW x \in Data, NEW y \in Names, NEW v \in Data, NEW w \in Names,
         NEW a \in Nat, NEW b \in Nat,
         a < Rank(Do(x, y)), Rank(Do(x, y)) < Rank(Do(v, w)), Rank(Do(v, w)) <= b
  PROVE  Piece(<<Do(x, y), Do(v, w)>>, a, b, {Do(x, y), Do(v, w)})
<1>1. Do(x, y) \in Statements /\ Do(v, w) \in Statements /\ Do(x, y).do = x /\ Do(v, w).do = v
  BY SettingsFacts DEF Do, Statements, Data, Names
<1>2. Rank(Do(x, y)) \in Nat /\ Rank(Do(v, w)) \in Nat
  BY RankNat
<1> HIDE DEF Do
<1> DEFINE q == <<Do(x, y), Do(v, w)>>
<1>3. q \in Seq(Statements) /\ Len(q) = 2 /\ q[1] = Do(x, y) /\ q[2] = Do(v, w)
  BY <1>1
<1> HIDE DEF q
<1>4. \A i \in 1 .. 2 : i = 1 \/ i = 2
  OBVIOUS
<1>5. Left(q) = {Do(x, y), Do(v, w)}
  <2>1. {j \in 1 .. Len(q) : q[j].do \in Data} = {1, 2}
    BY <1>1, <1>3, <1>4
  <2>2. Left(q) = {q[i] : i \in {1, 2}}
    BY <2>1 DEF Left
  <2> QED BY <1>3, <2>2
<1>6. \A i, j \in 1 .. Len(q) : i < j => i = 1 /\ j = 2
  BY <1>3
<1>7. InOrder(q)
  BY <1>3, <1>6 DEF InOrder
<1>8. a < Rank(q[1]) /\ Rank(q[1]) <= b /\ a < Rank(q[2]) /\ Rank(q[2]) <= b
  BY <1>2, <1>3
<1>9. \A i \in 1 .. Len(q) : Tame(q[i])
  BY <1>1, <1>3, <1>4 DEF Tame, Data
<1> QED BY <1>3, <1>4, <1>5, <1>7, <1>8, <1>9 DEF Piece, Ordered, q

(* What the commands compile.                                              *)
LEMMA CompilePieces ==
  /\ Piece(Start, 4, 4, {}) /\ Piece(Stop, 4, 4, {})
  /\ \A kind \in AllKinds \ {"dcc_start", "dcc_stop"} :
       \/ Piece(Compile(kind), 0, 4, {})
       \/ \E x \in {"standard", "extended"} : Piece(Compile(kind), 0, 4, Chain(1, x))
<1>1. /\ {} \in SUBSET Bits /\ {"ON"} \in SUBSET Bits /\ {"EXTENDED"} \in SUBSET Bits
      /\ {"RESET_SENT"} \in SUBSET Bits /\ {} \in Settings
  BY SettingsFacts DEF Bits
<1>2. ASSUME NEW k \in Nat
      PROVE  /\ Piece(Rmw({"ON"}, {}), k, k, {}) /\ Piece(Rmw({}, {"ON"}), k, k, {})
             /\ Piece(Rmw({}, {"EXTENDED"}), k, k, {}) /\ Piece(Rmw({"EXTENDED"}, {}), k, k, {})
             /\ Piece(Rmw({"RESET_SENT"}, {}), k, k, {})
             /\ Piece(<<Do("start", {})>>, k, k, {}) /\ Piece(<<Do("stop", {})>>, k, k, {})
  BY <1>1, PieceRmw, PieceOther DEF Names, Data
<1>3. ASSUME NEW k \in Nat
      PROVE  Piece(Start, k, k, {}) /\ Piece(Stop, k, k, {})
  <2>1. Piece(Start, k, k, {} \cup {})
    BY <1>2, PieceConcat DEF Start
  <2>2. Piece(Stop, k, k, {} \cup {})
    BY <1>2, PieceConcat DEF Stop
  <2> QED BY <2>1, <2>2
<1>4. ASSUME NEW x \in {"standard", "extended"}
      PROVE  Piece(<<Do("template", x), Do("cutout", x)>>, 0, 2, {Do("template", x), Do("cutout", x)})
  <2>1. "template" \in Data /\ "cutout" \in Data /\ x \in Names
    BY DEF Names, Data
  <2>2. 0 < Rank(Do("template", x)) /\ Rank(Do("template", x)) < Rank(Do("cutout", x)) /\ Rank(Do("cutout", x)) <= 2
    BY Ranks
  <2>3. 0 \in Nat /\ 2 \in Nat
    OBVIOUS
  <2> QED BY <2>1, <2>2, <2>3, PiecePair
<1>5. Piece(Fill, 2, 4, {Do("fill", "address"), Do("fill", "data")})
  <2>1. "fill" \in Data /\ "address" \in Names /\ "data" \in Names
    BY DEF Names, Data
  <2>2. 2 < Rank(Do("fill", "address")) /\ Rank(Do("fill", "address")) < Rank(Do("fill", "data")) /\ Rank(Do("fill", "data")) <= 4
    BY Ranks
  <2>3. 2 \in Nat /\ 4 \in Nat
    OBVIOUS
  <2> QED BY <2>1, <2>2, <2>3, PiecePair DEF Fill
<1>6. ASSUME NEW q, NEW k \in {0, 4}, Piece(q, k, k, {})
      PROVE  Piece(q, 0, 4, {})
  BY <1>6, RankNat DEF Piece, Ordered, Left
<1>7. ASSUME NEW x
      PROVE  {Do("template", x), Do("cutout", x)} \cup {Do("fill", "address"), Do("fill", "data")} = Chain(1, x)
  BY DEF Chain
<1>8. ASSUME NEW x \in {"standard", "extended"}, NEW set \in SUBSET Bits, NEW clear \in SUBSET Bits,
             Piece(Rmw(set, clear), 4, 4, {})
      PROVE  Piece(<<Do("template", x), Do("cutout", x)>> \o Fill \o Rmw(set, clear), 0, 4, Chain(1, x))
  <2>1. Piece(<<Do("template", x), Do("cutout", x)>> \o Fill, 0, 4, Chain(1, x))
    BY <1>4, <1>5, <1>7, PieceConcat
  <2>2. Piece(<<Do("template", x), Do("cutout", x)>> \o Fill \o Rmw(set, clear), 0, 4, Chain(1, x) \cup {})
    BY <1>8, <2>1, PieceConcat
  <2> QED BY <2>2
<1>9. ASSUME NEW kind \in AllKinds \ {"dcc_start", "dcc_stop"}
      PROVE  \/ Piece(Compile(kind), 0, 4, {})
             \/ \E x \in {"standard", "extended"} : Piece(Compile(kind), 0, 4, Chain(1, x))
  <2>1. CASE kind = "T4"
    <3>1. Piece(Compile(kind), 0, 4, Chain(1, "standard"))
      BY <1>1, <1>2, <1>8, <2>1 DEF Compile
    <3> QED BY <3>1
  <2>2. CASE kind = "T5"
    <3>1. Piece(Compile(kind), 0, 4, Chain(1, "extended"))
      BY <1>1, <1>2, <1>8, <2>2 DEF Compile
    <3> QED BY <3>1
  <2>3. CASE kind = "R"
    <3> DEFINE d == {Do("template", "standard"), Do("cutout", "standard")}
               f == {Do("fill", "address"), Do("fill", "data")}
               q1 == <<Do("template", "standard"), Do("cutout", "standard")>>
    <3>1. Piece(q1, 0, 2, d)
      BY <1>4
    <3>2. Compile(kind) = q1 \o Rmw({}, {"EXTENDED"}) \o Fill \o Rmw({"RESET_SENT"}, {})
      BY <2>3 DEF Compile
    <3>3. d \cup f = Chain(1, "standard")
      BY <1>7
    <3> HIDE DEF d, f, q1
    <3>4. Piece(q1 \o Rmw({}, {"EXTENDED"}), 0, 2, d \cup {})
      BY <1>2, <3>1, PieceConcat
    <3>5. Piece(q1 \o Rmw({}, {"EXTENDED"}) \o Fill, 0, 4, (d \cup {}) \cup f)
      BY <1>5, <3>4, PieceConcat DEF f
    <3>6. Piece(Compile(kind), 0, 4, ((d \cup {}) \cup f) \cup {})
      BY <1>2, <3>2, <3>5, PieceConcat
    <3>7. ((d \cup {}) \cup f) \cup {} = d \cup f
      OBVIOUS
    <3>8. Piece(Compile(kind), 0, 4, Chain(1, "standard"))
      BY <3>3, <3>6, <3>7
    <3> QED BY <3>8
  <2>4. CASE kind = "A"
    BY <1>3, <1>6, <2>4 DEF Compile
  <2>5. CASE kind = "a"
    BY <1>3, <1>6, <2>5 DEF Compile
  <2>6. CASE kind = "other"
    <3>1. Compile(kind) = <<>>
      BY <2>6 DEF Compile
    <3>2. <<>> \in Seq(Statements) /\ Len(<<>>) = 0 /\ 1 .. 0 = {}
      OBVIOUS
    <3> QED BY <3>1, <3>2 DEF Piece, Ordered, InOrder, Left
  <2> QED BY <2>1, <2>2, <2>3, <2>4, <2>5, <2>6 DEF AllKinds
<1> QED BY <1>3, <1>9
(* The request that ends a command.                                        *)
LEMMA RequestIs ==
  /\ Request \in Seq(Statements) /\ Len(Request) = 3
  /\ Request[1].do = "counter" /\ Request[2].do = "load" /\ Raises(Request[3])
<1> DEFINE s == [do |-> "store", set |-> Flags, clear |-> {}]
           c == <<Do("counter", {})>>
           r == <<Do("load", {}), s>>
<1>1. s \in Statements /\ Do("load", {}) \in Statements /\ Do("counter", {}) \in Statements
  <2>1. Flags \in SUBSET Bits /\ {} \in SUBSET Bits /\ Flags \in Settings /\ {} \in Settings
    BY SettingsFacts DEF Bits, Flags
  <2>2. "load" \in Names /\ "store" \in Names /\ "counter" \in Names
    BY DEF Names
  <2> QED BY <2>1, <2>2, StatementIn DEF Do
<1>2. s.do = "store" /\ s.set = Flags /\ Do("load", {}).do = "load" /\ Do("counter", {}).do = "counter"
  BY DEF Do
<1>3. Request = c \o r
  BY DEF Request, Rmw, Flags
<1> HIDE DEF s
<1>4. c \in Seq(Statements) /\ Len(c) = 1 /\ c[1] = Do("counter", {})
  BY <1>1
<1>5. r \in Seq(Statements) /\ Len(r) = 2 /\ r[1] = Do("load", {}) /\ r[2] = s
  BY <1>1
<1> HIDE DEF c, r
<1>6. /\ c \o r \in Seq(Statements) /\ Len(c \o r) = 3
      /\ (c \o r)[1] = c[1] /\ (c \o r)[2] = r[1] /\ (c \o r)[3] = r[2]
  <2>1. /\ c \o r \in Seq(Statements) /\ Len(c \o r) = Len(c) + Len(r)
        /\ \A i \in 1 .. Len(c) + Len(r) : (c \o r)[i] = IF i <= Len(c) THEN c[i] ELSE r[i - Len(c)]
    BY <1>4, <1>5, ConcatProperties
  <2> QED BY <1>4, <1>5, <2>1
<1>7. Raises(s)
  BY <1>2 DEF Raises, Flags
<1> QED BY <1>2, <1>3, <1>4, <1>5, <1>6, <1>7

(* A script raises the flags at its end, once the rest is done.            *)
LEMMA ScriptSends ==
  ASSUME NEW q, NEW S, Piece(q, 0, 4, S)
  PROVE  /\ InOrder(q \o Request) /\ Left(q \o Request) = S /\ Control(q \o Request)
         /\ q \o Request # <<>> /\ Sends(q \o Request) /\ Counts(q \o Request)
<1> DEFINE r == q \o Request
<1>1. q \in Seq(Statements) /\ Ordered(q, 0, 4) /\ Left(q) = S /\ \A i \in 1 .. Len(q) : Tame(q[i])
  BY DEF Piece
<1>2. \A i \in 1 .. 3 : i = 1 \/ i = 2 \/ i = 3
  OBVIOUS
<1>3. \A i \in 1 .. 3 : Request[i].do \notin Data
  BY <1>2, RequestIs DEF Raises, Data
<1>4. Ordered(Request, 4, 4) /\ Left(Request) = {}
  BY <1>3, RequestIs DEF Ordered, InOrder, Left
<1>5. /\ r \in Seq(Statements) /\ Len(r) = Len(q) + 3
      /\ \A i \in 1 .. Len(q) : r[i] = q[i]
      /\ \A i \in 1 .. 3 : r[Len(q) + i] = Request[i]
      /\ \A i \in 1 .. Len(r) : i \in 1 .. Len(q) \/ \E j \in 1 .. 3 : i = Len(q) + j
      /\ Ordered(r, 0, 4) /\ Left(r) = S \cup {}
  <2>1. 0 \in Nat /\ 4 \in Nat /\ 0 <= 4 /\ 4 <= 4
    OBVIOUS
  <2>2. Request \in Seq(Statements)
    BY RequestIs
  <2>3. /\ r \in Seq(Statements) /\ Len(r) = Len(q) + Len(Request)
        /\ \A i \in 1 .. Len(q) : r[i] = q[i]
        /\ \A i \in 1 .. Len(Request) : r[Len(q) + i] = Request[i]
        /\ \A i \in 1 .. Len(r) : i \in 1 .. Len(q) \/ \E j \in 1 .. Len(Request) : i = Len(q) + j
        /\ Ordered(r, 0, 4) /\ Left(r) = Left(q) \cup Left(Request)
    BY <1>1, <1>4, <2>1, <2>2, OrderedConcat
  <2>4. Len(Request) = 3
    BY RequestIs
  <2> QED BY <1>1, <1>4, <2>3, <2>4
<1> HIDE DEF r
<1>6. Len(q) \in Nat
  BY <1>1, LenProperties
<1>7. r[Len(q) + 1].do = "counter" /\ r[Len(q) + 2].do = "load" /\ Raises(r[Len(q) + 3])
  BY <1>5, RequestIs
<1>8. ASSUME NEW i \in 1 .. Len(r), i < Len(r)
      PROVE  Tame(r[i])
  <2>1. CASE i \in 1 .. Len(q)
    BY <1>1, <1>5, <2>1
  <2>2. CASE i = Len(q) + 1
    BY <1>7, <2>2 DEF Tame
  <2>3. CASE i = Len(q) + 2
    BY <1>7, <2>3 DEF Tame
  <2>4. i # Len(q) + 3
    BY <1>5, <1>6, <1>8
  <2> QED BY <1>2, <1>5, <2>1, <2>2, <2>3, <2>4
<1>9. r # <<>>
  BY <1>5, <1>6, EmptySeq
<1>10. Counts(r)
  BY <1>5, <1>6, <1>7 DEF Counts
<1>11. Sends(r) /\ Control(r)
  BY <1>5, <1>6, <1>7, <1>8, <1>9 DEF Sends, Control
<1> QED BY <1>5, <1>9, <1>10, <1>11 DEF Ordered, r

(* A piece alone sends nothing.                                            *)
LEMMA PieceSendsNot ==
  ASSUME NEW q, NEW k, Piece(q, k, k, {})
  PROVE  InOrder(q) /\ Left(q) = {} /\ Control(q) /\ ~ Sends(q)
<1>1. q # <<>> => Len(q) \in 1 .. Len(q)
  BY EmptySeq, LenProperties DEF Piece
<1>2. \A s : Tame(s) => ~ Raises(s)
  BY DEF Tame, Raises
<1> QED BY <1>1, <1>2 DEF Piece, Ordered, Control, Sends

(* What a statement takes off what is left of a call.                      *)
LEMMA TailOf ==
  ASSUME NEW q \in Seq(Statements), q # <<>>, InOrder(q), Control(q)
  PROVE  /\ Head(q) = q[1] /\ InOrder(Tail(q)) /\ Control(Tail(q))
         /\ q[1].do \in Data =>
              /\ q[1] \in Left(q) /\ Left(Tail(q)) = Left(q) \ {q[1]}
              /\ \A e \in Left(q) : e = q[1] \/ Rank(q[1]) < Rank(e)
         /\ q[1].do \notin Data => Left(Tail(q)) = Left(q)
         /\ Tail(q) # <<>> => Tame(q[1]) /\ (Sends(q) <=> Sends(Tail(q)))
         /\ Tail(q) = <<>> => Left(Tail(q)) = {} /\ ~ Counts(Tail(q))
         /\ Tail(q) = <<>> => (Sends(q) /\ Raises(q[1])) \/ (~ Sends(q) /\ Tame(q[1]))
         /\ Counts(q) => q[1].do = "counter" \/ Counts(Tail(q))
<1> DEFINE t == Tail(q)
<1>1. /\ Head(q) = q[1] /\ t \in Seq(Statements) /\ Len(t) = Len(q) - 1
      /\ \A i \in 1 .. Len(t) : t[i] = q[i + 1]
  BY HeadTailProperties
<1>2. Len(q) \in Nat /\ Len(q) >= 1 /\ 1 \in 1 .. Len(q)
  BY EmptySeq, LenProperties
<1>3. t = <<>> <=> Len(q) = 1
  <2>1. t = <<>> => Len(t) = 0
    BY EmptySeq
  <2>2. t # <<>> => Len(t) \in Nat \ {0}
    BY <1>1, EmptySeq
  <2> HIDE DEF t
  <2> QED BY <1>1, <1>2, <2>1, <2>2
<1> HIDE DEF t
<1>4. \A i \in 1 .. Len(t) : i + 1 \in 1 .. Len(q) /\ t[i] = q[i + 1]
  BY <1>1, <1>2
<1>5. \A i \in 1 .. Len(q) : i = 1 \/ (i - 1 \in 1 .. Len(t) /\ t[i - 1] = q[i])
  <2>1. ASSUME NEW i \in 1 .. Len(q), i # 1
        PROVE  i - 1 \in 1 .. Len(t) /\ (i - 1) + 1 = i
    BY <1>1, <1>2, <2>1
  <2> QED BY <1>4, <2>1
<1>6. InOrder(t)
  <2>1. ASSUME NEW i \in 1 .. Len(t), NEW j \in 1 .. Len(t), i < j, t[i].do \in Data, t[j].do \in Data
        PROVE  Rank(t[i]) < Rank(t[j])
    <3>1. i + 1 < j + 1 /\ i + 1 \in 1 .. Len(q) /\ j + 1 \in 1 .. Len(q)
      BY <1>4, <1>1, <1>2, <2>1
    <3>2. t[i] = q[i + 1] /\ t[j] = q[j + 1]
      BY <1>4
    <3> QED BY <2>1, <3>1, <3>2 DEF InOrder
  <2> QED BY <2>1 DEF InOrder
<1>7. t # <<>> => Len(t) \in 1 .. Len(t) /\ t[Len(t)] = q[Len(q)] /\ 1 < Len(q)
  BY <1>1, <1>2, <1>3, <1>4
<1>8. ASSUME NEW i \in 1 .. Len(t), i < Len(t)
      PROVE  Tame(t[i])
  <2>1. i + 1 < Len(q) /\ i + 1 \in 1 .. Len(q) /\ t[i] = q[i + 1]
    BY <1>1, <1>2, <1>4, <1>8
  <2> QED BY <2>1 DEF Control
<1>9. Control(t)
  BY <1>7, <1>8 DEF Control
<1>10. t # <<>> => Tame(q[1]) /\ (Sends(q) <=> Sends(t))
  BY <1>2, <1>7 DEF Control, Sends
<1>11. t = <<>> => (Sends(q) /\ Raises(q[1])) \/ (~ Sends(q) /\ Tame(q[1]))
  BY <1>2, <1>3 DEF Control, Sends
<1>12. t = <<>> => Left(t) = {} /\ ~ Counts(t)
  <2>1. t = <<>> => Len(t) = 0
    BY <1>1, <1>3
  <2>2. t = <<>> => 1 .. Len(t) = {}
    BY <2>1
  <2> QED BY <2>2 DEF Left, Counts
<1>13. Counts(q) => q[1].do = "counter" \/ Counts(t)
  BY <1>5 DEF Counts
<1>14. \A e : e \in Left(q) <=> (q[1].do \in Data /\ e = q[1]) \/ e \in Left(t)
  <2>1. ASSUME NEW e \in Left(q)
        PROVE  (q[1].do \in Data /\ e = q[1]) \/ e \in Left(t)
    <3>1. PICK i \in 1 .. Len(q) : e = q[i] /\ q[i].do \in Data
      BY LeftIn
    <3> QED BY <1>5, <3>1, LeftIn
  <2>2. ASSUME NEW e \in Left(t)
        PROVE  e \in Left(q)
    <3>1. PICK i \in 1 .. Len(t) : e = t[i] /\ t[i].do \in Data
      BY LeftIn
    <3> QED BY <1>4, <3>1, LeftIn
  <2>3. q[1].do \in Data => q[1] \in Left(q)
    BY <1>2, LeftIn
  <2> QED BY <2>1, <2>2, <2>3
<1>15. ASSUME q[1].do \in Data, NEW e \in Left(t)
       PROVE  Rank(q[1]) < Rank(e)
  <2>1. PICK i \in 1 .. Len(t) : e = t[i] /\ t[i].do \in Data
    BY LeftIn
  <2>2. i + 1 \in 1 .. Len(q) /\ 1 < i + 1 /\ e = q[i + 1]
    BY <1>1, <1>2, <1>4, <2>1
  <2> QED BY <1>2, <1>15, <2>1, <2>2 DEF InOrder
<1>16. q[1].do \in Data => q[1] \notin Left(t)
  <2>1. Rank(q[1]) \in 1 .. 4
    BY RankNat
  <2> QED BY <1>15, <2>1
<1>17. q[1].do \in Data => Left(t) = Left(q) \ {q[1]}
  BY <1>14, <1>16
<1>18. q[1].do \notin Data => Left(t) = Left(q)
  BY <1>14
<1>19. q[1].do \in Data => q[1] \in Left(q) /\ \A e \in Left(q) : e = q[1] \/ Rank(q[1]) < Rank(e)
  BY <1>14, <1>15
<1> HIDE DEF InOrder, Control, Left, Sends, Counts, Tame, Raises, Rank
<1> QED BY <1>1, <1>6, <1>9, <1>10, <1>11, <1>12, <1>13, <1>17, <1>18, <1>19 DEF t
(* Nothing is left of no call.                                             *)
LEMMA NoneLeftOfEmpty == Left(<<>>) = {} /\ InOrder(<<>>) /\ Control(<<>>)
<1>1. Len(<<>>) = 0 /\ 1 .. 0 = {}
  OBVIOUS
<1> QED BY <1>1 DEF Left, InOrder, Control

(* There is always a statement that compiles next.                         *)
LEMMA ChainNotEmpty == \A n \in 1 .. 4 : \A x : Chain(n, x) # {}
<1>1. ASSUME NEW n \in 1 .. 4, NEW x
      PROVE  Chain(n, x) # {}
  <2>1. n = 1 \/ n = 2 \/ n = 3 \/ n = 4
    OBVIOUS
  <2> QED BY <2>1 DEF Chain
<1> QED BY <1>1

(* Between calls the work packet is whole.                                 *)
LEMMA WholePacket ==
  ASSUME Compiling, todo = <<>>
  PROVE  Compiled(work, cutout)
BY NoneLeftOfEmpty, ChainNotEmpty DEF Compiling

(* Nothing is compiled at first.                                           *)
LEMMA InitSend ==
  ASSUME Init, Repeat \in Nat
  PROVE  SendInv
<1>1. todo = <<>> /\ work = Blank /\ given = "none"
  BY DEF Init
<1>2. InOrder(todo) /\ Control(todo) /\ Compiling
  BY <1>1, NoneLeftOfEmpty DEF Compiling, Compiled
<1>3. Sending
  BY <1>1 DEF Sending
<1>4. DOMAIN work = {"template", "part"} /\ DOMAIN work.part = Parts
  BY <1>1 DEF Blank, IdlePkt
<1>5. count \in Nat /\ counter \in Nat /\ loads \in Nat
  BY DEF Init
<1> QED BY <1>1, <1>2, <1>3, <1>4, <1>5 DEF SendInv

(* A call that is made has its statements before it.                       *)
LEMMA CallSend ==
  ASSUME Kinds \subseteq AllKinds, Repeat \in Nat, Inv, SendInv, NEW kind \in Kinds, Call(kind)
  PROVE  SendInv'
<1> DEFINE still == kind \in {"dcc_start", "dcc_stop"}
<1>0. /\ todo = <<>> /\ count' = count + 1 /\ loads' = (IF still THEN loads ELSE 0)
      /\ status' = status /\ counter' = counter /\ work' = work /\ second' = second
      /\ cutout' = cutout /\ reg' = reg
  BY DEF Call, driver
<1>1. still => InOrder(todo') /\ Left(todo') = {} /\ Control(todo') /\ ~ Sends(todo')
  BY CompilePieces, PieceSendsNot DEF Call
<1>2. ~ still => /\ InOrder(todo') /\ Control(todo') /\ todo' # <<>> /\ Sends(todo') /\ Counts(todo')
                 /\ Left(todo') = {} \/ \E x \in {"standard", "extended"} : Left(todo') = Chain(1, x)
  <2>1. SUFFICES ASSUME ~ still
                 PROVE  /\ InOrder(todo') /\ Control(todo') /\ todo' # <<>> /\ Sends(todo') /\ Counts(todo')
                        /\ Left(todo') = {} \/ \E x \in {"standard", "extended"} : Left(todo') = Chain(1, x)
    OBVIOUS
  <2>2. todo' = Compile(kind) \o Request
    BY <2>1 DEF Call, Script
  <2>3. \/ Piece(Compile(kind), 0, 4, {})
        \/ \E x \in {"standard", "extended"} : Piece(Compile(kind), 0, 4, Chain(1, x))
    BY <2>1, CompilePieces
  <2>4. CASE Piece(Compile(kind), 0, 4, {})
    BY <2>2, <2>4, ScriptSends
  <2>5. ASSUME NEW x \in {"standard", "extended"}, Piece(Compile(kind), 0, 4, Chain(1, x))
        PROVE  /\ InOrder(todo') /\ Control(todo') /\ todo' # <<>> /\ Sends(todo') /\ Counts(todo')
               /\ Left(todo') = Chain(1, x)
    BY <2>2, <2>5, ScriptSends
  <2> QED BY <2>3, <2>4, <2>5
<1>3. Whole(todo')
  BY WholeScripts DEF Call
<1>4. todo' # <<>> => todo'[1].do # "store"
  <2>1. todo' # <<>> => Len(todo') \in Nat \ {0}
    BY <1>3, EmptySeq DEF Whole, Rest
  <2> QED BY <1>3, <2>1 DEF Whole
<1>5. Compiling'
  <2>1. Compiled(work', cutout')
    BY <1>0, WholePacket DEF SendInv
  <2>2. CASE Left(todo') = {}
    BY <2>1, <2>2 DEF Compiling
  <2>3. ASSUME NEW x \in {"standard", "extended"}, Left(todo') = Chain(1, x)
        PROVE  Compiling'
    <3>1. 1 \in 1 .. 4 /\ 1 # 4 /\ ~ (1 >= 3) /\ 1 # 2
      OBVIOUS
    <3> QED BY <2>3, <3>1 DEF Compiling
  <2> QED BY <1>1, <1>2, <2>2, <2>3
<1>6. Sending'
  <2> SUFFICES ASSUME given' = "free"
               PROVE  Sending'
    BY DEF Sending
  <2>1. "INPROGRESS" \notin status
    BY DEF Call
  <2>2. status \cap Flags = {} /\ second = Idle
    BY <2>1 DEF Inv, Flagged, PoweredWhileSent, Flags
  <2>3. CASE ~ still
    <3>1. loads' = 0
      BY <1>0, <2>3
    <3> QED BY <1>0, <1>2, <1>4, <2>2, <2>3, <3>1 DEF Sending
  <2>4. CASE still
    <3>1. given = "free"
      BY <2>1, <2>4 DEF Call
    <3>2. loads + 0 = Repeat + 1
      BY <1>0, <2>2, <3>1 DEF SendInv, Sending, Flags
    <3>3. loads' = Repeat + 1 /\ loads' + 0 = Repeat + 1 /\ "PENDING" \notin status'
      BY <1>0, <2>2, <2>4, <3>2 DEF SendInv, Flags
    <3> QED BY <1>0, <1>1, <1>4, <2>2, <2>4, <3>3 DEF Sending
  <2> QED BY <2>3, <2>4
<1>7. count' \in Nat /\ counter' \in Nat /\ loads' \in Nat /\ count' > 0
  <2>1. count \in Nat /\ counter \in Nat /\ loads \in Nat
    BY DEF SendInv
  <2> HIDE DEF still
  <2> QED BY <1>0, <2>1
<1>8. DOMAIN work' = {"template", "part"} /\ DOMAIN (work').part = Parts
  BY <1>0 DEF SendInv
<1> QED BY <1>1, <1>2, <1>5, <1>6, <1>7, <1>8 DEF SendInv

(* A statement brings the packet one part further, ...                     *)
LEMMA StepCompiles ==
  ASSUME SendInv, Step, Rest(todo)
  PROVE  Compiling' /\ DOMAIN work' = {"template", "part"} /\ DOMAIN (work').part = Parts
<1> DEFINE s == Head(todo)
<1>1. todo \in Seq(Statements) /\ todo # <<>> /\ InOrder(todo) /\ Control(todo) /\ todo' = Tail(todo)
  BY DEF SendInv, Step, Rest
<1>2. /\ s = todo[1]
      /\ s.do \in Data => /\ s \in Left(todo) /\ Left(todo') = Left(todo) \ {s}
                          /\ \A e \in Left(todo) : e = s \/ Rank(s) < Rank(e)
      /\ s.do \notin Data => Left(todo') = Left(todo)
  BY <1>1, TailOf
<1>3. /\ work' = CASE s.do = "template" -> IdlePkt(s.set)
                   [] s.do = "fill" -> [work EXCEPT !.part[s.set] = count]
                   [] OTHER -> work
      /\ cutout' = IF s.do = "cutout" THEN s.set ELSE cutout
      /\ count' = count
  BY DEF Step, history
<1>4. DOMAIN work = {"template", "part"} /\ DOMAIN work.part = Parts /\ count \in Nat /\ count > 0
  BY <1>1 DEF SendInv
<1> HIDE DEF s
<1>5. DOMAIN work' = {"template", "part"} /\ DOMAIN (work').part = Parts
  BY <1>3, <1>4 DEF IdlePkt
<1>6. CASE s.do \notin Data
  <2>1. work' = work /\ cutout' = cutout /\ Left(todo') = Left(todo)
    BY <1>2, <1>3, <1>6 DEF Data
  <2>2. Compiling
    BY DEF SendInv
  <2> QED BY <1>3, <1>5, <2>1, <2>2 DEF Compiling
<1>7. CASE s.do \in Data
  <2>1. PICK n \in 1 .. 4, x \in {"standard", "extended"} :
          /\ Left(todo) = Chain(n, x)
          /\ n = 4 => work.part["address"] = count
          /\ n >= 3 => work.template = cutout
          /\ n = 2 => work.template = x
    BY <1>2, <1>7 DEF SendInv, Compiling
  <2>2. s \in Chain(n, x) /\ Left(todo') = Chain(n, x) \ {s} /\ \A e \in Chain(n, x) : e = s \/ Rank(s) < Rank(e)
    BY <1>2, <1>7, <2>1
  <2>3. /\ n = 1 => s = Do("template", x) /\ Left(todo') = Chain(2, x)
        /\ n = 2 => s = Do("cutout", x) /\ Left(todo') = Chain(3, x)
        /\ n = 3 => s = Do("fill", "address") /\ Left(todo') = Chain(4, x)
        /\ n = 4 => s = Do("fill", "data") /\ Left(todo') = {}
    BY <2>2, ChainTop
  <2>4. n = 1 \/ n = 2 \/ n = 3 \/ n = 4
    OBVIOUS
  <2>5. CASE n = 1
    <3>1. s.do = "template" /\ s.set = x
      BY <2>3, <2>5, Ranks
    <3>2. (work').template = x /\ Left(todo') = Chain(2, x)
      BY <1>3, <2>3, <2>5, <3>1 DEF IdlePkt
    <3>3. 2 \in 1 .. 4 /\ 2 # 4 /\ ~ (2 >= 3)
      OBVIOUS
    <3> QED BY <1>5, <3>2, <3>3 DEF Compiling
  <2>6. CASE n = 2
    <3>1. s.do = "cutout" /\ s.set = x
      BY <2>3, <2>6, Ranks
    <3>2. (work').template = cutout' /\ Left(todo') = Chain(3, x)
      BY <1>3, <2>1, <2>3, <2>6, <3>1
    <3>3. 3 \in 1 .. 4 /\ 3 # 4 /\ 3 # 2
      OBVIOUS
    <3> QED BY <1>5, <3>2, <3>3 DEF Compiling
  <2>7. CASE n = 3
    <3>1. s.do = "fill" /\ s.set = "address"
      BY <2>3, <2>7, Ranks
    <3>2. work' = [work EXCEPT !.part["address"] = count] /\ cutout' = cutout
      BY <1>3, <3>1
    <3>3. (work').template = work.template /\ (work').part["address"] = count
      BY <1>4, <3>2 DEF Parts
    <3>4. (work').template = cutout' /\ (work').part["address"] = count' /\ Left(todo') = Chain(4, x)
      BY <1>3, <2>1, <2>3, <2>7, <3>2, <3>3
    <3>5. 4 \in 1 .. 4 /\ 4 # 2
      OBVIOUS
    <3> QED BY <1>5, <3>4, <3>5 DEF Compiling
  <2>8. CASE n = 4
    <3>1. s.do = "fill" /\ s.set = "data"
      BY <2>3, <2>8, Ranks
    <3>2. work' = [work EXCEPT !.part["data"] = count] /\ cutout' = cutout
      BY <1>3, <3>1
    <3>3. /\ (work').template = work.template /\ (work').part["data"] = count
          /\ (work').part["address"] = work.part["address"]
      BY <1>4, <3>2 DEF Parts
    <3>4. /\ (work').template = cutout' /\ (work').part["address"] = (work').part["data"]
          /\ (work').part["data"] # 0
      BY <1>4, <2>1, <2>8, <3>2, <3>3
    <3>5. Left(todo') = {} /\ Compiled(work', cutout')
      BY <2>3, <2>8, <3>4 DEF Compiled
    <3> QED BY <1>5, <3>5 DEF Compiling
  <2> QED BY <2>4, <2>5, <2>6, <2>7, <2>8
<1> QED BY <1>5, <1>6, <1>7

(* ... and the last one raises the flags.                                  *)
LEMMA StepSends ==
  ASSUME Repeat \in Nat, Inv, SendInv, Step
  PROVE  Sending' /\ counter' \in Nat
<1> DEFINE s == Head(todo)
<1>1. todo \in Seq(Statements) /\ todo # <<>> /\ InOrder(todo) /\ Control(todo) /\ todo' = Tail(todo)
  BY DEF SendInv, Step, Inv, Rest
<1>2. /\ s = todo[1]
      /\ todo' # <<>> => Tame(s) /\ (Sends(todo) <=> Sends(todo'))
      /\ todo' = <<>> => ~ Counts(todo')
      /\ todo' = <<>> => (Sends(todo) /\ Raises(s)) \/ (~ Sends(todo) /\ Tame(s))
      /\ Counts(todo) => s.do = "counter" \/ Counts(todo')
  BY <1>1, TailOf
<1>3. /\ counter' = IF s.do = "counter" THEN Repeat ELSE counter
      /\ reg' = IF s.do = "load" THEN status ELSE reg
      /\ status' = IF s.do = "store" THEN (reg \ s.clear) \cup s.set ELSE status
      /\ second' = second /\ loads' = loads /\ given' = given
  BY DEF Step, history
<1>4. counter' \in Nat
  BY <1>3 DEF SendInv
<1>5. todo' # <<>> /\ todo'[1].do = "store" => s.do = "load"
  <2>1. Rest(todo)
    BY DEF Inv
  <2>2. Len(todo') > 0 /\ todo'[1].do = "store" => todo[1].do = "load"
    BY <1>1, <2>1, RestOfRest
  <2>3. todo' # <<>> => Len(todo') > 0
    <3>1. todo' \in Seq(Statements)
      BY <1>1, HeadTailProperties
    <3>2. todo' # <<>> => Len(todo') \in Nat \ {0}
      BY <3>1, EmptySeq
    <3> QED BY <3>2
  <2> QED BY <1>2, <2>2, <2>3
<1> HIDE DEF s
<1> SUFFICES ASSUME given = "free"
             PROVE  Sending'
  BY <1>3, <1>4 DEF Sending
<1>6. /\ status \cap Flags = {} /\ second = Idle
      /\ s.do = "store" => reg \cap Flags = {}
      /\ Sends(todo) => loads = 0 /\ (counter = Repeat \/ Counts(todo))
      /\ ~ Sends(todo) => loads = Repeat + 1
  BY <1>1, <1>2 DEF SendInv, Sending
<1>7. Tame(s) => status' \cap Flags = {}
  BY <1>3, <1>6 DEF Tame, Flags
<1>8. CASE todo' # <<>>
  <2>1. todo'[1].do = "store" => reg' \cap Flags = {}
    BY <1>3, <1>5, <1>6, <1>8
  <2>2. Sends(todo') => loads' = 0 /\ (counter' = Repeat \/ Counts(todo'))
    BY <1>2, <1>3, <1>6, <1>8
  <2>3. ~ Sends(todo') => loads' = Repeat + 1
    BY <1>2, <1>3, <1>6, <1>8
  <2> QED BY <1>2, <1>3, <1>6, <1>7, <1>8, <2>1, <2>2, <2>3 DEF Sending
<1>9. CASE todo' = <<>>
  <2>1. CASE Sends(todo) /\ Raises(s)
    <3>1. s.do = "store" /\ "PENDING" \in status'
      BY <1>3, <2>1 DEF Raises
    <3>2. loads' = 0 /\ counter' = Repeat
      BY <1>2, <1>3, <1>6, <1>9, <2>1, <3>1
    <3>3. loads' + (counter' + 1) = Repeat + 1
      BY <3>2
    <3> QED BY <1>3, <1>6, <1>9, <3>1, <3>3 DEF Sending
  <2>2. CASE ~ Sends(todo) /\ Tame(s)
    <3>1. "PENDING" \notin status' /\ loads' = Repeat + 1
      BY <1>3, <1>6, <1>7, <2>2 DEF Flags
    <3>2. loads' + 0 = Repeat + 1
      BY <3>1
    <3> QED BY <1>3, <1>6, <1>9, <3>1, <3>2 DEF Sending
  <2> QED BY <1>2, <1>9, <2>1, <2>2
<1> QED BY <1>8, <1>9

(* The interrupt sends the work packet while it is pending.                *)
LEMMA CpltSends ==
  ASSUME Repeat \in Nat, SendInv, Cplt
  PROVE  Sending' /\ counter' \in Nat /\ loads' \in Nat
<1>1. /\ todo' = todo /\ reg' = reg /\ given' = given /\ cutout' = cutout
      /\ counter \in Nat /\ loads \in Nat
  BY DEF Cplt, SendInv
<1>2. CASE "PENDING" \in status
  <2>1. second' = work /\ loads' = loads + 1
    BY <1>2 DEF Cplt
  <2>2. \/ counter = 0 /\ status' = status \ {"PENDING", "RESET_SENT"} /\ counter' = counter
        \/ counter # 0 /\ counter' = counter - 1 /\ status' = status
    BY <1>2 DEF Cplt
  <2>3. counter' \in Nat /\ loads' \in Nat
    BY <1>1, <2>1, <2>2
  <2>4. ASSUME given = "free"
        PROVE  /\ todo = <<>> /\ Compiled(second', cutout')
               /\ loads' + (IF "PENDING" \in status' THEN counter' + 1 ELSE 0) = Repeat + 1
    <3>1. todo = <<>>
      BY <1>2, <2>4 DEF SendInv, Sending, Flags
    <3>2. Compiled(second', cutout')
      BY <1>1, <2>1, <3>1, WholePacket DEF SendInv
    <3>3. loads + (counter + 1) = Repeat + 1
      BY <1>2, <2>4, <3>1 DEF SendInv, Sending
    <3>4. CASE counter = 0
      <4>1. "PENDING" \notin status'
        BY <2>2, <3>4
      <4>2. loads' + 0 = Repeat + 1
        BY <1>1, <2>1, <3>3, <3>4
      <4> QED BY <3>1, <3>2, <4>1, <4>2
    <3>5. CASE counter # 0
      <4>1. "PENDING" \in status'
        BY <1>2, <2>2, <3>5
      <4>2. loads' + (counter' + 1) = Repeat + 1
        BY <1>1, <2>1, <2>2, <3>3, <3>5
      <4> QED BY <3>1, <3>2, <4>1, <4>2
    <3> QED BY <3>4, <3>5
  <2> QED BY <1>1, <2>3, <2>4 DEF Sending
<1>3. CASE "PENDING" \notin status
  <2>1. /\ loads' = loads /\ counter' = counter /\ status' \subseteq status
        /\ second' = Idle \/ second' = second
    BY <1>3 DEF Cplt
  <2>2. "PENDING" \notin status' /\ (status \cap Flags = {} => status' \cap Flags = {})
    BY <1>3, <2>1
  <2>3. ASSUME given = "free", todo = <<>>
        PROVE  second' = Idle \/ Compiled(second', cutout')
    BY <1>1, <2>1, <2>3 DEF SendInv, Sending
  <2>4. ASSUME given = "free", todo = <<>>
        PROVE  loads' + 0 = Repeat + 1
    BY <1>3, <2>1, <2>4 DEF SendInv, Sending
  <2>5. ASSUME given = "free", todo # <<>>
        PROVE  /\ status' \cap Flags = {} /\ second' = Idle
               /\ todo[1].do = "store" => reg \cap Flags = {}
               /\ Sends(todo) => loads = 0 /\ (counter = Repeat \/ Counts(todo))
               /\ ~ Sends(todo) => loads = Repeat + 1
    BY <2>1, <2>2, <2>5 DEF SendInv, Sending
  <2> QED BY <1>1, <2>1, <2>2, <2>3, <2>4, <2>5 DEF Sending
<1> QED BY <1>2, <1>3

(* Every step keeps what is being sent true to what was given.             *)
LEMMA StepSend ==
  ASSUME Kinds \subseteq AllKinds, Repeat \in Nat, Inv, SendInv, [Next]_vars
  PROVE  SendInv'
<1>1. ASSUME NEW kind \in Kinds, Call(kind)
      PROVE  SendInv'
  BY <1>1, CallSend
<1>2. CASE Step
  <2>1. todo \in Seq(Statements) /\ todo # <<>> /\ Rest(todo) /\ todo' = Tail(todo)
        /\ InOrder(todo) /\ Control(todo)
    BY <1>2 DEF Step, Inv, Rest, SendInv
  <2>2. InOrder(todo') /\ Control(todo')
    BY <2>1, TailOf
  <2>3. count' = count /\ loads' = loads /\ count > 0
    BY <1>2, <2>1 DEF Step, history, SendInv
  <2>4. count' \in Nat /\ loads' \in Nat /\ count' > 0
    BY <2>3 DEF SendInv
  <2> QED BY <1>2, <2>1, <2>2, <2>4, StepCompiles, StepSends DEF SendInv
<1>3. CASE Cplt
  <2>1. todo' = todo /\ work' = work /\ cutout' = cutout /\ count' = count
    BY <1>3 DEF Cplt
  <2>2. Compiling'
    BY <2>1 DEF Compiling, SendInv
  <2>3. Sending' /\ counter' \in Nat /\ loads' \in Nat
    BY <1>3, CpltSends
  <2> QED BY <2>1, <2>2, <2>3 DEF SendInv
<1>4. CASE UNCHANGED vars
  <2>1. /\ status' = status /\ counter' = counter /\ work' = work /\ second' = second
        /\ cutout' = cutout /\ todo' = todo /\ reg' = reg /\ count' = count /\ loads' = loads
        /\ given' = given
    BY <1>4 DEF vars, driver, history
  <2>2. Compiling'
    BY <2>1 DEF Compiling, SendInv
  <2>3. Sending'
    BY <2>1 DEF Sending, SendInv
  <2> QED BY <2>1, <2>2, <2>3 DEF SendInv
<1> QED BY <1>1, <1>2, <1>3, <1>4 DEF Next

(* What the invariant says of a packet that goes out.                      *)
LEMMA SentOfInv ==
  ASSUME Inv, SendInv
  PROVE  SentAsGiven
<1> SUFFICES ASSUME given = "free"
             PROVE  SentAsGiven
  BY DEF SentAsGiven
<1>1. todo # <<>> => second = Idle
  BY DEF SendInv, Sending
<1>2. todo = <<>> => second = Idle \/ Compiled(second, cutout)
  BY DEF SendInv, Sending
<1>3. todo = <<>> => loads + (IF "PENDING" \in status THEN counter + 1 ELSE 0) = Repeat + 1
  BY DEF SendInv, Sending
<1> QED BY <1>1, <1>2, <1>3 DEF SentAsGiven, Compiled

(* A command that comes when none is in progress is sent whole, as given,  *)
(* and once more than command_repeat_number, wherever the interrupt cuts   *)
(* the statements of dcc_commands, dcc_start and dcc_stop.                 *)
THEOREM SendsAsGiven ==
  ASSUME Kinds \subseteq AllKinds, Repeat \in Nat
  PROVE  Spec => []SentAsGiven
<1>1. Init => Inv /\ SendInv
  BY InitInv, InitSend
<1>2. Inv /\ SendInv /\ [Next]_vars => (Inv /\ SendInv)'
  BY StepInv, StepSend
<1>3. Inv /\ SendInv => SentAsGiven
  BY SentOfInv
<1> QED BY <1>1, <1>2, <1>3, PTL DEF Spec
=============================================================================

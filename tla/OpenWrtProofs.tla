--------------------------- MODULE OpenWrtProofs ---------------------------
(***************************************************************************)
(* Machine-checked proofs about the OpenWrt components (modules Wifi and   *)
(* NetMonitor), for any number of callers, radios and links, any menu of   *)
(* calls, any configuration and every bound.                               *)
(***************************************************************************)
EXTENDS NetMonitor, Wifi, SequenceTheorems, FiniteSetTheorems, TLAPS

-----------------------------------------------------------------------------
(* Wifi: what is staged gets committed.                                    *)

(* The configuration an operation changes the staged copy of.              *)
Touches(op) ==
    CASE op.op \in {"add", "delete"} -> {"wireless"}
      [] op.op = "interface"         -> {"network"}
      [] op.op = "addlist"           -> {"firewall"}
      [] op.op = "shell" /\ op.command \in {"purge ssid", "purge stas", "dedupe"} -> {"wireless"}
      [] OTHER                       -> {}

Commits(op, k) == op.op = "commit" /\ op.config = k

OpNames == {"add", "delete", "interface", "addlist", "commit", "shell"}

(* A list of operations in which every change is followed by a commit of   *)
(* the configuration it changes, but for the configurations in open.       *)
Covered(ops, open) ==
    /\ ops \in Seq(Range(ops))
    /\ \A i \in 1 .. Len(ops) :
         /\ ops[i].op \in OpNames
         /\ \A k \in Touches(ops[i]) \ open : \E j \in i + 1 .. Len(ops) : Commits(ops[j], k)

Closed(ops) == Covered(ops, {})

HasCommit(ops, k) == \E j \in 1 .. Len(ops) : Commits(ops[j], k)

(* The caller's list holds operations (a scan's holds radios).             *)
Working(c) == call[c].pc \in {"shell", "login", "ubus"}

PendingCommit(k) ==
    \E c \in Callers : /\ Working(c)
                       /\ HasCommit(call[c].ops, k)

(* The records have their fields.                                          *)
ConfShape(c) == c = [k \in Configs |-> [staged |-> c[k].staged, saved |-> c[k].saved]]

CallShape ==
    /\ DOMAIN call = Callers
    /\ \A c \in Callers : {"pc", "ops"} \subseteq DOMAIN call[c]

WifiShape ==
    /\ ConfShape(conf)
    /\ CallShape
    /\ "commits" \in DOMAIN spent /\ spent.commits \in Nat

(* Whatever is staged and not saved is still to be committed by a caller   *)
(* that is under way, although its own staging may have been undone or     *)
(* committed by another one.                                               *)
WifiInv ==
    /\ WifiShape
    /\ \A c \in Callers : Working(c) => Closed(call[c].ops)
    /\ spent.commits = 0 =>
         \A k \in Configs : conf[k].staged = conf[k].saved \/ PendingCommit(k)

(* What the operations are.                                                *)
LEMMA OpFacts ==
    /\ \A name, values : /\ Add(name, values).op = "add"
                         /\ Touches(Add(name, values)) = {"wireless"}
    /\ \A name : Delete(name).op = "delete" /\ Touches(Delete(name)) = {"wireless"}
    /\ AddInterface.op = "interface" /\ Touches(AddInterface) = {"network"}
    /\ \A value : AddList(value).op = "addlist" /\ Touches(AddList(value)) = {"firewall"}
    /\ \A k : /\ Commit(k).op = "commit" /\ Touches(Commit(k)) = {}
              /\ Commits(Commit(k), k)
    /\ \A arg : /\ Shell("purge ssid", arg).op = "shell"
                /\ Touches(Shell("purge ssid", arg)) = {"wireless"}
                /\ Shell("purge stas", arg).op = "shell"
                /\ Touches(Shell("purge stas", arg)) = {"wireless"}
                /\ Shell("dedupe", arg).op = "shell"
                /\ Touches(Shell("dedupe", arg)) = {"wireless"}
                /\ Shell("wifi reload", arg).op = "shell"
                /\ Touches(Shell("wifi reload", arg)) = {}
                /\ Shell("ifup wwan", arg).op = "shell"
                /\ Touches(Shell("ifup wwan", arg)) = {}
  BY DEF Add, Delete, AddInterface, AddList, Commit, Shell, Touches, Commits

(* A list of one to four operations, and what lists put together cover.    *)
LEMMA ShortLists ==
    /\ \A a : a.op \in OpNames => Covered(<<a>>, Touches(a))
    /\ \A a, b : a.op \in OpNames /\ b.op \in OpNames /\ Touches(b) = {}
                   /\ (\A k \in Touches(a) : Commits(b, k)) => Closed(<<a, b>>)
    /\ \A a, b, c : a.op \in OpNames /\ b.op \in OpNames /\ c.op \in OpNames
                      /\ Touches(b) = {} /\ Touches(c) = {}
                      /\ (\A k \in Touches(a) : Commits(b, k)) => Closed(<<a, b, c>>)
  <1>1. ASSUME NEW a, a.op \in OpNames
        PROVE  Covered(<<a>>, Touches(a))
    <2>1. <<a>> \in Seq({a}) /\ Len(<<a>>) = 1 /\ <<a>>[1] = a
      OBVIOUS
    <2>2. <<a>> \in Seq(Range(<<a>>))
      BY <2>1, SeqOfRange
    <2> QED
      BY <1>1, <2>1, <2>2 DEF Covered
  <1>2. ASSUME NEW a, NEW b, a.op \in OpNames, b.op \in OpNames, Touches(b) = {},
               \A k \in Touches(a) : Commits(b, k)
        PROVE  Closed(<<a, b>>)
    <2>1. <<a, b>> \in Seq({a, b}) /\ Len(<<a, b>>) = 2 /\ <<a, b>>[1] = a /\ <<a, b>>[2] = b
      OBVIOUS
    <2>2. <<a, b>> \in Seq(Range(<<a, b>>))
      BY <2>1, SeqOfRange
    <2> QED
      BY <1>2, <2>1, <2>2 DEF Closed, Covered
  <1>3. ASSUME NEW a, NEW b, NEW c, a.op \in OpNames, b.op \in OpNames, c.op \in OpNames,
               Touches(b) = {}, Touches(c) = {}, \A k \in Touches(a) : Commits(b, k)
        PROVE  Closed(<<a, b, c>>)
    <2>1. /\ <<a, b, c>> \in Seq({a, b, c}) /\ Len(<<a, b, c>>) = 3
          /\ <<a, b, c>>[1] = a /\ <<a, b, c>>[2] = b /\ <<a, b, c>>[3] = c
      OBVIOUS
    <2>2. <<a, b, c>> \in Seq(Range(<<a, b, c>>))
      BY <2>1, SeqOfRange
    <2> QED
      BY <1>3, <2>1, <2>2 DEF Closed, Covered
  <1> QED
    BY <1>1, <1>2, <1>3

LEMMA CoveredConcat ==
    ASSUME NEW s, NEW t, NEW before, NEW open, Covered(s, before), Covered(t, open),
           \A k \in before \ open : HasCommit(t, k)
    PROVE  Covered(s \o t, open)
  <1> DEFINE S == Range(s) \cup Range(t)
             list == s \o t
  <1>1. s \in Seq(S) /\ t \in Seq(S)
    <2>1. s \in Seq(Range(s)) /\ t \in Seq(Range(t)) /\ Range(s) \subseteq S /\ Range(t) \subseteq S
      BY DEF Covered
    <2> QED
      BY <2>1, SeqMonotonic
  <1> HIDE DEF S
  <1>2. /\ list \in Seq(S)
        /\ Len(s) \in Nat /\ Len(t) \in Nat /\ Len(list) = Len(s) + Len(t)
        /\ \A i \in 1 .. Len(s) : list[i] = s[i]
        /\ \A i \in 1 .. Len(t) : list[Len(s) + i] = t[i]
    BY <1>1
  <1> HIDE DEF list
  <1>3. list \in Seq(Range(list))
    BY <1>2, SeqOfRange
  <1>4. ASSUME NEW i \in 1 .. Len(list)
        PROVE  /\ list[i].op \in OpNames
               /\ \A k \in Touches(list[i]) \ open :
                     \E j \in i + 1 .. Len(list) : Commits(list[j], k)
    <2>1. CASE i <= Len(s)
      <3>1. i \in 1 .. Len(s) /\ list[i] = s[i]
        BY <1>2, <2>1
      <3>2. s[i].op \in OpNames
        BY <3>1 DEF Covered
      <3>3. ASSUME NEW k \in Touches(s[i]) \ open
            PROVE  \E j \in i + 1 .. Len(list) : Commits(list[j], k)
        <4>1. CASE k \in before
          <5>1. PICK j \in 1 .. Len(t) : Commits(t[j], k)
            BY <4>1 DEF HasCommit
          <5>2. Len(s) + j \in i + 1 .. Len(list) /\ list[Len(s) + j] = t[j]
            BY <1>2, <3>1, <5>1
          <5> QED
            BY <5>1, <5>2
        <4>2. CASE k \notin before
          <5>1. PICK j \in i + 1 .. Len(s) : Commits(s[j], k)
            BY <3>1, <4>2 DEF Covered
          <5>2. j \in i + 1 .. Len(list) /\ list[j] = s[j]
            BY <1>2, <3>1, <5>1
          <5> QED
            BY <5>1, <5>2
        <4> QED
          BY <4>1, <4>2
      <3> QED
        BY <3>1, <3>2, <3>3
    <2>2. CASE ~(i <= Len(s))
      <3> DEFINE n == i - Len(s)
      <3>1. n \in 1 .. Len(t) /\ i = Len(s) + n /\ list[i] = t[n]
        BY <1>2, <2>2
      <3>2. t[n].op \in OpNames
        BY <3>1 DEF Covered
      <3>3. ASSUME NEW k \in Touches(t[n]) \ open
            PROVE  \E j \in i + 1 .. Len(list) : Commits(list[j], k)
        <4>1. PICK j \in n + 1 .. Len(t) : Commits(t[j], k)
          BY <3>1, <3>3 DEF Covered
        <4>2. Len(s) + j \in i + 1 .. Len(list) /\ list[Len(s) + j] = t[j]
          BY <1>2, <3>1, <4>1
        <4> QED
          BY <4>1, <4>2
      <3> QED
        BY <3>1, <3>2, <3>3
    <2> QED
      BY <2>1, <2>2
  <1> QED
    BY <1>3, <1>4 DEF Covered, list

(* What is left of a closed list is closed, and its head's changes are     *)
(* committed later on.                                                     *)
LEMMA ClosedTail ==
    ASSUME NEW ops, Closed(ops), ops # <<>>
    PROVE  /\ Closed(Tail(ops))
           /\ Head(ops).op \in OpNames
           /\ \A k \in Touches(Head(ops)) : HasCommit(Tail(ops), k)
           /\ \A k : ~Commits(Head(ops), k) /\ HasCommit(ops, k)
                       => HasCommit(Tail(ops), k)
  <1> DEFINE S == Range(ops)
             rest == Tail(ops)
  <1>1. ops \in Seq(S)
    BY DEF Closed, Covered
  <1> HIDE DEF S
  <1>2. /\ rest \in Seq(S) /\ Len(ops) \in Nat /\ Len(ops) >= 1
        /\ Len(rest) = Len(ops) - 1
        /\ Head(ops) = ops[1]
        /\ \A i \in 1 .. Len(rest) : rest[i] = ops[i + 1]
    BY <1>1
  <1> HIDE DEF rest
  <1>3. rest \in Seq(Range(rest))
    BY <1>2, SeqOfRange
  <1>4. \A k, n : n \in Nat /\ n >= 1 /\ (\E j \in n + 1 .. Len(ops) : Commits(ops[j], k))
                    => \E j \in n .. Len(rest) : Commits(rest[j], k)
    <2> SUFFICES ASSUME NEW k, NEW n \in Nat, n >= 1, NEW j \in n + 1 .. Len(ops), Commits(ops[j], k)
                 PROVE  \E m \in n .. Len(rest) : Commits(rest[m], k)
      OBVIOUS
    <2>1. j - 1 \in n .. Len(rest) /\ rest[j - 1] = ops[j]
      BY <1>2
    <2> QED
      BY <2>1
  <1>5. ASSUME NEW i \in 1 .. Len(rest)
        PROVE  /\ rest[i].op \in OpNames
               /\ \A k \in Touches(rest[i]) : \E j \in i + 1 .. Len(rest) : Commits(rest[j], k)
    <2>1. i + 1 \in 1 .. Len(ops) /\ rest[i] = ops[i + 1] /\ i + 1 \in Nat /\ i + 1 >= 1
      BY <1>2
    <2>2. ops[i + 1].op \in OpNames
          /\ \A k \in Touches(ops[i + 1]) : \E j \in (i + 1) + 1 .. Len(ops) : Commits(ops[j], k)
      BY <2>1 DEF Closed, Covered
    <2> QED
      BY <1>4, <2>1, <2>2
  <1>6. /\ Head(ops).op \in OpNames
        /\ \A k \in Touches(Head(ops)) : \E j \in 1 .. Len(rest) : Commits(rest[j], k)
    <2>1. 1 \in 1 .. Len(ops)
      BY <1>2
    <2>2. ops[1].op \in OpNames
          /\ \A k \in Touches(ops[1]) : \E j \in 1 + 1 .. Len(ops) : Commits(ops[j], k)
      BY <2>1, Zenon DEF Closed, Covered
    <2>3. 1 \in Nat /\ 1 >= 1
      OBVIOUS
    <2> QED
      BY <1>2, <1>4, <2>2, <2>3, Zenon
  <1>7. \A k : ~Commits(Head(ops), k) /\ (\E j \in 1 .. Len(ops) : Commits(ops[j], k))
                 => \E j \in 1 .. Len(rest) : Commits(rest[j], k)
    <2> SUFFICES ASSUME NEW k, ~Commits(Head(ops), k), NEW j \in 1 .. Len(ops), Commits(ops[j], k)
                 PROVE  \E m \in 1 .. Len(rest) : Commits(rest[m], k)
      OBVIOUS
    <2>1. j # 1
      BY <1>2
    <2>2. j \in 1 + 1 .. Len(ops) /\ 1 \in Nat /\ 1 >= 1
      BY <1>2, <2>1
    <2> QED
      BY <1>4, <2>2, Zenon
  <1> QED
    BY <1>3, <1>5, <1>6, <1>7 DEF Closed, Covered, HasCommit, rest

(* The lists of the connector's calls are closed.                          *)
LEMMA ListsAreClosed ==
    /\ \A m : m.op \in CallNames => Closed(OpsOf(m))
    /\ \A radio, ssid : Closed(BuildFallback(radio, ssid))
  <1> DEFINE W == {"wireless"}
  <1>1. Closed(Reload) /\ HasCommit(Reload, "wireless")
    <2>1. Closed(<<Commit("wireless"), Shell("wifi reload", None)>>)
      BY OpFacts, ShortLists DEF OpNames
    <2>2. HasCommit(<<Commit("wireless"), Shell("wifi reload", None)>>, "wireless")
      <3>1. ASSUME NEW a, NEW b, NEW k, Commits(a, k)
            PROVE  HasCommit(<<a, b>>, k)
        <4>1. 1 \in 1 .. Len(<<a, b>>) /\ <<a, b>>[1] = a
          OBVIOUS
        <4> QED
          BY <3>1, <4>1, Zenon DEF HasCommit
      <3>2. Commits(Commit("wireless"), "wireless")
        BY OpFacts
      <3> QED
        BY <3>1, <3>2
    <2> QED
      BY <2>1, <2>2 DEF Reload
  <1>2. \A radio, ssid : Covered(BuildSta(radio, ssid), W)
    <2>1. \A name, values : Covered(<<Add(name, values)>>, W)
      <3> TAKE name, values
      <3>1. Add(name, values).op \in OpNames /\ Touches(Add(name, values)) = W
        BY OpFacts, ZenonT(60) DEF OpNames
      <3>2. Covered(<<Add(name, values)>>, Touches(Add(name, values)))
        BY <3>1, ShortLists, Zenon
      <3> QED
        BY <3>1, <3>2
    <2> QED
      BY <2>1 DEF BuildSta
  <1>3. Closed(BuildWwan)
    <2>1. /\ AddInterface.op \in OpNames /\ AddList("wwan").op \in OpNames
          /\ Commit("network").op \in OpNames /\ Commit("firewall").op \in OpNames
          /\ Touches(AddInterface) = {"network"} /\ Touches(AddList("wwan")) = {"firewall"}
          /\ Touches(Commit("network")) = {} /\ Touches(Commit("firewall")) = {}
          /\ Commits(Commit("network"), "network") /\ Commits(Commit("firewall"), "firewall")
      BY OpFacts DEF OpNames
    <2>2. ASSUME NEW a, NEW b, NEW c, NEW d,
                 a.op \in OpNames, b.op \in OpNames, c.op \in OpNames, d.op \in OpNames,
                 \A k \in Touches(a) : Commits(c, k), \A k \in Touches(b) : Commits(d, k),
                 Touches(c) = {}, Touches(d) = {}
          PROVE  Closed(<<a, b, c, d>>)
      <3>1. /\ <<a, b, c, d>> \in Seq({a, b, c, d}) /\ Len(<<a, b, c, d>>) = 4
            /\ <<a, b, c, d>>[1] = a /\ <<a, b, c, d>>[2] = b
            /\ <<a, b, c, d>>[3] = c /\ <<a, b, c, d>>[4] = d
        OBVIOUS
      <3>2. <<a, b, c, d>> \in Seq(Range(<<a, b, c, d>>))
        BY <3>1, SeqOfRange
      <3> QED
        BY <2>2, <3>1, <3>2 DEF Closed, Covered
    <2>3. /\ \A k \in Touches(AddInterface) : Commits(Commit("network"), k)
          /\ \A k \in Touches(AddList("wwan")) : Commits(Commit("firewall"), k)
      BY <2>1
    <2>4. Closed(<<AddInterface, AddList("wwan"), Commit("network"), Commit("firewall")>>)
      BY <2>1, <2>2, <2>3, Zenon
    <2> QED
      BY <2>4 DEF BuildWwan
  <1>4. \A radio, ssid : Closed(BuildFallback(radio, ssid))
    <2>1. \A name, values :
            Closed(<<Add(name, values), Commit("wireless"), Shell("wifi reload", None)>>)
      <3> SUFFICES ASSUME NEW name, NEW values
                   PROVE  Closed(<<Add(name, values), Commit("wireless"), Shell("wifi reload", None)>>)
        OBVIOUS
      <3> DEFINE a == Add(name, values)
                 b == Commit("wireless")
                 c == Shell("wifi reload", None)
      <3>1. /\ a.op \in OpNames /\ b.op \in OpNames /\ c.op \in OpNames
            /\ Touches(a) = {"wireless"} /\ Touches(b) = {} /\ Touches(c) = {}
            /\ Commits(b, "wireless")
        BY OpFacts, ZenonT(60) DEF OpNames
      <3> HIDE DEF a, b, c
      <3>2. \A k \in Touches(a) : Commits(b, k)
        BY <3>1
      <3>3. Closed(<<a, b, c>>)
        BY <3>1, <3>2, ShortLists, Zenon
      <3> QED
        BY <3>3 DEF a, b, c
    <2> QED
      BY <2>1 DEF BuildFallback
  <1>5. \A arg : /\ Closed(<<Shell("purge ssid", arg), Commit("wireless")>>)
                 /\ Closed(<<Shell("purge stas", arg), Commit("wireless")>>)
                 /\ Closed(<<Shell("dedupe", arg), Commit("wireless")>>)
    BY OpFacts, ShortLists DEF OpNames
  <1>6. \A m : Closed(ConnectOps(m))
    <2> TAKE m
    <2> DEFINE purge == <<Shell("purge ssid", m.ssid), Commit("wireless")>>
    <2>1. Covered(purge \o BuildSta(m.radio, m.ssid), W)
      BY <1>2, <1>5, CoveredConcat DEF Closed
    <2>2. Closed((purge \o BuildSta(m.radio, m.ssid)) \o Reload)
      <3>1. \A k \in W \ {} : HasCommit(Reload, k)
        BY <1>1
      <3> HIDE DEF W, purge
      <3> QED
        BY <1>1, <2>1, <3>1, CoveredConcat DEF Closed
    <2>3. Closed(<<Shell("ifup wwan", None)>>)
      <3>1. Shell("ifup wwan", None).op \in OpNames /\ Touches(Shell("ifup wwan", None)) = {}
        BY OpFacts DEF OpNames
      <3>2. Covered(<<Shell("ifup wwan", None)>>, Touches(Shell("ifup wwan", None)))
        BY <3>1, ShortLists, Zenon
      <3> QED
        BY <3>1, <3>2 DEF Closed
    <2>4. Closed(((purge \o BuildSta(m.radio, m.ssid)) \o Reload) \o <<Shell("ifup wwan", None)>>)
      BY <2>2, <2>3, CoveredConcat DEF Closed
    <2> QED
      BY <2>4 DEF ConnectOps
  <1>7. Closed(DisconnectOps)
    BY <1>1, <1>5, CoveredConcat DEF Closed, DisconnectOps
  <1>8. \A m : Closed(SwitchOps(m) \o Reload)
    <2> TAKE m
    <2>1. Covered(<<Delete(StaName(m.from))>>, W)
      <3>1. /\ Delete(StaName(m.from)).op \in OpNames
            /\ Touches(Delete(StaName(m.from))) = W
        BY OpFacts DEF OpNames
      <3>2. Covered(<<Delete(StaName(m.from))>>, Touches(Delete(StaName(m.from))))
        BY <3>1, ShortLists, Zenon
      <3> QED
        BY <3>1, <3>2
    <2>2. Covered(SwitchOps(m), W)
      BY <1>2, <2>1, CoveredConcat DEF SwitchOps
    <2> QED
      BY <1>1, <2>2, CoveredConcat DEF Closed
  <1>9. \A m : Closed(BuildWwan \o BuildSta(m.radio, m.ssid) \o Reload)
    <2> TAKE m
    <2>1. Covered(BuildWwan \o BuildSta(m.radio, m.ssid), W)
      BY <1>2, <1>3, CoveredConcat DEF Closed
    <2> QED
      BY <1>1, <2>1, CoveredConcat DEF Closed
  <1>10. Closed(<<>>)
    BY DEF Closed, Covered, Range
  <1>11. ASSUME NEW m, m.op \in CallNames
         PROVE  Closed(OpsOf(m))
    BY <1>3, <1>5, <1>6, <1>7, <1>8, <1>9, <1>10, <1>11 DEF OpsOf, CallNames
  <1> QED
    BY <1>4, <1>11

(* What the execution of an operation does to a configuration c, as far as *)
(* the invariant is concerned.                                             *)
After(c, op, d) ==
    \A k \in Configs :
        /\ Commits(op, k) => d[k].staged = d[k].saved
        /\ ~Commits(op, k) /\ k \notin Touches(op) => d[k] = c[k]

LEMMA StagedAfter ==
    ASSUME NEW c, ConfShape(c), NEW k \in Configs, NEW value, NEW op, Touches(op) = {k},
           op.op # "commit"
    PROVE  ConfShape(Staged(c, k, value)) /\ After(c, op, Staged(c, k, value))
  <1>1. \A n \in Configs : Staged(c, k, value)[n] =
            IF n = k THEN [staged |-> value, saved |-> c[k].saved]
            ELSE [staged |-> c[n].staged, saved |-> c[n].saved]
    BY DEF Staged, ConfShape
  <1>2. DOMAIN Staged(c, k, value) = Configs
    BY DEF Staged, ConfShape
  <1>3. ConfShape(Staged(c, k, value))
    BY DEF Staged, ConfShape
  <1>4. After(c, op, Staged(c, k, value))
    BY <1>1 DEF After, ConfShape, Commits
  <1> QED
    BY <1>3, <1>4

LEMMA KeptAfter ==
    ASSUME NEW c, ConfShape(c), NEW op, op.op # "commit"
    PROVE  After(c, op, c)
  BY DEF After, Commits

LEMMA CommitAfter ==
    ASSUME NEW c, ConfShape(c), NEW op, op.op = "commit"
    PROVE  /\ ConfShape(Committed(c, op.config))
           /\ After(c, op, Committed(c, op.config))
  <1> DEFINE v == c[op.config].staged
             d == [c EXCEPT ![op.config].saved = v]
  <1>1. \A n \in Configs : c[n] = [staged |-> c[n].staged, saved |-> c[n].saved]
    BY DEF ConfShape
  <1>2. DOMAIN d = Configs /\ d = [n \in Configs |-> d[n]]
    BY DEF ConfShape
  <1>3. ASSUME NEW n \in Configs, n # op.config
        PROVE  d[n] = c[n]
    <2> HIDE DEF v
    <2> QED
      BY <1>3 DEF ConfShape
  <1>4. ASSUME op.config \in Configs
        PROVE  d[op.config].staged = v /\ d[op.config].saved = v
               /\ d[op.config] = [staged |-> v, saved |-> v]
    <2>1. c[op.config] = [staged |-> v, saved |-> c[op.config].saved]
      BY <1>1, <1>4
    <2>2. d[op.config] = [c[op.config] EXCEPT !.saved = v]
      BY <1>2, <1>4 DEF ConfShape
    <2> HIDE DEF d, v
    <2> QED
      BY <2>1, <2>2
  <1>5. \A n \in Configs : d[n] = [staged |-> d[n].staged, saved |-> d[n].saved]
    <2> SUFFICES ASSUME NEW n \in Configs PROVE d[n] = [staged |-> d[n].staged, saved |-> d[n].saved]
      OBVIOUS
    <2> HIDE DEF d, v
    <2>1. CASE n = op.config
      BY <1>4, <2>1, Zenon
    <2>2. CASE n # op.config
      <3>1. d[n] = c[n] /\ c[n] = [staged |-> c[n].staged, saved |-> c[n].saved]
        BY <1>1, <1>3, <2>2
      <3> QED
        BY <3>1, Zenon
    <2> QED
      BY <2>1, <2>2
  <1>6. ConfShape(d)
    <2> HIDE DEF d
    <2> QED
      BY <1>2, <1>5, Zenon DEF ConfShape
  <1>7. After(c, op, d)
    <2> SUFFICES ASSUME NEW n \in Configs
                 PROVE  /\ Commits(op, n) => d[n].staged = d[n].saved
                        /\ ~Commits(op, n) /\ n \notin Touches(op) => d[n] = c[n]
      BY DEF After
    <2> HIDE DEF d, v
    <2>2. CASE n = op.config
      BY <1>4, <2>2, Zenon DEF Commits
    <2>3. CASE n # op.config
      BY <1>3, <2>3 DEF Commits
    <2> QED
      BY <2>2, <2>3
  <1> QED
    BY <1>6, <1>7 DEF Committed

(* execute_shell and execute_ubus, whichever command of it fails; a commit *)
(* that fails is counted.                                                  *)
LEMMA ShellAfter ==
    ASSUME NEW c, ConfShape(c), NEW op, op.op \in OpNames, NEW failed,
           op.op = "commit" => 0 \notin failed
    PROVE  /\ ConfShape(ShellEffect(c, op, failed))
           /\ After(c, op, ShellEffect(c, op, failed))
  <1> DEFINE e == ShellEffect(c, op, failed)
             w == c["wireless"].staged
             f == c["firewall"].staged
             n == c["network"].staged
  <1>1. CASE op.op = "add"
    <2>1. e = Staged(c, "wireless", AddSection(w, op, failed))
      BY <1>1 DEF ShellEffect
    <2> QED
      BY <1>1, <2>1, StagedAfter DEF Touches, Configs
  <1>2. CASE op.op # "add" /\ 0 \in failed
    <2>1. e = c
      BY <1>2 DEF ShellEffect
    <2> QED
      BY <1>2, <2>1, KeptAfter
  <1>3. CASE op.op = "delete" /\ 0 \notin failed
    <2>1. e = Staged(c, "wireless", Without(w, op.name))
      BY <1>3 DEF ShellEffect
    <2> QED
      BY <1>3, <2>1, StagedAfter DEF Touches, Configs
  <1>4. CASE op.op = "interface" /\ 0 \notin failed
    <2>1. e = Staged(c, "network", n \cup {<<"wwan">>})
      BY <1>4 DEF ShellEffect
    <2> QED
      BY <1>4, <2>1, StagedAfter DEF Touches, Configs
  <1>5. CASE op.op = "addlist" /\ 0 \notin failed
    <2>1. e = Staged(c, "firewall", Append(f, op.value))
      BY <1>5 DEF ShellEffect
    <2> QED
      BY <1>5, <2>1, StagedAfter DEF Touches, Configs
  <1>6. CASE op.op = "commit"
    <2>1. e = Committed(c, op.config)
      BY <1>6 DEF ShellEffect
    <2> QED
      BY <1>6, <2>1, CommitAfter
  <1>7. CASE op.op = "shell" /\ 0 \notin failed
    <2>1. CASE op.command \in {"purge ssid", "purge stas", "dedupe"}
      <3>1. \E value : e = Staged(c, "wireless", value)
        BY <1>7, <2>1 DEF ShellEffect
      <3> QED
        BY <1>7, <2>1, <3>1, StagedAfter DEF Touches, Configs
    <2>2. CASE op.command \notin {"purge ssid", "purge stas", "dedupe"}
      <3>1. e = c
        BY <1>7, <2>2 DEF ShellEffect
      <3> QED
        BY <1>7, <3>1, KeptAfter
    <2> QED
      BY <2>1, <2>2
  <1> QED
    BY <1>1, <1>2, <1>3, <1>4, <1>5, <1>6, <1>7 DEF OpNames

LEMMA UbusAfter ==
    ASSUME NEW c, ConfShape(c), NEW op, op.op \in OpNames
    PROVE  /\ ConfShape(UbusEffect(c, op))
           /\ After(c, op, UbusEffect(c, op))
  <1> DEFINE e == UbusEffect(c, op)
  <1>1. CASE op.op = "add"
    <2>1. \E value : e = Staged(c, "wireless", value)
      BY <1>1 DEF UbusEffect
    <2> QED
      BY <1>1, <2>1, StagedAfter DEF Touches, Configs
  <1>2. CASE op.op = "interface"
    <2>1. \E value : e = Staged(c, "network", value)
      BY <1>2 DEF UbusEffect
    <2> QED
      BY <1>2, <2>1, StagedAfter DEF Touches, Configs
  <1>3. CASE op.op = "addlist"
    <2>1. e = Staged(c, "firewall", <<op.value>>)
      BY <1>3 DEF UbusEffect
    <2> QED
      BY <1>3, <2>1, StagedAfter DEF Touches, Configs
  <1>4. CASE op.op = "shell"
    <2>1. e = c
      BY <1>4 DEF UbusEffect
    <2>2. After(c, op, c)
      BY <1>4, KeptAfter
    <2> QED
      BY <2>1, <2>2
  <1>5. CASE op.op \in {"commit", "delete"}
    <2>1. e = ShellEffect(c, op, {})
      BY <1>5 DEF UbusEffect
    <2> QED
      BY <1>5, <2>1, ShellAfter
  <1> QED
    BY <1>1, <1>2, <1>3, <1>4, <1>5 DEF OpNames

-----------------------------------------------------------------------------
(* The steps of the callers.                                               *)

(* An operation is executed, and nothing fails to be committed.            *)
LEMMA Executed ==
    ASSUME WifiInv, NEW c \in Callers, Working(c), call[c].ops # <<>>,
           WifiShape',
           \A d \in Callers : call'[d].pc = call[d].pc,
           \A d \in Callers : call'[d].ops = IF d = c THEN Tail(call[c].ops) ELSE call[d].ops,
           spent'.commits = 0 => spent.commits = 0 /\ After(conf, Head(call[c].ops), conf')
    PROVE  WifiInv'
  <1> DEFINE op == Head(call[c].ops)
  <1>1. Closed(call[c].ops)
    BY DEF WifiInv
  <1>2. /\ Closed(Tail(call[c].ops))
        /\ \A k \in Touches(op) : HasCommit(Tail(call[c].ops), k)
        /\ \A k : ~Commits(op, k) /\ HasCommit(call[c].ops, k) => HasCommit(Tail(call[c].ops), k)
    BY <1>1, ClosedTail
  <1>3. \A d \in Callers : Working(d)' <=> Working(d)
    BY DEF Working
  <1>4. \A d \in Callers : Working(d)' => Closed(call'[d].ops)
    BY <1>2, <1>3 DEF WifiInv
  <1>5. ASSUME spent'.commits = 0, NEW k \in Configs
        PROVE  conf'[k].staged = conf'[k].saved \/ PendingCommit(k)'
    <2>1. spent.commits = 0 /\ After(conf, op, conf')
      BY <1>5
    <2>2. CASE Commits(op, k)
      BY <2>1, <2>2 DEF After
    <2>3. CASE k \in Touches(op)
      <3>1. HasCommit(call'[c].ops, k) /\ Working(c)'
        BY <1>2, <1>3, <2>3
      <3> QED
        BY <3>1 DEF PendingCommit, HasCommit, Commits
    <2>4. CASE ~Commits(op, k) /\ k \notin Touches(op)
      <3>1. conf'[k] = conf[k]
        BY <2>1, <2>4 DEF After
      <3>2. CASE conf[k].staged = conf[k].saved
        BY <3>1, <3>2
      <3>3. CASE PendingCommit(k)
        <4>1. PICK d \in Callers : Working(d) /\ HasCommit(call[d].ops, k)
          BY <3>3 DEF PendingCommit
        <4>2. Working(d)' /\ HasCommit(call'[d].ops, k)
          BY <1>2, <1>3, <2>4, <4>1
        <4> QED
          BY <4>2 DEF PendingCommit, HasCommit, Commits
      <3> QED
        BY <2>1, <3>2, <3>3 DEF WifiInv
    <2> QED
      BY <2>2, <2>3, <2>4
  <1> QED
    BY <1>4, <1>5 DEF WifiInv

(* A step that executes nothing: a caller with operations left keeps them. *)
LEMMA NothingExecuted ==
    ASSUME WifiInv, WifiShape',
           conf' = conf, spent'.commits = spent.commits,
           \A d \in Callers : Working(d) /\ call[d].ops # <<>> =>
                                call'[d].pc \in {"shell", "login", "ubus"} /\ call'[d].ops = call[d].ops,
           \A d \in Callers : call'[d].pc \in {"shell", "login", "ubus"} => Closed(call'[d].ops)
    PROVE  WifiInv'
  <1>1. \A d \in Callers : Working(d)' => Closed(call'[d].ops)
    BY DEF Working
  <1>2. ASSUME spent'.commits = 0, NEW k \in Configs
        PROVE  conf'[k].staged = conf'[k].saved \/ PendingCommit(k)'
    <2>1. CASE conf[k].staged = conf[k].saved
      BY <2>1
    <2>2. CASE PendingCommit(k)
      <3>1. PICK d \in Callers : Working(d) /\ HasCommit(call[d].ops, k)
        BY <2>2 DEF PendingCommit
      <3>2. call[d].ops # <<>>
        <4>1. Len(<<>>) = 0
          OBVIOUS
        <4> QED
          BY <3>1, <4>1 DEF HasCommit
      <3>3. Working(d)' /\ HasCommit(call'[d].ops, k)
        BY <3>1, <3>2 DEF Working
      <3> QED
        BY <3>3 DEF PendingCommit, HasCommit, Commits
    <2> QED
      BY <1>2, <2>1, <2>2 DEF WifiInv
  <1> QED
    BY <1>1, <1>2 DEF WifiInv

LEMMA RunOpStep ==
    ASSUME WifiInv, NEW c \in Callers, RunOp(c)
    PROVE  WifiInv'
  <1> DEFINE op == Head(call[c].ops)
  <1>1. call[c].pc = "shell" /\ call[c].ops # <<>> /\ Working(c)
    BY DEF RunOp, Working
  <1>2. op.op \in OpNames
    BY <1>1, ClosedTail DEF WifiInv
  <1>3. CallShape /\ ConfShape(conf) /\ "commits" \in DOMAIN spent /\ spent.commits \in Nat
    BY DEF WifiInv, WifiShape
  <1>4. CASE /\ conf' = ShellEffect(conf, op, {})
             /\ call' = [call EXCEPT ![c].ops = Tail(@)]
             /\ UNCHANGED spent
    <2>1. ConfShape(conf') /\ After(conf, op, conf')
      BY <1>2, <1>3, <1>4, ShellAfter
    <2>2. /\ CallShape'
          /\ \A d \in Callers : call'[d].pc = call[d].pc
          /\ \A d \in Callers : call'[d].ops = IF d = c THEN Tail(call[c].ops) ELSE call[d].ops
      BY <1>3, <1>4, SMTT(40) DEF CallShape
    <2>3. WifiShape'
      BY <1>3, <1>4, <2>1, <2>2 DEF WifiShape, ConfShape
    <2> QED
      BY <1>1, <1>4, <2>1, <2>2, <2>3, Executed
  <1>5. CASE /\ \E k \in CommandsOf(op) : conf' = ShellEffect(conf, op, {k})
             /\ spent' = [spent EXCEPT !.fails = @ + 1, !.commits = @ + One(op.op = "commit")]
             /\ call' = [call EXCEPT ![c].ops = Tail(@), ![c].clean = FALSE]
    <2>1. PICK k \in CommandsOf(op) : conf' = ShellEffect(conf, op, {k})
      BY <1>5
    <2>2. /\ CallShape'
          /\ \A d \in Callers : call'[d].pc = call[d].pc
          /\ \A d \in Callers : call'[d].ops = IF d = c THEN Tail(call[c].ops) ELSE call[d].ops
      BY <1>3, <1>5 DEF CallShape
    <2>3. /\ "commits" \in DOMAIN spent'
          /\ spent'.commits = spent.commits + One(op.op = "commit")
      BY <1>3, <1>5
    <2>4. CASE op.op = "commit"
      <3>1. spent'.commits = spent.commits + 1
        BY <2>3, <2>4 DEF One
      <3>2. k = 0
        BY <2>1, <2>4 DEF CommandsOf
      <3>3. conf' = conf
        BY <2>1, <2>4, <3>2 DEF ShellEffect
      <3>4. WifiShape' /\ spent'.commits # 0
        BY <1>3, <2>2, <2>3, <3>1, <3>3 DEF WifiShape, ConfShape
      <3> QED
        BY <1>1, <2>2, <3>4, Executed
    <2>5. CASE op.op # "commit"
      <3>1. spent'.commits = spent.commits
        BY <1>3, <2>3, <2>5 DEF One
      <3>2. ConfShape(conf') /\ After(conf, op, conf')
        BY <1>2, <1>3, <2>1, <2>5, ShellAfter
      <3>3. WifiShape'
        BY <1>3, <2>2, <2>3, <3>1, <3>2 DEF WifiShape, ConfShape
      <3> QED
        BY <1>1, <2>2, <3>1, <3>2, <3>3, Executed
    <2> QED
      BY <2>4, <2>5
  <1> QED
    BY <1>4, <1>5 DEF RunOp

LEMMA RunUbusStep ==
    ASSUME WifiInv, NEW c \in Callers, RunUbus(c)
    PROVE  WifiInv'
  <1> DEFINE op == Head(call[c].ops)
  <1>1. call[c].pc = "ubus" /\ call[c].ops # <<>> /\ Working(c)
    BY DEF RunUbus, Working
  <1>2. op.op \in OpNames
    BY <1>1, ClosedTail DEF WifiInv
  <1>3. CallShape /\ ConfShape(conf) /\ "commits" \in DOMAIN spent /\ spent.commits \in Nat
    BY DEF WifiInv, WifiShape
  <1>4. PICK answer :
          /\ conf' = IF answer \in {"ok", "answer lost"} THEN UbusEffect(conf, op) ELSE conf
          /\ call' = [call EXCEPT ![c].ops = Tail(@), ![c].clean = @ /\ answer = "ok"]
          /\ spent' = [spent EXCEPT !.fails = @ + One(answer \in {"failed", "answer lost"}),
                                    !.commits = @ + One(answer # "ok" /\ op.op = "commit")]
    BY DEF RunUbus
  <1>5. /\ CallShape'
        /\ \A d \in Callers : call'[d].pc = call[d].pc
        /\ \A d \in Callers : call'[d].ops = IF d = c THEN Tail(call[c].ops) ELSE call[d].ops
    BY <1>3, <1>4 DEF CallShape
  <1>6. /\ "commits" \in DOMAIN spent' /\ spent'.commits \in Nat
        /\ spent'.commits = 0 => spent.commits = 0 /\ (answer = "ok" \/ op.op # "commit")
    <2>1. /\ "commits" \in DOMAIN spent'
          /\ spent'.commits = spent.commits + One(answer # "ok" /\ op.op = "commit")
      BY <1>3, <1>4
    <2>2. /\ One(answer # "ok" /\ op.op = "commit") \in Nat
          /\ (answer # "ok" /\ op.op = "commit") => One(answer # "ok" /\ op.op = "commit") = 1
      BY DEF One
    <2> QED
      BY <1>3, <2>1, <2>2
  <1>7. ConfShape(conf')
    BY <1>2, <1>3, <1>4, UbusAfter
  <1>8. answer = "ok" \/ op.op # "commit" => After(conf, op, conf')
    <2>1. CASE answer \in {"ok", "answer lost"}
      BY <1>2, <1>3, <1>4, <2>1, UbusAfter
    <2>2. CASE answer \notin {"ok", "answer lost"}
      BY <1>3, <1>4, <2>2, KeptAfter
    <2> QED
      BY <2>1, <2>2
  <1>9. WifiShape'
    BY <1>5, <1>6, <1>7 DEF WifiShape, ConfShape
  <1> QED
    BY <1>1, <1>5, <1>6, <1>8, <1>9, Executed

(* A caller moves on without executing an operation.                       *)
LEMMA CallerMoves ==
    ASSUME WifiInv, NEW c \in Callers,
           UNCHANGED conf, "commits" \in DOMAIN spent', spent'.commits = spent.commits,
           DOMAIN call' = Callers,
           \A d \in Callers : {"pc", "ops"} \subseteq DOMAIN call'[d],
           \A d \in Callers : d # c => call'[d].pc = call[d].pc /\ call'[d].ops = call[d].ops,
           ~Working(c) \/ call[c].ops = <<>>
             \/ (call'[c].pc \in {"shell", "login", "ubus"} /\ call'[c].ops = call[c].ops),
           call'[c].pc \in {"shell", "login", "ubus"} => Closed(call'[c].ops)
    PROVE  WifiInv'
  <1>1. WifiShape'
    BY DEF WifiInv, WifiShape, CallShape, ConfShape
  <1>2. \A d \in Callers : call'[d].pc \in {"shell", "login", "ubus"} => Closed(call'[d].ops)
    BY DEF WifiInv, Working
  <1>3. \A d \in Callers : Working(d) /\ call[d].ops # <<>> =>
            call'[d].pc \in {"shell", "login", "ubus"} /\ call'[d].ops = call[d].ops
    BY DEF Working
  <1> QED
    BY <1>1, <1>2, <1>3, NothingExecuted

LEMMA ClosedNil == Closed(<<>>)
  BY DEF Closed, Covered, Range

LEMMA BeginStep ==
    ASSUME WifiInv, NEW c \in Callers, Begin(c)
    PROVE  WifiInv'
  <1>1. PICK m \in Menu[c] :
          call' = [d \in Callers |->
                     IF d = c
                     THEN [Idle EXCEPT !.op = m.op, !.args = m,
                             !.pc = IF m.op = "best" THEN "radios"
                                    ELSE IF m.op = "ubus" THEN "login" ELSE "shell",
                             !.ops = OpsOf(m),
                             !.alone = \A e \in Callers : ~Busy(e)]
                     ELSE [call[d] EXCEPT !.alone = @ /\ ~Busy(d)]]
    BY DEF Begin
  <1>2. call[c] = Idle /\ UNCHANGED <<conf, spent>>
    BY DEF Begin
  <1>3. ~Working(c)
    BY <1>2 DEF Working, Idle
  <1>4. CallShape /\ "commits" \in DOMAIN spent
    BY DEF WifiInv, WifiShape
  <1>5. {"pc", "ops"} \subseteq DOMAIN call'[c] /\ call'[c].ops = OpsOf(m)
    BY <1>1 DEF Idle
  <1>6. \A d \in Callers : d # c => /\ {"pc", "ops"} \subseteq DOMAIN call'[d]
                                    /\ call'[d].pc = call[d].pc /\ call'[d].ops = call[d].ops
    BY <1>1, <1>4 DEF CallShape
  <1>7. Closed(OpsOf(m))
    BY WifiConfig, ListsAreClosed
  <1>8. DOMAIN call' = Callers
    BY <1>1
  <1> QED
    BY <1>2, <1>3, <1>4, <1>5, <1>6, <1>7, <1>8, CallerMoves, SMTT(40)

(* Fails returns, or puts the fallback's operations in front.              *)
LEMMA FailsStep ==
    ASSUME WifiInv, NEW c \in Callers, NEW error, Fails(c, error), ~Working(c),
           UNCHANGED conf, "commits" \in DOMAIN spent', spent'.commits = spent.commits
    PROVE  WifiInv'
  <1>1. CallShape
    BY DEF WifiInv, WifiShape
  <1>2. CASE call[c].op = "switch"
    <2> DEFINE ops == BuildFallback(call[c].args.from, call[c].args.fromSsid)
    <2>1. call' = [call EXCEPT ![c].pc = "shell", ![c].ops = ops]
      BY <1>2 DEF Fails
    <2>2. Closed(ops)
      BY ListsAreClosed
    <2> HIDE DEF ops
    <2>3. /\ DOMAIN call' = Callers
          /\ \A d \in Callers : {"pc", "ops"} \subseteq DOMAIN call'[d]
          /\ \A d \in Callers : d # c => call'[d].pc = call[d].pc /\ call'[d].ops = call[d].ops
          /\ call'[c].ops = ops
      BY <1>1, <2>1 DEF CallShape
    <2> QED
      BY <2>2, <2>3, CallerMoves
  <1>3. CASE call[c].op # "switch"
    <2>1. call' = [call EXCEPT ![c].pc = "idle", ![c].result = error]
      BY <1>3 DEF Fails, Return
    <2>2. /\ DOMAIN call' = Callers
          /\ \A d \in Callers : {"pc", "ops"} \subseteq DOMAIN call'[d]
          /\ \A d \in Callers : d # c => call'[d].pc = call[d].pc /\ call'[d].ops = call[d].ops
          /\ call'[c].pc = "idle"
      BY <1>1, <2>1 DEF CallShape
    <2> QED
      BY <2>2, CallerMoves
  <1> QED
    BY <1>2, <1>3

(* Goto and Return change where one caller stands.                         *)
LEMMA Moves ==
    ASSUME CallShape, NEW c \in Callers, NEW p,
           Goto(c, p) \/ (p = "idle" /\ \E r : Return(c, r))
    PROVE  /\ DOMAIN call' = Callers
           /\ \A d \in Callers : {"pc", "ops"} \subseteq DOMAIN call'[d]
           /\ \A d \in Callers : d # c => call'[d].pc = call[d].pc /\ call'[d].ops = call[d].ops
           /\ call'[c].pc = p /\ call'[c].ops = call[c].ops
  <1>1. CASE Goto(c, p)
    BY <1>1 DEF CallShape, Goto
  <1>2. CASE p = "idle" /\ \E r : Return(c, r)
    BY <1>2 DEF CallShape, Return
  <1> QED
    BY <1>1, <1>2

(* The other steps of a call.                                              *)
LEMMA CallStep ==
    ASSUME WifiInv, NEW c \in Callers, CallSteps(c)
    PROVE  WifiInv'
  <1>1. CallShape /\ "commits" \in DOMAIN spent
    BY DEF WifiInv, WifiShape
  <1>2. spent' = [spent EXCEPT !.fails = @ + 1] =>
          "commits" \in DOMAIN spent' /\ spent'.commits = spent.commits
    BY <1>1
  <1> DEFINE Moved(p) ==
        /\ DOMAIN call' = Callers
        /\ \A d \in Callers : {"pc", "ops"} \subseteq DOMAIN call'[d]
        /\ \A d \in Callers : d # c => call'[d].pc = call[d].pc /\ call'[d].ops = call[d].ops
        /\ call'[c].pc = p
  <1>3. CASE RunOp(c)
    BY <1>3, RunOpStep
  <1>4. CASE RunUbus(c)
    BY <1>4, RunUbusStep
  <1>5. CASE OpsDone(c) \/ UbusDone(c)
    <2>1. call[c].ops = <<>> /\ UNCHANGED <<conf, spent>>
      BY <1>5 DEF OpsDone, UbusDone
    <2>2. \E p \in {"find", "idle"} : Goto(c, p) \/ (p = "idle" /\ \E r : Return(c, r))
      BY <1>5 DEF OpsDone, UbusDone
    <2>3. \E p \in {"find", "idle"} : Moved(p)
      BY <1>1, <2>2, Moves
    <2> QED
      BY <1>1, <2>1, <2>3, CallerMoves
  <1>6. CASE FindInterface(c)
    <2>1. call[c].pc = "find" /\ UNCHANGED conf
      BY <1>6 DEF FindInterface
    <2>2. \/ /\ UNCHANGED spent \/ spent' = [spent EXCEPT !.fails = @ + 1]
             /\ \E r : call' = [call EXCEPT ![c].pc = "wait", ![c].iface = r]
          \/ /\ spent' = [spent EXCEPT !.fails = @ + 1]
             /\ call' = [call EXCEPT ![c].pc = "idle", ![c].result = "command failed",
                                     ![c].clean = FALSE]
      BY <1>6 DEF FindInterface
    <2>3. Moved("wait") \/ Moved("idle")
      <3>1. ASSUME NEW r, call' = [call EXCEPT ![c].pc = "wait", ![c].iface = r]
            PROVE  Moved("wait")
        BY <1>1, <3>1 DEF CallShape
      <3>2. ASSUME call' = [call EXCEPT ![c].pc = "idle", ![c].result = "command failed",
                                        ![c].clean = FALSE]
            PROVE  Moved("idle")
        BY <1>1, <3>2 DEF CallShape
      <3> QED
        BY <2>2, <3>1, <3>2
    <2>4. ~Working(c)
      BY <2>1 DEF Working
    <2>5. "commits" \in DOMAIN spent' /\ spent'.commits = spent.commits
      BY <1>1, <1>2, <2>2
    <2> QED
      BY <2>1, <2>3, <2>4, <2>5, CallerMoves
  <1>7. CASE PollIp(c)
    <2>1. call[c].pc = "wait" /\ UNCHANGED <<conf, spent>>
      BY <1>7 DEF PollIp
    <2>2. ~Working(c)
      BY <2>1 DEF Working
    <2>3. \/ Goto(c, "verify")
          \/ call' = [call EXCEPT ![c].count = @ + 1]
          \/ Fails(c, "dhcp timeout")
      BY <1>7 DEF PollIp
    <2>4. CASE Goto(c, "verify")
      <3>1. Moved("verify")
        BY <1>1, <2>4, Moves
      <3> QED
        BY <1>1, <2>1, <2>2, <3>1, CallerMoves
    <2>5. CASE call' = [call EXCEPT ![c].count = @ + 1]
      <3>1. Moved("wait")
        BY <1>1, <2>1, <2>5 DEF CallShape
      <3> QED
        BY <1>1, <2>1, <2>2, <3>1, CallerMoves
    <2>6. CASE Fails(c, "dhcp timeout")
      BY <1>1, <2>1, <2>2, <2>6, FailsStep
    <2> QED
      BY <2>3, <2>4, <2>5, <2>6
  <1>8. CASE Verify(c)
    <2>1. call[c].pc = "verify" /\ UNCHANGED conf
      BY <1>8 DEF Verify
    <2>2. ~Working(c)
      BY <2>1 DEF Working
    <2>3. /\ UNCHANGED spent \/ spent' = [spent EXCEPT !.fails = @ + 1]
          /\ Return(c, "ok") \/ \E error : Fails(c, error)
      BY <1>8 DEF Verify
    <2>4. "commits" \in DOMAIN spent' /\ spent'.commits = spent.commits
      BY <1>1, <1>2, <2>3
    <2>5. CASE Return(c, "ok")
      <3>1. Moved("idle")
        BY <1>1, <2>5, Moves
      <3> QED
        BY <2>1, <2>2, <2>4, <3>1, CallerMoves
    <2>6. CASE \E error : Fails(c, error)
      BY <2>1, <2>2, <2>4, <2>6, FailsStep
    <2> QED
      BY <2>3, <2>5, <2>6
  <1>9. CASE Login(c)
    <2>1. /\ call[c].pc = "login" /\ UNCHANGED conf /\ Goto(c, "ubus")
          /\ UNCHANGED spent
      BY <1>9 DEF Login
    <2>2. Moved("ubus") /\ call'[c].ops = call[c].ops
      BY <1>1, <2>1, Moves
    <2>3. Closed(call[c].ops)
      BY <2>1 DEF WifiInv, Working
    <2>4. "commits" \in DOMAIN spent' /\ spent'.commits = spent.commits
      BY <1>1, <1>2, <2>1
    <2> QED
      BY <2>1, <2>2, <2>3, <2>4, CallerMoves
  <1>10. CASE GetRadios(c)
    <2>1. /\ call[c].pc = "radios" /\ UNCHANGED conf
          /\ UNCHANGED spent \/ spent' = [spent EXCEPT !.fails = @ + 1]
          /\ \/ \E r : Return(c, r)
             \/ \E radios : call' = [call EXCEPT ![c].pc = "scan", ![c].ops = radios]
      BY <1>10 DEF GetRadios
    <2>2. ~Working(c)
      BY <2>1 DEF Working
    <2>3. Moved("idle") \/ Moved("scan")
      <3>1. ASSUME NEW r, Return(c, r)
            PROVE  Moved("idle")
        BY <1>1, <3>1, Moves
      <3>2. ASSUME NEW radios, call' = [call EXCEPT ![c].pc = "scan", ![c].ops = radios]
            PROVE  Moved("scan")
        BY <1>1, <3>2 DEF CallShape
      <3> QED
        BY <2>1, <3>1, <3>2
    <2>4. "commits" \in DOMAIN spent' /\ spent'.commits = spent.commits
      BY <1>1, <1>2, <2>1
    <2> QED
      BY <2>1, <2>2, <2>3, <2>4, CallerMoves
  <1>11. CASE ScanRadio(c)
    <2>1. /\ call[c].pc = "scan" /\ UNCHANGED conf
          /\ UNCHANGED spent \/ spent' = [spent EXCEPT !.fails = @ + 1]
          /\ \/ \E f : call' = [call EXCEPT ![c].ops = Tail(@), ![c].count = 0, ![c].found = f]
             \/ call' = [call EXCEPT ![c].count = @ + 1]
             \/ call' = [call EXCEPT ![c].ops = Tail(@), ![c].count = 0]
      BY <1>11 DEF ScanRadio
    <2>2. ~Working(c)
      BY <2>1 DEF Working
    <2>3. Moved("scan")
      <3>1. ASSUME NEW f, call' = [call EXCEPT ![c].ops = Tail(@), ![c].count = 0, ![c].found = f]
            PROVE  Moved("scan")
        BY <1>1, <2>1, <3>1 DEF CallShape
      <3>2. ASSUME call' = [call EXCEPT ![c].count = @ + 1]
            PROVE  Moved("scan")
        BY <1>1, <2>1, <3>2 DEF CallShape
      <3>3. ASSUME call' = [call EXCEPT ![c].ops = Tail(@), ![c].count = 0]
            PROVE  Moved("scan")
        BY <1>1, <2>1, <3>3 DEF CallShape
      <3> QED
        BY <2>1, <3>1, <3>2, <3>3
    <2>4. "commits" \in DOMAIN spent' /\ spent'.commits = spent.commits
      BY <1>1, <1>2, <2>1
    <2> QED
      BY <2>1, <2>2, <2>3, <2>4, CallerMoves
  <1>12. CASE ScanDone(c)
    <2>1. /\ call[c].pc = "scan" /\ UNCHANGED <<conf, spent>>
          /\ \E r : call' = [call EXCEPT ![c].pc = "idle", ![c].result = "ok", ![c].iface = r]
      BY <1>12 DEF ScanDone
    <2>2. ~Working(c)
      BY <2>1 DEF Working
    <2>3. Moved("idle")
      BY <1>1, <2>1 DEF CallShape
    <2> QED
      BY <1>1, <2>1, <2>2, <2>3, CallerMoves
  <1> QED
    BY <1>3, <1>4, <1>5, <1>6, <1>7, <1>8, <1>9, <1>10, <1>11, <1>12 DEF CallSteps, TimedSteps

LEMMA WifiNextKeeps == WifiInv /\ [WifiNext]_wifiVars => WifiInv'
  <1> SUFFICES ASSUME WifiInv, [WifiNext]_wifiVars PROVE WifiInv'
    OBVIOUS
  <1>1. ASSUME NEW c \in Callers, Begin(c)
        PROVE  WifiInv'
    BY <1>1, BeginStep
  <1>2. ASSUME NEW c \in Callers, CallSteps(c)
        PROVE  WifiInv'
    BY <1>2, CallStep
  <1>3. CASE UNCHANGED <<conf, call, spent>>
    BY <1>3 DEF WifiInv, WifiShape, ConfShape, CallShape, Working, PendingCommit, HasCommit, Commits
  <1>4. CASE SessionExpires \/ (\E r \in Radios : Associate(r)) \/ UNCHANGED wifiVars
    BY <1>3, <1>4 DEF SessionExpires, Associate, wifiVars
  <1> QED
    BY <1>1, <1>2, <1>4 DEF WifiNext

LEMMA WifiInitHolds == WifiInit => WifiInv
  <1> SUFFICES ASSUME WifiInit PROVE WifiInv
    OBVIOUS
  <1>1. PICK w \in InitialWireless :
          conf = [c \in Configs |->
                    CASE c = "wireless" -> [staged |-> w, saved |-> w]
                      [] c = "network"  -> [staged |-> {}, saved |-> {}]
                      [] c = "firewall" -> [staged |-> <<"wan">>, saved |-> <<"wan">>]]
    BY DEF WifiInit
  <1>2. ConfShape(conf) /\ \A k \in Configs : conf[k].staged = conf[k].saved
    BY <1>1 DEF ConfShape, Configs
  <1>3. /\ call = [c \in Callers |-> Idle] /\ spent = [fails |-> 0, commits |-> 0]
    BY DEF WifiInit
  <1>4. CallShape /\ \A c \in Callers : ~Working(c)
    BY <1>3 DEF CallShape, Working, Idle
  <1> QED
    BY <1>2, <1>3, <1>4 DEF WifiInv, WifiShape

(* Whatever the callers do beside one another, and whichever of their      *)
(* commands fail, unless it is a commit: when no call is under way every   *)
(* staged change has been committed.  For any number of callers and calls. *)
THEOREM StagedIsCommitted == WifiSpec => []NothingLeftStaged
  <1>1. WifiInv => NothingLeftStaged
    BY DEF WifiInv, NothingLeftStaged, PendingCommit, Working, Busy
  <1> QED
    BY <1>1, WifiInitHolds, WifiNextKeeps, PTL DEF WifiSpec

-----------------------------------------------------------------------------
(* NetMonitor: the consumer's picture.                                     *)

(* What an event tells the consumer of link i, who thought b of it; and    *)
(* what it thinks after a sequence of events: the last one that is about   *)
(* the link counts.                                                        *)
IsUp(e, i) == e.type = "InterfaceUp" /\ e.iface = i
IsDown(e, i) == e.type = "InterfaceDown" /\ e.iface = i

Told(b, e, i) == IsUp(e, i) \/ (b /\ ~IsDown(e, i))

Carry(b, s, i) ==
    \/ \E p \in 1 .. Len(s) : IsUp(s[p], i) /\ \A q \in p + 1 .. Len(s) : ~IsDown(s[q], i)
    \/ b /\ \A q \in 1 .. Len(s) : ~IsDown(s[q], i)

(* What the consumer will think of link i when the events that are made    *)
(* have reached it.                                                        *)
WillSee(i) == Carry(Carry(i \in receiver.up, events, i), task.out, i)

(* What a message of the kernel says of link i.                            *)
Kind(m, i) ==
    IF m.type = "NewLink" /\ m.iface = i /\ m.up THEN "up"
    ELSE IF m.type = "DelLink" /\ m.iface = i THEN "gone" ELSE "other"

Awaits(s, i, b) == \E r \in 1 .. Len(s) : Kind(s[r], i) = b

Followed(s, i, a, b) ==
    \A p \in 1 .. Len(s) : Kind(s[p], i) = a => \E r \in p + 1 .. Len(s) : Kind(s[r], i) = b

Pending(i, b) == \/ Awaits(netlink.queue, i, b)
                 \/ task.pc = "handle" /\ Kind(task.msg, i) = b

Monitored(i) == ShouldProcess(i) /\ i \notin Loopbacks

IsSeq(s) == s \in Seq(Range(s))

MessageTypes == {"NewLink", "DelLink", "NewAddress", "DelAddress"}

MonitorShape ==
    /\ DOMAIN link = Ifaces
    /\ \A i \in Ifaces : /\ {"exists", "up", "addrs", "route"} \subseteq DOMAIN link[i]
                         /\ link[i].exists \in BOOLEAN /\ link[i].up \in BOOLEAN
                         /\ IsFiniteSet(link[i].addrs)
    /\ {"connected", "queue"} \subseteq DOMAIN netlink
    /\ {"pc", "msg", "out"} \subseteq DOMAIN task
    /\ {"open", "up"} \subseteq DOMAIN receiver
    /\ DOMAIN excuse = Ifaces
    /\ IsSeq(netlink.queue) /\ IsSeq(events) /\ IsSeq(task.out)
    /\ \A p \in 1 .. Len(netlink.queue) : netlink.queue[p].type \in MessageTypes
    /\ task.pc = "handle" => task.msg.type \in MessageTypes

(* Between two connections nothing is on its way; a task that is not       *)
(* sending has nothing to send.                                            *)
Between ==
    /\ task.pc \in {"start", "backoff"} => ~netlink.connected /\ netlink.queue = <<>>
    /\ task.out # <<>> => task.pc = "send"

(* A deletion that is queued is followed by the news that the link is up,  *)
(* if it is; and the news that it is up by its deletion, if it is gone.    *)
InOrder(i) ==
    /\ netlink.connected /\ Up(i) /\ "overrun" \notin excuse[i] =>
         /\ Followed(netlink.queue, i, "gone", "up")
         /\ task.pc = "handle" /\ Kind(task.msg, i) = "gone" => Awaits(netlink.queue, i, "up")
    /\ ~link[i].exists /\ "missed" \notin excuse[i] =>
         /\ Followed(netlink.queue, i, "up", "gone")
         /\ task.pc = "handle" /\ Kind(task.msg, i) = "up" => Awaits(netlink.queue, i, "gone")

(* A link that is up will be seen, will be scanned, is about to be         *)
(* announced, or has an excuse; one that is gone likewise.                 *)
Explained(i) ==
    /\ Monitored(i) /\ netlink.connected /\ Up(i) /\ task.pc # "scan" /\ "overrun" \notin excuse[i] =>
         "InterfaceUp" \in excuse[i] \/ "unread" \in excuse[i] \/ Pending(i, "up") \/ WillSee(i)
    /\ ~link[i].exists /\ "missed" \notin excuse[i] =>
         "InterfaceDown" \in excuse[i] \/ Pending(i, "gone") \/ ~WillSee(i)
    /\ ~Monitored(i) => ~WillSee(i)

MonitorInv ==
    /\ MonitorShape
    /\ Between
    /\ \A i \in Ifaces : InOrder(i) /\ (receiver.open => Explained(i))

(* What is known of sequences: their length and elements, and those of the *)
(* sequences made of them.                                                 *)
LEMMA Sequences1 ==
    /\ IsSeq(<<>>) /\ Len(<<>>) = 0
    /\ \A e : IsSeq(<<e>>) /\ Len(<<e>>) = 1 /\ <<e>>[1] = e /\ <<e>> # <<>>
    /\ \A s : IsSeq(s) => Len(s) \in Nat /\ (s = <<>> <=> Len(s) = 0)
  <1>1. <<>> \in Seq({}) /\ Len(<<>>) = 0
    OBVIOUS
  <1>2. ASSUME NEW e PROVE IsSeq(<<e>>) /\ Len(<<e>>) = 1 /\ <<e>>[1] = e /\ <<e>> # <<>>
    <2>1. <<e>> \in Seq({e}) /\ Len(<<e>>) = 1 /\ <<e>>[1] = e /\ <<e>> # <<>>
      OBVIOUS
    <2> QED
      BY <2>1, SeqOfRange DEF IsSeq
  <1>3. ASSUME NEW s, IsSeq(s) PROVE Len(s) \in Nat /\ (s = <<>> <=> Len(s) = 0)
    <2>1. s \in Seq(Range(s))
      BY <1>3 DEF IsSeq
    <2> HIDE DEF Range
    <2> QED
      BY <2>1, EmptySeq
  <1> QED
    BY <1>1, <1>2, <1>3, SeqOfRange DEF IsSeq

LEMMA SequenceTail ==
    ASSUME NEW s, IsSeq(s), s # <<>>
    PROVE  /\ IsSeq(Tail(s)) /\ Head(s) = s[1] /\ Len(s) \in Nat \ {0}
           /\ Len(Tail(s)) = Len(s) - 1
           /\ \A k \in 1 .. Len(Tail(s)) : Tail(s)[k] = s[k + 1]
  <1>1. s \in Seq(Range(s))
    BY DEF IsSeq
  <1> DEFINE S == Range(s)
  <1> HIDE DEF S
  <1>2. s \in Seq(S)
    BY <1>1 DEF S
  <1>3. Tail(s) \in Seq(S) /\ Head(s) = s[1] /\ Len(s) \in Nat \ {0}
    BY <1>2, EmptySeq
  <1>4. IsSeq(Tail(s))
    BY <1>3, SeqOfRange DEF IsSeq
  <1>5. Len(Tail(s)) = Len(s) - 1 /\ \A k \in 1 .. Len(Tail(s)) : Tail(s)[k] = s[k + 1]
    BY <1>2, <1>3
  <1> QED
    BY <1>3, <1>4, <1>5

LEMMA SequenceAppend ==
    ASSUME NEW s, IsSeq(s), NEW e
    PROVE  /\ IsSeq(Append(s, e)) /\ Len(s) \in Nat
           /\ Len(Append(s, e)) = Len(s) + 1
           /\ \A k \in 1 .. Len(s) : Append(s, e)[k] = s[k]
           /\ Append(s, e)[Len(s) + 1] = e
  <1> DEFINE S == Range(s) \cup {e}
  <1>1. s \in Seq(S) /\ e \in S
    BY SeqMonotonic DEF IsSeq
  <1> HIDE DEF S
  <1>2. Append(s, e) \in Seq(S)
    BY <1>1
  <1>3. IsSeq(Append(s, e))
    BY <1>2, SeqOfRange DEF IsSeq
  <1>4. /\ Len(s) \in Nat /\ Len(Append(s, e)) = Len(s) + 1
        /\ \A k \in 1 .. Len(s) : Append(s, e)[k] = s[k]
        /\ Append(s, e)[Len(s) + 1] = e
    BY <1>1
  <1> QED
    BY <1>3, <1>4

Joined(u, s, t) ==
    /\ IsSeq(u) /\ Len(s) \in Nat /\ Len(t) \in Nat /\ Len(u) = Len(s) + Len(t)
    /\ \A k \in 1 .. Len(s) : u[k] = s[k]
    /\ \A k \in 1 .. Len(t) : u[Len(s) + k] = t[k]

LEMMA SequenceConcat ==
    ASSUME NEW s, IsSeq(s), NEW t, IsSeq(t)
    PROVE  Joined(s \o t, s, t)
  <1> DEFINE S == Range(s) \cup Range(t)
  <1>1. s \in Seq(S) /\ t \in Seq(S)
    BY SeqMonotonic DEF IsSeq
  <1> HIDE DEF S
  <1>2. s \o t \in Seq(S)
    BY <1>1
  <1>3. IsSeq(s \o t)
    BY <1>2, SeqOfRange DEF IsSeq
  <1>4. /\ Len(s) \in Nat /\ Len(t) \in Nat /\ Len(s \o t) = Len(s) + Len(t)
        /\ \A k \in 1 .. Len(s) : (s \o t)[k] = s[k]
        /\ \A k \in 1 .. Len(t) : (s \o t)[Len(s) + k] = t[k]
    BY <1>1
  <1> QED
    BY <1>3, <1>4 DEF Joined

(* A finite set as a sequence has exactly its elements.                    *)
LEMMA SetAsSequence ==
    ASSUME NEW S, IsFiniteSet(S)
    PROVE  IsSeq(SetToSeq(S)) /\ Range(SetToSeq(S)) = S
  <1> DEFINE n == Cardinality(S)
             f == SetToSeq(S)
  <1>1. n \in Nat /\ ExistsBijection(1 .. n, S)
    BY FS_CardinalityType
  <1>2. \E g \in [1 .. n -> S] : IsInjective(g)
    BY <1>1 DEF ExistsBijection, Bijection, Injection, Surjection, IsInjective
  <1>3. f \in [1 .. n -> S] /\ IsInjective(f)
    BY <1>2 DEF SetToSeq
  <1> HIDE DEF f
  <1>4. f \in Injection(1 .. n, S)
    BY <1>3 DEF Injection, IsInjective
  <1>5. Cardinality(1 .. n) = n
    BY <1>1, FS_Interval
  <1>6. f \in Surjection(1 .. n, S)
    BY <1>4, <1>5, FS_Injection
  <1>7. f \in Seq(S)
    BY <1>1, <1>3
  <1>8. Range(f) = S
    BY <1>3, <1>6 DEF Surjection, Range
  <1> QED
    BY <1>7, <1>8 DEF f, IsSeq

-----------------------------------------------------------------------------
(* What the consumer makes of a sequence of events.                        *)
LEMMA CarryShort ==
    ASSUME NEW b \in BOOLEAN, NEW i
    PROVE  /\ Carry(b, <<>>, i) <=> b
           /\ \A e : Carry(b, <<e>>, i) <=> Told(b, e, i)
  <1>1. ASSUME NEW e PROVE Carry(b, <<e>>, i) <=> Told(b, e, i)
    <2> DEFINE s == <<e>>
    <2>1. Len(s) = 1 /\ s[1] = e
      BY Sequences1
    <2> HIDE DEF s
    <2>2. Carry(b, s, i) <=> Told(b, e, i)
      BY <2>1 DEF Carry, Told, IsUp, IsDown
    <2> QED
      BY <2>2 DEF s
  <1> QED
    BY <1>1, Sequences1 DEF Carry

LEMMA CarryAppend ==
    ASSUME NEW s, IsSeq(s), NEW e, NEW b \in BOOLEAN, NEW i
    PROVE  Carry(b, Append(s, e), i) <=> Told(Carry(b, s, i), e, i)
  <1> DEFINE t == Append(s, e)
             n == Len(s)
  <1>1. /\ n \in Nat /\ Len(t) = n + 1
        /\ \A k \in 1 .. n : t[k] = s[k]
        /\ t[n + 1] = e
    BY SequenceAppend
  <1> HIDE DEF t, n
  <1>2. (\A q \in 1 .. n + 1 : ~IsDown(t[q], i)) <=> (\A q \in 1 .. n : ~IsDown(s[q], i)) /\ ~IsDown(e, i)
    BY <1>1 DEF IsDown
  <1>3. ASSUME NEW p \in 1 .. n
        PROVE  IsUp(t[p], i) <=> IsUp(s[p], i)
    BY <1>1, <1>3
  <1>4. ASSUME NEW p \in 1 .. n
        PROVE  (\A q \in p + 1 .. n + 1 : ~IsDown(t[q], i))
                 <=> (\A q \in p + 1 .. n : ~IsDown(s[q], i)) /\ ~IsDown(e, i)
    BY <1>1, <1>4 DEF IsDown
  <1>5. Carry(b, t, i) <=>
           \/ \E p \in 1 .. n : IsUp(t[p], i) /\ \A q \in p + 1 .. n + 1 : ~IsDown(t[q], i)
           \/ IsUp(e, i)
           \/ b /\ \A q \in 1 .. n + 1 : ~IsDown(t[q], i)
    BY <1>1 DEF Carry
  <1> QED
    BY <1>2, <1>3, <1>4, <1>5 DEF Carry, Told, t, n

LEMMA CarryTail ==
    ASSUME NEW s, IsSeq(s), s # <<>>, NEW b \in BOOLEAN, NEW i
    PROVE  Carry(b, s, i) <=> Carry(Told(b, Head(s), i), Tail(s), i)
  <1> DEFINE t == Tail(s)
             e == Head(s)
             n == Len(s)
  <1>1. /\ e = s[1] /\ n \in Nat \ {0} /\ Len(t) = n - 1
        /\ \A k \in 1 .. n - 1 : t[k] = s[k + 1]
    BY SequenceTail
  <1> HIDE DEF t, e, n
  <1> DEFINE after == \A q \in 1 .. n - 1 : ~IsDown(t[q], i)
  <1>2. after <=> \A q \in 2 .. n : ~IsDown(s[q], i)
    <2>1. ASSUME NEW q \in 2 .. n PROVE q - 1 \in 1 .. n - 1 /\ t[q - 1] = s[q]
      BY <1>1, <2>1
    <2>2. ASSUME NEW q \in 1 .. n - 1 PROVE q + 1 \in 2 .. n /\ t[q] = s[q + 1]
      BY <1>1, <2>2
    <2> QED
      BY <2>1, <2>2
  <1>3. (\A q \in 1 .. n : ~IsDown(s[q], i)) <=> ~IsDown(e, i) /\ \A q \in 2 .. n : ~IsDown(s[q], i)
    BY <1>1
  <1>4. ASSUME NEW p \in 1 .. n - 1
        PROVE  (\A q \in p + 1 .. n - 1 : ~IsDown(t[q], i)) <=> \A q \in p + 1 + 1 .. n : ~IsDown(s[q], i)
    <2>1. ASSUME NEW q \in p + 1 + 1 .. n PROVE q - 1 \in p + 1 .. n - 1 /\ t[q - 1] = s[q]
      BY <1>1, <2>1
    <2>2. ASSUME NEW q \in p + 1 .. n - 1 PROVE q + 1 \in p + 1 + 1 .. n /\ t[q] = s[q + 1]
      BY <1>1, <2>2
    <2> QED
      BY <2>1, <2>2
  <1> DEFINE Later(p) == IsUp(s[p], i) /\ \A q \in p + 1 .. n : ~IsDown(s[q], i)
  <1>5. (\E p \in 1 .. n : Later(p)) <=> Later(1) \/ \E p \in 1 .. n - 1 : Later(p + 1)
    <2>1. ASSUME NEW p \in 1 .. n, p # 1 PROVE p - 1 \in 1 .. n - 1 /\ p - 1 + 1 = p
      BY <1>1, <2>1
    <2>2. ASSUME NEW p \in 1 .. n - 1 PROVE p + 1 \in 1 .. n
      BY <1>1, <2>2
    <2>3. 1 \in 1 .. n
      BY <1>1
    <2> HIDE DEF Later
    <2> QED
      BY <2>1, <2>2, <2>3
  <1>6. Later(1) <=> IsUp(e, i) /\ \A q \in 2 .. n : ~IsDown(s[q], i)
    BY <1>1
  <1>7. ASSUME NEW p \in 1 .. n - 1
        PROVE  Later(p + 1) <=> IsUp(t[p], i) /\ \A q \in p + 1 .. n - 1 : ~IsDown(t[q], i)
    BY <1>1, <1>4, <1>7
  <1>8. Carry(b, s, i) <=> (\E p \in 1 .. n : Later(p)) \/ (b /\ \A q \in 1 .. n : ~IsDown(s[q], i))
    BY DEF Carry, n
  <1>9. Carry(Told(b, e, i), t, i) <=>
          \/ \E p \in 1 .. n - 1 : IsUp(t[p], i) /\ \A q \in p + 1 .. n - 1 : ~IsDown(t[q], i)
          \/ Told(b, e, i) /\ after
    BY <1>1 DEF Carry
  <1>10. ~(IsUp(e, i) /\ IsDown(e, i))
    BY DEF IsUp, IsDown
  <1> HIDE DEF Later, after
  <1>11. Carry(b, s, i) <=> Carry(Told(b, e, i), t, i)
    BY <1>2, <1>3, <1>5, <1>6, <1>7, <1>8, <1>9, <1>10 DEF Told
  <1> QED
    BY <1>11 DEF e, t

LEMMA PictureTold ==
    ASSUME NEW up, NEW e, NEW i
    PROVE  i \in Picture(up, e) <=> Told(i \in up, e, i)
  BY DEF Picture, Told, IsUp, IsDown

-----------------------------------------------------------------------------
(* What is in a queue of messages when one is read and when more arrive.   *)
EndsWith(s, i, b) == s # <<>> /\ Kind(s[Len(s)], i) = b

(* Messages that are about no other link.                                  *)
About(s, i) ==
    /\ IsSeq(s)
    /\ \A p \in 1 .. Len(s) : /\ s[p].type \in MessageTypes
                             /\ \A j \in Ifaces \ {i} : Kind(s[p], j) = "other"

LEMMA QueueRead ==
    ASSUME NEW s, IsSeq(s), s # <<>>, NEW i
    PROVE  /\ \A b : Awaits(s, i, b) <=> Kind(Head(s), i) = b \/ Awaits(Tail(s), i, b)
           /\ \A a, b : Followed(s, i, a, b) =>
                /\ Followed(Tail(s), i, a, b)
                /\ Kind(Head(s), i) = a => Awaits(Tail(s), i, b)
  <1> DEFINE t == Tail(s)
             e == Head(s)
             n == Len(s)
  <1>1. /\ e = s[1] /\ n \in Nat \ {0} /\ Len(t) = n - 1
        /\ \A k \in 1 .. n - 1 : t[k] = s[k + 1]
    BY SequenceTail
  <1> HIDE DEF t, e, n
  <1>2. ASSUME NEW q \in 1 .. n, q # 1 PROVE q - 1 \in 1 .. n - 1 /\ t[q - 1] = s[q]
    BY <1>1, <1>2
  <1>3. ASSUME NEW q \in 1 .. n - 1 PROVE q + 1 \in 1 .. n /\ t[q] = s[q + 1]
    BY <1>1, <1>3
  <1>4. ASSUME NEW b
        PROVE  Awaits(s, i, b) <=> Kind(e, i) = b \/ Awaits(t, i, b)
    <2>1. Awaits(s, i, b) <=> \E r \in 1 .. n : Kind(s[r], i) = b
      BY DEF Awaits, n
    <2>2. Awaits(t, i, b) <=> \E r \in 1 .. n - 1 : Kind(t[r], i) = b
      BY <1>1 DEF Awaits
    <2>3. 1 \in 1 .. n
      BY <1>1
    <2> QED
      BY <1>1, <1>2, <1>3, <2>1, <2>2, <2>3
  <1>5. ASSUME NEW a, NEW b, Followed(s, i, a, b)
        PROVE  Followed(t, i, a, b) /\ (Kind(e, i) = a => Awaits(t, i, b))
    <2>1. ASSUME NEW p \in 1 .. n, Kind(s[p], i) = a
          PROVE  \E r \in p .. n - 1 : Kind(t[r], i) = b
      <3>1. PICK r \in p + 1 .. n : Kind(s[r], i) = b
        BY <1>5, <2>1 DEF Followed, n
      <3>2. r \in 1 .. n /\ r # 1 /\ r - 1 \in p .. n - 1
        BY <1>1, <3>1
      <3> QED
        BY <1>2, <3>1, <3>2
    <2>2. ASSUME NEW p \in 1 .. n - 1, Kind(t[p], i) = a
          PROVE  \E r \in p + 1 .. n - 1 : Kind(t[r], i) = b
      BY <1>3, <2>1, <2>2
    <2>3. Kind(e, i) = a => \E r \in 1 .. n - 1 : Kind(t[r], i) = b
      <3>1. 1 \in 1 .. n
        BY <1>1
      <3> QED
        BY <1>1, <2>1, <3>1
    <2> QED
      BY <1>1, <2>2, <2>3 DEF Followed, Awaits
  <1> QED
    BY <1>4, <1>5 DEF e, t

LEMMA QueueGrows ==
    ASSUME NEW s, IsSeq(s), NEW t, IsSeq(t), NEW i
    PROVE  /\ \A b : Awaits(s \o t, i, b) <=> Awaits(s, i, b) \/ Awaits(t, i, b)
           /\ \A a, b : a # b /\ (\/ Followed(s, i, a, b) /\ ~Awaits(t, i, a)
                                  \/ EndsWith(t, i, b)) => Followed(s \o t, i, a, b)
           /\ \A b : EndsWith(t, i, b) => Awaits(t, i, b)
  <1> DEFINE u == s \o t
             n == Len(s)
             k == Len(t)
  <1>1. /\ n \in Nat /\ k \in Nat /\ Len(u) = n + k
        /\ \A q \in 1 .. n : u[q] = s[q]
        /\ \A q \in 1 .. k : u[n + q] = t[q]
        /\ t # <<>> => k > 0
    <2>1. Joined(u, s, t)
      BY SequenceConcat, Zenon
    <2> HIDE DEF u
    <2>2. /\ n \in Nat /\ k \in Nat /\ Len(u) = n + k
          /\ \A q \in 1 .. n : u[q] = s[q]
          /\ \A q \in 1 .. k : u[n + q] = t[q]
      BY <2>1 DEF Joined
    <2>3. t = <<>> <=> k = 0
      BY Sequences1, Zenon
    <2> HIDE DEF n, k
    <2> QED
      BY <2>2, <2>3
  <1> HIDE DEF u, n, k
  <1>2. ASSUME NEW q \in 1 .. n + k
        PROVE  \/ q \in 1 .. n /\ u[q] = s[q]
               \/ q - n \in 1 .. k /\ u[q] = t[q - n]
    <2>1. CASE q <= n
      BY <1>1, <2>1
    <2>2. CASE q > n
      <3>1. q - n \in 1 .. k /\ n + (q - n) = q
        BY <1>1, <2>2
      <3> QED
        BY <1>1, <3>1
    <2> QED
      BY <1>1, <2>1, <2>2
  <1>3. ASSUME NEW q \in 1 .. k
        PROVE  n + q \in 1 .. n + k /\ u[n + q] = t[q]
    BY <1>1, <1>3
  <1>4. ASSUME NEW q \in 1 .. n
        PROVE  q \in 1 .. n + k /\ u[q] = s[q]
    BY <1>1, <1>4
  <1>5. ASSUME NEW b
        PROVE  Awaits(u, i, b) <=> Awaits(s, i, b) \/ Awaits(t, i, b)
    <2>1. Awaits(u, i, b) <=> \E r \in 1 .. n + k : Kind(u[r], i) = b
      BY <1>1 DEF Awaits
    <2>2. /\ Awaits(s, i, b) <=> \E r \in 1 .. n : Kind(s[r], i) = b
          /\ Awaits(t, i, b) <=> \E r \in 1 .. k : Kind(t[r], i) = b
      BY DEF Awaits, n, k
    <2> QED
      BY <1>2, <1>3, <1>4, <2>1, <2>2
  <1>6. ASSUME NEW a, NEW b, Followed(s, i, a, b), ~Awaits(t, i, a)
        PROVE  Followed(u, i, a, b)
    <2>1. ASSUME NEW p \in 1 .. n + k, Kind(u[p], i) = a
          PROVE  \E r \in p + 1 .. n + k : Kind(u[r], i) = b
      <3>1. p \in 1 .. n /\ u[p] = s[p]
        BY <1>2, <1>6, <2>1 DEF Awaits, k
      <3>2. PICK r \in p + 1 .. n : Kind(s[r], i) = b
        BY <1>6, <2>1, <3>1 DEF Followed, n
      <3>3. r \in 1 .. n /\ r \in p + 1 .. n + k
        BY <1>1, <3>1, <3>2
      <3> QED
        BY <1>4, <3>2, <3>3
    <2> QED
      BY <1>1, <2>1 DEF Followed
  <1>7. ASSUME NEW b, EndsWith(t, i, b)
        PROVE  k \in 1 .. k /\ Kind(t[k], i) = b
    BY <1>1, <1>7 DEF EndsWith, k
  <1>8. ASSUME NEW a, NEW b, a # b, EndsWith(t, i, b)
        PROVE  Followed(u, i, a, b)
    <2>1. n + k \in 1 .. n + k /\ Kind(u[n + k], i) = b
      BY <1>3, <1>7, <1>8
    <2>2. ASSUME NEW p \in 1 .. n + k, Kind(u[p], i) = a
          PROVE  \E r \in p + 1 .. n + k : Kind(u[r], i) = b
      <3>1. p # n + k
        BY <1>8, <2>1, <2>2
      <3>2. n + k \in p + 1 .. n + k
        BY <1>1, <2>1, <2>2, <3>1
      <3> QED
        BY <2>1, <3>2
    <2> QED
      BY <1>1, <2>2 DEF Followed
  <1>9. ASSUME NEW b, EndsWith(t, i, b) PROVE Awaits(t, i, b)
    BY <1>7, <1>9 DEF Awaits, k
  <1> QED
    BY <1>5, <1>6, <1>8, <1>9 DEF u

-----------------------------------------------------------------------------
(* The steps of the monitor keep the invariant.                            *)
LEMMA MonitorFrame ==
    ASSUME MonitorInv, UNCHANGED <<link, netlink, task, events, receiver, excuse>>
    PROVE  MonitorInv'
  BY DEF MonitorInv, MonitorShape, Between, InOrder, Explained, Up, Pending, WillSee

LEMMA PcMoves ==
    ASSUME MonitorInv, NEW pc, task' = [task EXCEPT !.pc = pc],
           UNCHANGED <<link, events, receiver>>,
           task.pc \notin {"handle", "scan"}, pc # "handle", task.out = <<>>,
           \/ /\ UNCHANGED <<netlink, excuse>>
              /\ pc \in {"start", "backoff"} => ~netlink.connected /\ netlink.queue = <<>>
           \/ /\ netlink.queue = <<>> /\ pc = "scan"
              /\ netlink' = [connected |-> TRUE, queue |-> <<>>]
              /\ excuse' = [i \in Ifaces |-> excuse[i] \ {"overrun"}]
    PROVE  MonitorInv'
  <1>1. /\ {"pc", "msg", "out"} \subseteq DOMAIN task
        /\ task'.pc = pc /\ task'.out = <<>> /\ {"pc", "msg", "out"} \subseteq DOMAIN task'
        /\ netlink'.queue = netlink.queue /\ {"connected", "queue"} \subseteq DOMAIN netlink'
        /\ DOMAIN excuse' = Ifaces
        /\ \A i \in Ifaces : \A x \in {"InterfaceUp", "InterfaceDown", "missed", "unread"} :
             x \in excuse'[i] <=> x \in excuse[i]
        /\ pc # "scan" => excuse' = excuse /\ netlink' = netlink
    BY DEF MonitorInv, MonitorShape
  <1>2. MonitorShape'
    BY <1>1, Sequences1 DEF MonitorInv, MonitorShape
  <1>3. Between'
    BY <1>1 DEF MonitorInv, Between
  <1>4. ASSUME NEW i \in Ifaces PROVE InOrder(i)'
    <2>1. \A a, b : netlink.queue = <<>> => Followed(netlink.queue, i, a, b)
      BY Sequences1 DEF Followed
    <2>2. InOrder(i)
      BY DEF MonitorInv
    <2> QED
      BY <1>1, <2>1, <2>2 DEF InOrder, Up
  <1>5. ASSUME NEW i \in Ifaces, receiver.open PROVE Explained(i)'
    <2>1. Explained(i)
      BY <1>5 DEF MonitorInv
    <2>2. WillSee(i)' <=> WillSee(i)
      BY <1>1 DEF WillSee
    <2>3. \A b : Pending(i, b)' <=> Pending(i, b)
      BY <1>1 DEF Pending
    <2> QED
      BY <1>1, <2>1, <2>2, <2>3 DEF Explained, Up
  <1> QED
    BY <1>2, <1>3, <1>4, <1>5 DEF MonitorInv

(* The event made of a message says what the message says, and only a      *)
(* link that is not monitored is passed over.                              *)
LEMMA EventFacts ==
    ASSUME NEW m, m.type \in MessageTypes, NEW out \in EventsOf(m)
    PROVE  \/ /\ out = <<>>
              /\ \A i : (Kind(m, i) = "up" => ~Monitored(i)) /\ (Kind(m, i) = "gone" => ~ShouldProcess(i))
           \/ \E e : /\ out = <<e>> /\ e.type \in EventType
                     /\ \A i : /\ Kind(m, i) = "up" <=> IsUp(e, i)
                               /\ Kind(m, i) = "gone" <=> IsDown(e, i)
                               /\ IsUp(e, i) => Monitored(i)
  <1>1. CASE m.type = "NewLink"
    <2>1. CASE m.up /\ m.iface \notin Loopbacks /\ ShouldProcess(m.iface)
      <3>1. PICK gw : out = <<[type |-> "InterfaceUp", iface |-> m.iface, gateway |-> gw]>>
        BY <1>1, <2>1 DEF EventsOf
      <3> QED
        BY <1>1, <2>1, <3>1 DEF Kind, IsUp, IsDown, Monitored, EventType
    <2>2. CASE ~(m.up /\ m.iface \notin Loopbacks /\ ShouldProcess(m.iface))
      <3>1. out = <<>>
        BY <1>1, <2>2 DEF EventsOf
      <3> QED
        BY <1>1, <2>2, <3>1 DEF Kind, Monitored
    <2> QED
      BY <2>1, <2>2
  <1>2. CASE m.type = "DelLink"
    <2>1. out = IF ShouldProcess(m.iface) THEN <<[type |-> "InterfaceDown", iface |-> m.iface]>> ELSE <<>>
      BY <1>2 DEF EventsOf
    <2> QED
      BY <1>2, <2>1 DEF Kind, IsUp, IsDown, EventType
  <1>3. CASE m.type = "NewAddress"
    <2>1. \/ out = <<>>
          \/ \E gw : out = <<[type |-> "AddressAdded", iface |-> m.iface, addr |-> m.addr, gateway |-> gw]>>
      BY <1>3 DEF EventsOf
    <2> QED
      BY <1>3, <2>1 DEF Kind, IsUp, IsDown, EventType
  <1>4. CASE m.type = "DelAddress"
    <2>1. \/ out = <<>>
          \/ out = <<[type |-> "AddressDeleted", iface |-> m.iface, addr |-> m.addr]>>
      BY <1>4 DEF EventsOf
    <2> QED
      BY <1>4, <2>1 DEF Kind, IsUp, IsDown, EventType
  <1> QED
    BY <1>1, <1>2, <1>3, <1>4 DEF MessageTypes

LEMMA HandleStep == ASSUME MonitorInv, Handle PROVE MonitorInv'
  <1> DEFINE m == task.msg
  <1>1. /\ task.pc = "handle" /\ UNCHANGED <<link, netlink, events, receiver>>
        /\ m.type \in MessageTypes /\ task.out = <<>> /\ DOMAIN excuse = Ifaces
    BY DEF Handle, MonitorInv, MonitorShape, Between
  <1>2. PICK out \in EventsOf(m) :
          LET e == out[1]
              emits == out # <<>> /\ ShouldEmit(e.iface, e.type)
          IN  /\ task' = [pc |-> "send", msg |-> NoMsg, out |-> IF emits THEN out ELSE <<>>]
              /\ excuse' = IF out = <<>> THEN excuse
                           ELSE [excuse EXCEPT ![e.iface] = IF emits THEN @ \ {e.type} ELSE @ \cup {e.type}]
    BY DEF Handle
  <1> DEFINE Outcome(i) ==
        /\ \A x \in {"missed", "overrun", "unread"} : x \in excuse'[i] <=> x \in excuse[i]
        /\ \/ /\ WillSee(i)' <=> WillSee(i)
              /\ \A x \in {"InterfaceUp", "InterfaceDown"} : x \in excuse[i] => x \in excuse'[i]
              /\ Kind(m, i) = "up" => ~Monitored(i) \/ "InterfaceUp" \in excuse'[i]
              /\ Kind(m, i) = "gone" => ~ShouldProcess(i) \/ "InterfaceDown" \in excuse'[i]
           \/ \E e : /\ WillSee(i)' <=> Told(WillSee(i), e, i)
                     /\ \A x \in {"InterfaceUp", "InterfaceDown"} :
                          x \in excuse[i] => x \in excuse'[i] \/ (e.type = x /\ e.iface = i)
                     /\ Kind(m, i) = "up" <=> IsUp(e, i)
                     /\ Kind(m, i) = "gone" <=> IsDown(e, i)
                     /\ IsUp(e, i) => Monitored(i)
  <1>3. /\ task'.pc = "send" /\ IsSeq(task'.out) /\ {"pc", "msg", "out"} \subseteq DOMAIN task'
        /\ DOMAIN excuse' = Ifaces
        /\ \A i \in Ifaces : Outcome(i)
    <2>1. \A i, b : b \in BOOLEAN => (Carry(b, <<>>, i) <=> b)
      BY CarryShort
    <2>2. \A i : Carry(i \in receiver.up, events, i) \in BOOLEAN
      BY DEF Carry
    <2>3. \A i : WillSee(i) <=> Carry(i \in receiver.up, events, i)
      BY <1>1, <2>1, <2>2 DEF WillSee
    <2>4. CASE out = <<>>
      <3>1. task' = [pc |-> "send", msg |-> NoMsg, out |-> <<>>] /\ excuse' = excuse
        BY <1>2, <2>4
      <3>2. \A i : WillSee(i)' <=> WillSee(i)
        BY <1>1, <2>1, <2>2, <2>3, <3>1 DEF WillSee
      <3>3. \A i : (Kind(m, i) = "up" => ~Monitored(i)) /\ (Kind(m, i) = "gone" => ~ShouldProcess(i))
        BY <1>1, <2>4, EventFacts, Sequences1
      <3> QED
        BY <1>1, <3>1, <3>2, <3>3, Sequences1
    <2>5. CASE out # <<>>
      <3>1. PICK e : /\ out = <<e>> /\ e.type \in EventType
                     /\ \A i : /\ Kind(m, i) = "up" <=> IsUp(e, i)
                               /\ Kind(m, i) = "gone" <=> IsDown(e, i)
                               /\ IsUp(e, i) => Monitored(i)
        BY <1>1, <2>5, EventFacts
      <3>2. out[1] = e
        BY <3>1
      <3>3. e.type \notin {"missed", "overrun", "unread"}
        BY <3>1 DEF EventType
      <3>4. CASE ShouldEmit(e.iface, e.type)
        <4>1. /\ task' = [pc |-> "send", msg |-> NoMsg, out |-> <<e>>]
              /\ excuse' = [excuse EXCEPT ![e.iface] = @ \ {e.type}]
          BY <1>2, <2>5, <3>1, <3>2, <3>4
        <4>2. \A i : WillSee(i)' <=> Told(WillSee(i), e, i)
          <5> SUFFICES ASSUME NEW i PROVE WillSee(i)' <=> Told(WillSee(i), e, i)
            OBVIOUS
          <5>1. WillSee(i)' <=> Carry(Carry(i \in receiver.up, events, i), <<e>>, i)
            BY <1>1, <4>1 DEF WillSee
          <5>2. Carry(Carry(i \in receiver.up, events, i), <<e>>, i)
                  <=> Told(Carry(i \in receiver.up, events, i), e, i)
            BY <2>2, CarryShort
          <5> QED
            BY <2>3, <5>1, <5>2 DEF Told
        <4>3. ASSUME NEW i \in Ifaces PROVE Outcome(i)
          <5>1. /\ \A x \in {"missed", "overrun", "unread"} : x \in excuse'[i] <=> x \in excuse[i]
                /\ \A x \in {"InterfaceUp", "InterfaceDown"} :
                     x \in excuse[i] => x \in excuse'[i] \/ (e.type = x /\ e.iface = i)
            BY <1>1, <3>3, <4>1
          <5> QED
            BY <3>1, <4>2, <5>1
        <4> QED
          BY <1>1, <4>1, <4>3, Sequences1
      <3>5. CASE ~ShouldEmit(e.iface, e.type)
        <4>1. /\ task' = [pc |-> "send", msg |-> NoMsg, out |-> <<>>]
              /\ excuse' = [excuse EXCEPT ![e.iface] = @ \cup {e.type}]
          BY <1>2, <2>5, <3>1, <3>2, <3>5
        <4>2. \A i : WillSee(i)' <=> WillSee(i)
          BY <1>1, <2>1, <2>2, <2>3, <4>1 DEF WillSee
        <4>3. ASSUME NEW i \in Ifaces PROVE Outcome(i)
          <5>1. /\ \A x \in {"missed", "overrun", "unread"} : x \in excuse'[i] <=> x \in excuse[i]
                /\ \A x : x \in excuse[i] => x \in excuse'[i]
                /\ e.iface = i => e.type \in excuse'[i]
            BY <1>1, <3>3, <4>1
          <5> QED
            BY <3>1, <4>2, <5>1 DEF IsUp, IsDown
        <4> QED
          BY <1>1, <4>1, <4>3, Sequences1
      <3> QED
        BY <3>4, <3>5
    <2> QED
      BY <2>4, <2>5
  <1> HIDE DEF Outcome
  <1>4. MonitorShape'
    BY <1>1, <1>3 DEF MonitorInv, MonitorShape
  <1>5. Between'
    BY <1>3 DEF Between
  <1>6. ASSUME NEW i \in Ifaces PROVE InOrder(i)' /\ (receiver.open => Explained(i)')
    <2>1. InOrder(i) /\ (receiver.open => Explained(i)) /\ Outcome(i)
      BY <1>3 DEF MonitorInv
    <2>2. Up(i)' <=> Up(i)
      BY <1>1 DEF Up
    <2>3. \A x \in {"missed", "overrun", "unread"} : x \in excuse'[i] <=> x \in excuse[i]
      BY <2>1 DEF Outcome
    <2>4. InOrder(i)'
      BY <1>1, <1>3, <2>1, <2>2, <2>3 DEF InOrder
    <2>5. \A b : /\ Pending(i, b) <=> Awaits(netlink.queue, i, b) \/ Kind(m, i) = b
                 /\ Pending(i, b)' <=> Awaits(netlink.queue, i, b)
      BY <1>1, <1>3 DEF Pending
    <2>6. ASSUME receiver.open PROVE Explained(i)'
      <3>1. /\ netlink.connected /\ Up(i) /\ "overrun" \notin excuse[i] /\ Kind(m, i) = "gone" => Awaits(netlink.queue, i, "up")
            /\ ~link[i].exists /\ "missed" \notin excuse[i] /\ Kind(m, i) = "up" => Awaits(netlink.queue, i, "gone")
        BY <1>1, <2>1 DEF InOrder
      <3>2. Explained(i)
        BY <2>1, <2>6
      <3>3. /\ Monitored(i) => ShouldProcess(i)
            /\ \A e : ~(IsUp(e, i) /\ IsDown(e, i))
            /\ \A e : e.type = "InterfaceUp" /\ e.iface = i <=> IsUp(e, i)
            /\ \A e : e.type = "InterfaceDown" /\ e.iface = i <=> IsDown(e, i)
        BY DEF Monitored, IsUp, IsDown
      <3>4. /\ Monitored(i) /\ netlink.connected /\ Up(i) /\ "overrun" \notin excuse[i] =>
                 "InterfaceUp" \in excuse[i] \/ "unread" \in excuse[i] \/ Pending(i, "up") \/ WillSee(i)
            /\ ~link[i].exists /\ "missed" \notin excuse[i] =>
                 "InterfaceDown" \in excuse[i] \/ Pending(i, "gone") \/ ~WillSee(i)
            /\ ~Monitored(i) => ~WillSee(i)
        BY <1>1, <3>2 DEF Explained
      <3> SUFFICES
            /\ Monitored(i) /\ netlink.connected /\ Up(i) /\ "overrun" \notin excuse[i] =>
                 "InterfaceUp" \in excuse'[i] \/ "unread" \in excuse[i] \/ Awaits(netlink.queue, i, "up") \/ WillSee(i)'
            /\ ~link[i].exists /\ "missed" \notin excuse[i] =>
                 "InterfaceDown" \in excuse'[i] \/ Awaits(netlink.queue, i, "gone") \/ ~WillSee(i)'
            /\ ~Monitored(i) => ~WillSee(i)'
        BY <1>1, <1>3, <2>2, <2>3, <2>5 DEF Explained, Monitored, ShouldProcess
      <3> HIDE DEF m
      <3> QED
        BY <2>1, <2>5, <3>1, <3>3, <3>4 DEF Outcome, Told
    <2> QED
      BY <2>4, <2>6
  <1> QED
    BY <1>1, <1>4, <1>5, <1>6 DEF MonitorInv

(* Subscribing before the scan: a link that comes up after the scan has    *)
(* read it is announced, one that was up is among the events of the scan.  *)
LEMMA ScanStep == ASSUME MonitorInv, InitialScan PROVE MonitorInv'
  <1>0. PICK read \in SUBSET CurrentlyUp :
          /\ task' = [task EXCEPT !.pc = "send",
                       !.out = SetToSeq({[type |-> "InterfaceUp", iface |-> i, gateway |-> NoGateway] : i \in read})]
          /\ excuse' = [i \in Ifaces |-> IF i \in read THEN excuse[i] \cap {"overrun"}
                                          ELSE IF i \in CurrentlyUp THEN excuse[i] \cup {"unread"}
                                          ELSE excuse[i]]
    BY Zenon DEF InitialScan
  <1> DEFINE found == {[type |-> "InterfaceUp", iface |-> i, gateway |-> NoGateway] : i \in read}
             out == SetToSeq(found)
  <1>1. /\ task.pc = "scan" /\ UNCHANGED <<link, netlink, events, receiver>>
        /\ task.out = <<>> /\ {"pc", "msg", "out"} \subseteq DOMAIN task
        /\ task'.pc = "send" /\ task'.out = out /\ {"pc", "msg", "out"} \subseteq DOMAIN task'
        /\ DOMAIN excuse' = Ifaces
        /\ \A i \in Ifaces :
             excuse'[i] = IF i \in read THEN excuse[i] \cap {"overrun"}
                          ELSE IF i \in CurrentlyUp THEN excuse[i] \cup {"unread"} ELSE excuse[i]
    BY <1>0 DEF InitialScan, MonitorInv, MonitorShape, Between
  <1>2. IsFiniteSet(found)
    <2>1. read \in SUBSET Ifaces
      BY <1>0 DEF CurrentlyUp
    <2>2. IsFiniteSet(read)
      BY <2>1, MonitorConfig, FS_Subset
    <2> DEFINE f == [i \in read |-> [type |-> "InterfaceUp", iface |-> i, gateway |-> NoGateway]]
    <2>3. f \in Surjection(read, found)
      BY DEF Surjection
    <2> HIDE DEF f, found
    <2> QED
      BY <2>2, <2>3, FS_Surjection
  <1>3. IsSeq(out) /\ Range(out) = found
    <2> HIDE DEF found
    <2> QED
      BY <1>2, SetAsSequence
  <1> HIDE DEF out
  <1>4. /\ \A p \in 1 .. Len(out) : out[p] \in found
        /\ \A e \in found : \E p \in 1 .. Len(out) : out[p] = e
    <2> HIDE DEF found
    <2>1. out \in Seq(found)
      BY <1>3 DEF IsSeq
    <2>2. DOMAIN out = 1 .. Len(out)
      BY <2>1
    <2> QED
      BY <1>3, <2>2 DEF Range
  <1>5. /\ \A p \in 1 .. Len(out) : \E j \in read : out[p].type = "InterfaceUp" /\ out[p].iface = j
        /\ \A j \in read : \E p \in 1 .. Len(out) : out[p].type = "InterfaceUp" /\ out[p].iface = j
    <2>1. /\ \A e \in found : \E j \in read : e.type = "InterfaceUp" /\ e.iface = j
          /\ \A j \in read : \E e \in found : e.type = "InterfaceUp" /\ e.iface = j
      <3>1. ASSUME NEW e \in found
            PROVE  \E j \in read : e.type = "InterfaceUp" /\ e.iface = j
        <4>1. PICK j \in read : e = [type |-> "InterfaceUp", iface |-> j, gateway |-> NoGateway]
          BY <3>1
        <4> QED
          BY <4>1
      <3>2. ASSUME NEW j \in read
            PROVE  \E e \in found : e.type = "InterfaceUp" /\ e.iface = j
        <4>1. [type |-> "InterfaceUp", iface |-> j, gateway |-> NoGateway] \in found
          BY <3>2
        <4>2. LET e == [type |-> "InterfaceUp", iface |-> j, gateway |-> NoGateway]
              IN  e.type = "InterfaceUp" /\ e.iface = j
          OBVIOUS
        <4> HIDE DEF found
        <4> QED
          BY <4>1, <4>2
      <3> QED
        BY <3>1, <3>2, Zenon
    <2> HIDE DEF found
    <2> QED
      BY <1>4, <2>1
  <1>6. /\ \A i : \A p \in 1 .. Len(out) : ~IsDown(out[p], i)
        /\ \A i : i \in read <=> \E p \in 1 .. Len(out) : IsUp(out[p], i)
    BY <1>5 DEF IsDown, IsUp
  <1>7. ASSUME NEW i PROVE WillSee(i)' <=> i \in read \/ WillSee(i)
    <2>1. Carry(i \in receiver.up, events, i) \in BOOLEAN
      BY DEF Carry
    <2>2. WillSee(i) <=> Carry(i \in receiver.up, events, i)
      BY <1>1, <2>1, CarryShort DEF WillSee
    <2>3. WillSee(i)' <=> Carry(Carry(i \in receiver.up, events, i), out, i)
      BY <1>1 DEF WillSee
    <2>4. ASSUME NEW b \in BOOLEAN PROVE Carry(b, out, i) <=> i \in read \/ b
      <3>1. \A p \in 1 .. Len(out) : \A q \in p + 1 .. Len(out) : q \in 1 .. Len(out)
        <4>1. Len(out) \in Nat
          BY <1>3, Sequences1
        <4> QED
          BY <4>1
      <3> QED
        BY <1>6, <3>1 DEF Carry
    <2> QED
      BY <2>1, <2>2, <2>3, <2>4
  <1> HIDE DEF found
  <1>8. MonitorShape'
    BY <1>1, <1>3 DEF MonitorInv, MonitorShape
  <1>9. Between'
    BY <1>1 DEF Between
  <1>10. ASSUME NEW i \in Ifaces PROVE InOrder(i)' /\ (receiver.open => Explained(i)')
    <2>1. /\ InOrder(i) /\ (receiver.open => Explained(i))
          /\ i \in CurrentlyUp <=> Monitored(i) /\ netlink.connected /\ Up(i)
          /\ Up(i) => link[i].exists
          /\ i \in read => i \in CurrentlyUp
      BY <1>0 DEF MonitorInv, CurrentlyUp, Monitored, Up
    <2>2. Up(i)' <=> Up(i)
      BY <1>1 DEF Up
    <2>6. /\ "overrun" \in excuse'[i] <=> "overrun" \in excuse[i]
          /\ ~Up(i) => excuse'[i] = excuse[i]
          /\ i \in CurrentlyUp => i \in read \/ "unread" \in excuse'[i]
      BY <1>1, <2>1
    <2>3. InOrder(i)'
      BY <1>1, <2>6, <2>1, <2>2 DEF InOrder
    <2>4. \A b : Pending(i, b)' <=> Pending(i, b)
      BY <1>1 DEF Pending
    <2>5. receiver.open => Explained(i)'
      BY <1>1, <1>7, <2>1, <2>2, <2>4, <2>6 DEF Explained, Monitored, ShouldProcess
    <2> QED
      BY <2>3, <2>5
  <1> QED
    BY <1>1, <1>8, <1>9, <1>10 DEF MonitorInv

LEMMA TakeStep == ASSUME MonitorInv, TakeMessage PROVE MonitorInv'
  <1> DEFINE q == netlink.queue
  <1>1. /\ task.pc = "wait" /\ q # <<>> /\ UNCHANGED <<link, events, receiver, excuse>>
        /\ task' = [task EXCEPT !.pc = "handle", !.msg = Head(q)]
        /\ netlink' = [netlink EXCEPT !.queue = Tail(q)]
        /\ {"pc", "msg", "out"} \subseteq DOMAIN task /\ {"connected", "queue"} \subseteq DOMAIN netlink
        /\ IsSeq(q) /\ \A p \in 1 .. Len(q) : q[p].type \in MessageTypes
        /\ task.out = <<>>
    BY DEF TakeMessage, MonitorInv, MonitorShape, Between
  <1>2. /\ task'.pc = "handle" /\ task'.msg = Head(q) /\ task'.out = task.out
        /\ {"pc", "msg", "out"} \subseteq DOMAIN task'
        /\ netlink'.queue = Tail(q) /\ netlink'.connected = netlink.connected
        /\ {"connected", "queue"} \subseteq DOMAIN netlink'
    BY <1>1
  <1>3. /\ IsSeq(Tail(q)) /\ Head(q).type \in MessageTypes
        /\ \A p \in 1 .. Len(Tail(q)) : Tail(q)[p].type \in MessageTypes
    <2>1. /\ IsSeq(Tail(q)) /\ Head(q) = q[1] /\ Len(q) \in Nat \ {0}
          /\ Len(Tail(q)) = Len(q) - 1
          /\ \A k \in 1 .. Len(Tail(q)) : Tail(q)[k] = q[k + 1]
      BY <1>1, SequenceTail
    <2>2. 1 \in 1 .. Len(q) /\ \A k \in 1 .. Len(Tail(q)) : k + 1 \in 1 .. Len(q)
      BY <2>1
    <2> QED
      BY <1>1, <2>1, <2>2
  <1>4. ASSUME NEW i
        PROVE  /\ \A b : Awaits(q, i, b) <=> Kind(Head(q), i) = b \/ Awaits(Tail(q), i, b)
               /\ \A a, b : Followed(q, i, a, b) =>
                    /\ Followed(Tail(q), i, a, b)
                    /\ Kind(Head(q), i) = a => Awaits(Tail(q), i, b)
    BY <1>1, QueueRead
  <1>5. MonitorShape'
    BY <1>1, <1>2, <1>3 DEF MonitorInv, MonitorShape
  <1>6. Between'
    BY <1>1, <1>2 DEF Between
  <1>7. ASSUME NEW i \in Ifaces PROVE InOrder(i)' /\ (receiver.open => Explained(i)')
    <2>1. InOrder(i) /\ (receiver.open => Explained(i))
      BY DEF MonitorInv
    <2>2. Up(i)' <=> Up(i)
      BY <1>1 DEF Up
    <2>3. InOrder(i)'
      BY <1>1, <1>2, <1>4, <2>1, <2>2 DEF InOrder
    <2>4. \A b : Pending(i, b)' <=> Pending(i, b)
      BY <1>1, <1>2, <1>4 DEF Pending
    <2>5. WillSee(i)' <=> WillSee(i)
      BY <1>1, <1>2 DEF WillSee
    <2>6. receiver.open => Explained(i)'
      BY <1>1, <1>2, <2>1, <2>2, <2>4, <2>5 DEF Explained, Monitored, ShouldProcess
    <2> QED
      BY <2>3, <2>6
  <1> QED
    BY <1>1, <1>5, <1>6, <1>7 DEF MonitorInv

(* Moving an event along, into the channel or out of it, changes nothing   *)
(* of what the consumer will think.                                        *)
LEMMA EventsMove ==
    ASSUME MonitorInv, UNCHANGED <<link, netlink, excuse>>,
           {"pc", "msg", "out"} \subseteq DOMAIN task', {"open", "up"} \subseteq DOMAIN receiver',
           task'.pc = task.pc, task'.msg = task.msg, IsSeq(task'.out), IsSeq(events'),
           task'.out # <<>> => task.pc = "send",
           receiver'.open => receiver.open /\ \A i \in Ifaces : WillSee(i)' <=> WillSee(i)
    PROVE  MonitorInv'
  <1>1. MonitorShape'
    BY DEF MonitorInv, MonitorShape
  <1>2. Between'
    BY DEF MonitorInv, Between
  <1>3. ASSUME NEW i \in Ifaces PROVE InOrder(i)' /\ (receiver'.open => Explained(i)')
    <2>1. InOrder(i) /\ (receiver.open => Explained(i))
      BY DEF MonitorInv
    <2>2. Up(i)' <=> Up(i)
      BY DEF Up
    <2>3. \A b : Pending(i, b)' <=> Pending(i, b)
      BY DEF Pending
    <2>4. InOrder(i)'
      BY <2>1, <2>2 DEF InOrder
    <2>5. receiver'.open => Explained(i)'
      BY <2>1, <2>2, <2>3 DEF Explained, Monitored, ShouldProcess
    <2> QED
      BY <2>4, <2>5
  <1> QED
    BY <1>1, <1>2, <1>3 DEF MonitorInv

LEMMA SendStep == ASSUME MonitorInv, SendEvent PROVE MonitorInv'
  <1> DEFINE out == task.out
             e == Head(out)
  <1>1. /\ task.pc = "send" /\ out # <<>> /\ UNCHANGED <<link, netlink, receiver, excuse>>
        /\ (receiver.open /\ events' = Append(events, e)) \/ (~receiver.open /\ UNCHANGED events)
        /\ task' = [task EXCEPT !.out = Tail(out)]
        /\ {"pc", "msg", "out"} \subseteq DOMAIN task /\ {"open", "up"} \subseteq DOMAIN receiver
        /\ IsSeq(out) /\ IsSeq(events)
    BY DEF SendEvent, MonitorInv, MonitorShape
  <1>2. /\ task'.pc = task.pc /\ task'.msg = task.msg /\ task'.out = Tail(out)
        /\ {"pc", "msg", "out"} \subseteq DOMAIN task'
    BY <1>1
  <1>3. IsSeq(Tail(out)) /\ IsSeq(events')
    <2>1. IsSeq(Tail(out)) /\ IsSeq(Append(events, e))
      BY <1>1, SequenceTail, SequenceAppend, Zenon
    <2> QED
      BY <1>1, <2>1
  <1>4. ASSUME receiver.open, NEW i PROVE WillSee(i)' <=> WillSee(i)
    <2> DEFINE b == i \in receiver.up
               c == Carry(b, events, i)
    <2>1. c \in BOOLEAN /\ b \in BOOLEAN
      BY DEF Carry
    <2>2. WillSee(i) <=> Carry(Told(c, e, i), Tail(out), i)
      <3>1. WillSee(i) <=> Carry(c, out, i)
        BY DEF WillSee
      <3> HIDE DEF c
      <3> QED
        BY <1>1, <2>1, <3>1, CarryTail
    <2>3. Carry(b, Append(events, e), i) <=> Told(c, e, i)
      BY <1>1, <2>1, CarryAppend
    <2>4. WillSee(i)' <=> Carry(Carry(b, Append(events, e), i), Tail(out), i)
      BY <1>1, <1>2, <1>4 DEF WillSee
    <2> HIDE DEF c, b, e
    <2> QED
      BY <2>2, <2>3, <2>4 DEF Carry
  <1> QED
    BY <1>1, <1>2, <1>3, <1>4, EventsMove

LEMMA ReceiverStep == ASSUME MonitorInv, Receive \/ DropReceiver PROVE MonitorInv'
  <1>1. /\ UNCHANGED <<link, netlink, task, excuse>> /\ receiver.open
        /\ {"pc", "msg", "out"} \subseteq DOMAIN task /\ {"open", "up"} \subseteq DOMAIN receiver
        /\ IsSeq(task.out) /\ IsSeq(events)
        /\ task.out # <<>> => task.pc = "send"
    BY DEF Receive, DropReceiver, MonitorInv, MonitorShape, Between
  <1>2. CASE Receive
    <2> DEFINE e == Head(events)
    <2>1. /\ events # <<>> /\ events' = Tail(events)
          /\ receiver' = [receiver EXCEPT !.up = Picture(receiver.up, e)]
      BY <1>2 DEF Receive
    <2>2. /\ receiver'.open = receiver.open /\ receiver'.up = Picture(receiver.up, e)
          /\ {"open", "up"} \subseteq DOMAIN receiver'
      BY <1>1, <2>1
    <2>3. IsSeq(events')
      BY <1>1, <2>1, SequenceTail
    <2>4. ASSUME NEW i PROVE WillSee(i)' <=> WillSee(i)
      <3> DEFINE b == i \in receiver.up
      <3>1. i \in receiver'.up <=> Told(b, e, i)
        BY <2>2, PictureTold
      <3>2. Carry(b, events, i) <=> Carry(Told(b, e, i), Tail(events), i)
        <4>1. b \in BOOLEAN
          OBVIOUS
        <4> HIDE DEF b
        <4> QED
          BY <1>1, <2>1, <4>1, CarryTail
      <3>3. Carry(i \in receiver'.up, Tail(events), i) <=> Carry(b, events, i)
        BY <3>1, <3>2 DEF Carry
      <3> QED
        BY <1>1, <2>1, <3>3 DEF WillSee, Carry
    <2> QED
      BY <1>1, <2>2, <2>3, <2>4, EventsMove
  <1>3. CASE DropReceiver
    <2>1. receiver' = [receiver EXCEPT !.open = FALSE] /\ events' = <<>>
      BY <1>3 DEF DropReceiver
    <2>2. ~receiver'.open /\ {"open", "up"} \subseteq DOMAIN receiver' /\ IsSeq(events')
      BY <1>1, <2>1, Sequences1
    <2> QED
      BY <1>1, <2>2, EventsMove
  <1> QED
    BY <1>2, <1>3

(* A change of link i, announced to a subscriber by messages about i only. *)
(* If the link is up after it, either it was and nothing says it is gone,  *)
(* or the last message says it is up; if it is gone, likewise.             *)
LEMMA AnnounceStep ==
    ASSUME MonitorInv, NEW i \in Ifaces, NEW msgs, NEW l, Announce(i, msgs, l),
           {"exists", "up", "addrs", "route"} \subseteq DOMAIN l,
           l.exists \in BOOLEAN, l.up \in BOOLEAN, IsFiniteSet(l.addrs),
           About(msgs, i),
           l.exists /\ l.up => (Up(i) /\ ~Awaits(msgs, i, "gone")) \/ EndsWith(msgs, i, "up"),
           ~l.exists => (~link[i].exists /\ ~Awaits(msgs, i, "up")) \/ EndsWith(msgs, i, "gone")
    PROVE  MonitorInv'
  <1> DEFINE q == netlink.queue
             r == netlink'.queue
             told == netlink.connected /\ excuse' = excuse /\ r = q \o msgs
  <1>1. /\ UNCHANGED <<task, events, receiver>>
        /\ link' = [link EXCEPT ![i] = l]
        /\ \/ /\ netlink.connected /\ netlink' = [netlink EXCEPT !.queue = q \o msgs]
              /\ excuse' = excuse
           \/ /\ netlink.connected /\ netlink' = netlink
              /\ excuse' = [excuse EXCEPT ![i] = @ \cup {"missed", "overrun"}]
           \/ /\ ~netlink.connected /\ netlink' = netlink
              /\ excuse' = [excuse EXCEPT ![i] = @ \cup {"missed"}]
        /\ DOMAIN link = Ifaces /\ {"connected", "queue"} \subseteq DOMAIN netlink
        /\ DOMAIN excuse = Ifaces /\ IsSeq(q)
    BY DEF Announce, MonitorInv, MonitorShape
  <1>2. /\ netlink'.connected = netlink.connected /\ {"connected", "queue"} \subseteq DOMAIN netlink'
        /\ told => netlink.connected /\ r = q \o msgs /\ excuse'[i] = excuse[i]
        /\ ~told => r = q /\ "missed" \in excuse'[i] /\ (netlink.connected => "overrun" \in excuse'[i])
        /\ DOMAIN link' = Ifaces /\ DOMAIN excuse' = Ifaces
        /\ link'[i] = l /\ \A j \in Ifaces \ {i} : link'[j] = link[j] /\ excuse'[j] = excuse[j]
    BY <1>1
  <1> HIDE DEF told
  <1>3. IsSeq(r) /\ \A p \in 1 .. Len(r) : r[p].type \in MessageTypes
    <2>1. CASE ~told
      BY <1>1, <1>2, <2>1 DEF MonitorInv, MonitorShape
    <2>2. CASE told
      <3> DEFINE u == q \o msgs
      <3>1. Joined(u, q, msgs)
        <4>1. IsSeq(q) /\ IsSeq(msgs)
          BY <1>1 DEF About
        <4> HIDE DEF q
        <4> QED
          BY <4>1, SequenceConcat, Zenon
      <3>2. \A p \in 1 .. Len(q) : q[p].type \in MessageTypes
        BY DEF MonitorInv, MonitorShape
      <3> HIDE DEF u, q
      <3>3. ASSUME NEW p \in 1 .. Len(u) PROVE u[p].type \in MessageTypes
        <4> USE <3>1 DEF Joined, About
        <4>1. CASE p <= Len(q)
          BY <3>2, <4>1
        <4>2. CASE p > Len(q)
          <5>1. p - Len(q) \in 1 .. Len(msgs) /\ Len(q) + (p - Len(q)) = p
            BY <4>2
          <5> QED
            BY <5>1
        <4> QED
          BY <4>1, <4>2
      <3> QED
        BY <1>2, <2>2, <3>1, <3>3 DEF u, Joined
    <2> QED
      BY <2>1, <2>2
  <1>4. MonitorShape'
    BY <1>1, <1>2, <1>3 DEF MonitorInv, MonitorShape
  <1>5. Between'
    BY <1>1, <1>2 DEF MonitorInv, Between
  <1>6. ASSUME NEW j PROVE WillSee(j)' <=> WillSee(j)
    BY <1>1 DEF WillSee
  <1>7. ASSUME NEW j, told
        PROVE  /\ \A b : Awaits(r, j, b) <=> Awaits(q, j, b) \/ Awaits(msgs, j, b)
               /\ \A a, b : a # b /\ (\/ Followed(q, j, a, b) /\ ~Awaits(msgs, j, a)
                                      \/ EndsWith(msgs, j, b)) => Followed(r, j, a, b)
               /\ \A b : EndsWith(msgs, j, b) => Awaits(msgs, j, b)
    <2>1. r = q \o msgs
      BY <1>2, <1>7
    <2> HIDE DEF r, q
    <2> QED
      BY <1>1, <2>1, QueueGrows DEF q, About
  <1> HIDE DEF q, r
  <1>8. ASSUME NEW j \in Ifaces, j # i PROVE InOrder(j)' /\ (receiver.open => Explained(j)')
    <2>1. InOrder(j) /\ (receiver.open => Explained(j))
      BY DEF MonitorInv
    <2>2. /\ link'[j] = link[j] /\ excuse'[j] = excuse[j] /\ (Up(j)' <=> Up(j))
      BY <1>2, <1>8 DEF Up
    <2>3. \A b \in {"up", "gone"} : ~Awaits(msgs, j, b)
      BY <1>8 DEF Awaits, About
    <2>4. /\ \A b \in {"up", "gone"} : Awaits(r, j, b) <=> Awaits(q, j, b)
          /\ Followed(q, j, "gone", "up") => Followed(r, j, "gone", "up")
          /\ Followed(q, j, "up", "gone") => Followed(r, j, "up", "gone")
      BY <1>2, <1>7, <2>3
    <2>5. InOrder(j)'
      BY <1>1, <1>2, <2>1, <2>2, <2>4 DEF InOrder, q, r
    <2>6. \A b \in {"up", "gone"} : Pending(j, b)' <=> Pending(j, b)
      BY <1>1, <2>4 DEF Pending, q, r
    <2>7. receiver.open => Explained(j)'
      BY <1>1, <1>2, <1>6, <2>1, <2>2, <2>6 DEF Explained, Monitored, ShouldProcess
    <2> QED
      BY <2>5, <2>7
  <1>9. InOrder(i)' /\ (receiver.open => Explained(i)')
    <2>1. InOrder(i) /\ (receiver.open => Explained(i))
      BY DEF MonitorInv
    <2>2. Up(i)' <=> l.exists /\ l.up
      BY <1>2 DEF Up
    <2>3. CASE ~told
      <3>1. /\ "missed" \in excuse'[i] /\ r = q
            /\ netlink'.connected => "overrun" \in excuse'[i]
        BY <1>2, <2>3
      <3>2. InOrder(i)'
        BY <3>1 DEF InOrder
      <3>3. receiver.open => Explained(i)'
        BY <1>6, <2>1, <3>1 DEF Explained, Monitored, ShouldProcess
      <3> QED
        BY <3>2, <3>3
    <2>4. CASE told
      <3>1. netlink'.connected /\ netlink.connected /\ excuse'[i] = excuse[i] /\ link'[i] = l
        BY <1>2, <2>4
      <3>2. \A b : Awaits(q, i, b) => Awaits(r, i, b)
        BY <1>7, <2>4
      <3>3. InOrder(i)'
        <4>1. ASSUME l.exists, l.up, "overrun" \notin excuse[i]
              PROVE  /\ Followed(r, i, "gone", "up")
                     /\ task.pc = "handle" /\ Kind(task.msg, i) = "gone" => Awaits(r, i, "up")
          <5>1. CASE Up(i) /\ ~Awaits(msgs, i, "gone")
            BY <1>7, <2>1, <2>4, <3>1, <3>2, <4>1, <5>1 DEF InOrder, q
          <5>2. CASE EndsWith(msgs, i, "up")
            BY <1>7, <2>4, <5>2
          <5> QED
            BY <4>1, <5>1, <5>2
        <4>2. ASSUME ~l.exists, "missed" \notin excuse[i]
              PROVE  /\ Followed(r, i, "up", "gone")
                     /\ task.pc = "handle" /\ Kind(task.msg, i) = "up" => Awaits(r, i, "gone")
          <5>1. CASE ~link[i].exists /\ ~Awaits(msgs, i, "up")
            BY <1>7, <2>1, <2>4, <3>2, <4>2, <5>1 DEF InOrder, q
          <5>2. CASE EndsWith(msgs, i, "gone")
            BY <1>7, <2>4, <5>2
          <5> QED
            BY <4>2, <5>1, <5>2
        <4> QED
          BY <1>1, <2>2, <3>1, <4>1, <4>2 DEF InOrder, r
      <3>4. \A b : /\ Pending(i, b) => Pending(i, b)'
                   /\ EndsWith(msgs, i, b) => Pending(i, b)'
        BY <1>1, <1>7, <2>4, <3>2 DEF Pending, q, r
      <3>5. receiver.open => Explained(i)'
        BY <1>1, <1>6, <2>1, <2>2, <3>1, <3>4 DEF Explained, Monitored, ShouldProcess
      <3> QED
        BY <3>3, <3>5
    <2> QED
      BY <2>3, <2>4
  <1> QED
    BY <1>1, <1>4, <1>5, <1>8, <1>9 DEF MonitorInv

(* The messages of the kernel's steps.                                     *)
LEMMA OneMessage ==
    ASSUME NEW m, m.type \in MessageTypes, NEW i, m.iface = i
    PROVE  /\ About(<<m>>, i)
           /\ \A b : (Awaits(<<m>>, i, b) <=> Kind(m, i) = b) /\ (EndsWith(<<m>>, i, b) <=> Kind(m, i) = b)
  <1> DEFINE s == <<m>>
  <1>1. IsSeq(s) /\ Len(s) = 1 /\ s[1] = m /\ s # <<>>
    BY Sequences1
  <1> HIDE DEF s
  <1>2. \A p \in 1 .. Len(s) : s[p] = m
    BY <1>1
  <1>3. \A j \in Ifaces \ {i} : Kind(m, j) = "other"
    BY DEF Kind
  <1>4. \A b : (Awaits(s, i, b) <=> Kind(m, i) = b) /\ (EndsWith(s, i, b) <=> Kind(m, i) = b)
    BY <1>1 DEF Awaits, EndsWith
  <1>5. About(s, i)
    BY <1>1, <1>2, <1>3 DEF About
  <1> QED
    BY <1>4, <1>5, Zenon DEF s

LEMMA DeletionMessages ==
    ASSUME NEW i, NEW addrs, IsFiniteSet(addrs)
    PROVE  LET msgs == SetToSeq({[type |-> "DelAddress", iface |-> i, addr |-> a] : a \in addrs})
                         \o <<[type |-> "DelLink", iface |-> i]>>
           IN  About(msgs, i) /\ EndsWith(msgs, i, "gone")
  <1> DEFINE S == {[type |-> "DelAddress", iface |-> i, addr |-> a] : a \in addrs}
             s == SetToSeq(S)
             m == [type |-> "DelLink", iface |-> i]
             t == <<m>>
             u == s \o t
             n == Len(s)
  <1>1. IsFiniteSet(S)
    <2> DEFINE f == [a \in addrs |-> [type |-> "DelAddress", iface |-> i, addr |-> a]]
    <2>1. f \in Surjection(addrs, S)
      BY DEF Surjection
    <2> HIDE DEF f, S
    <2> QED
      BY <2>1, FS_Surjection
  <1>2. \A x \in S : x.type = "DelAddress"
    OBVIOUS
  <1> HIDE DEF S
  <1>3. IsSeq(s) /\ Range(s) = S
    BY <1>1, SetAsSequence
  <1> HIDE DEF s
  <1>4. \A p \in 1 .. n : s[p].type = "DelAddress"
    <2>1. s \in Seq(S)
      BY <1>3 DEF IsSeq
    <2>2. \A p \in 1 .. n : s[p] \in S
      BY <2>1
    <2> QED
      BY <1>2, <2>2
  <1>5. IsSeq(t) /\ Len(t) = 1 /\ t[1] = m
    BY Sequences1
  <1>6. m.type = "DelLink" /\ m.iface = i
    OBVIOUS
  <1> HIDE DEF t, m
  <1>7. /\ IsSeq(u) /\ n \in Nat /\ Len(t) = 1 /\ Len(u) = n + Len(t)
        /\ \A k \in 1 .. n : u[k] = s[k]
        /\ \A k \in 1 .. Len(t) : u[n + k] = t[k]
    <2>1. IsSeq(s) /\ IsSeq(t)
      BY <1>3, <1>5
    <2>2. Joined(u, s, t)
      BY <2>1, SequenceConcat, Zenon
    <2> HIDE DEF u
    <2> QED
      BY <1>5, <2>2 DEF Joined
  <1> HIDE DEF u, n
  <1>8. /\ Len(u) = n + 1 /\ u[n + 1] = m /\ \A k \in 1 .. n : u[k].type = "DelAddress"
    BY <1>4, <1>5, <1>7
  <1>9. ASSUME NEW p \in 1 .. Len(u) PROVE u[p].type = "DelAddress" \/ u[p] = m
    BY <1>7, <1>8
  <1>10. \A p \in 1 .. Len(u) : u[p].type \in MessageTypes
    BY <1>6, <1>9 DEF MessageTypes
  <1>11. \A p \in 1 .. Len(u) : \A j \in Ifaces \ {i} : Kind(u[p], j) = "other"
    BY <1>6, <1>9 DEF Kind
  <1>12. EndsWith(u, i, "gone")
    <2>1. u # <<>>
      BY <1>7, <1>8, Sequences1
    <2>2. Kind(m, i) = "gone"
      BY <1>6 DEF Kind
    <2> QED
      BY <1>8, <2>1, <2>2 DEF EndsWith
  <1>13. About(u, i)
    BY <1>7, <1>10, <1>11 DEF About
  <1> QED
    BY <1>12, <1>13, Zenon DEF u, s, t, S, m

LEMMA KernelStep ==
    ASSUME MonitorInv, NEW i \in Ifaces,
           LinkChanges(i) \/ LinkDeleted(i) \/ LinkCreated(i) \/ AddressAssigned(i) \/ AddressRemoved(i)
    PROVE  MonitorInv'
  <1>1. /\ {"exists", "up", "addrs", "route"} \subseteq DOMAIN link[i]
        /\ link[i].exists \in BOOLEAN /\ link[i].up \in BOOLEAN /\ IsFiniteSet(link[i].addrs)
    BY DEF MonitorInv, MonitorShape
  <1>2. CASE LinkChanges(i)
    <2> DEFINE m == [type |-> "NewLink", iface |-> i, up |-> ~link[i].up]
               l == [link[i] EXCEPT !.up = ~link[i].up]
    <2>1. Announce(i, <<m>>, l) /\ link[i].exists
      BY <1>2 DEF LinkChanges
    <2>2. /\ m.type \in MessageTypes /\ m.iface = i /\ Kind(m, i) = IF ~link[i].up THEN "up" ELSE "other"
      BY DEF MessageTypes, Kind
    <2>3. /\ {"exists", "up", "addrs", "route"} \subseteq DOMAIN l
          /\ l.exists = link[i].exists /\ l.up = ~link[i].up /\ l.addrs = link[i].addrs
      BY <1>1
    <2> HIDE DEF m, l
    <2>4. l.up \in BOOLEAN /\ l.exists \in BOOLEAN /\ l.exists /\ (l.up => ~link[i].up)
      BY <1>1, <2>1, <2>3
    <2>5. l.exists /\ l.up => EndsWith(<<m>>, i, "up")
      BY <2>2, <2>4, OneMessage
    <2>6. About(<<m>>, i)
      BY <2>2, OneMessage, Zenon
    <2>7. IsFiniteSet(l.addrs)
      BY <1>1, <2>3
    <2> QED
      BY <2>1, <2>3, <2>4, <2>5, <2>6, <2>7, AnnounceStep
  <1>3. CASE LinkDeleted(i)
    <2> DEFINE msgs == SetToSeq({[type |-> "DelAddress", iface |-> i, addr |-> a] : a \in link[i].addrs})
                         \o <<[type |-> "DelLink", iface |-> i]>>
               l == [exists |-> FALSE, up |-> FALSE, addrs |-> {}, route |-> NoGateway]
    <2>1. Announce(i, msgs, l)
      BY <1>3 DEF LinkDeleted
    <2>2. About(msgs, i) /\ EndsWith(msgs, i, "gone")
      BY <1>1, DeletionMessages, Zenon
    <2>3. /\ {"exists", "up", "addrs", "route"} \subseteq DOMAIN l
          /\ l.exists = FALSE /\ l.up = FALSE /\ l.addrs = {}
      OBVIOUS
    <2> HIDE DEF msgs, l
    <2>4. IsFiniteSet(l.addrs) /\ l.exists \in BOOLEAN /\ l.up \in BOOLEAN
      BY <2>3, FS_EmptySet
    <2> QED
      BY <2>1, <2>2, <2>3, <2>4, AnnounceStep
  <1>4. CASE LinkCreated(i)
    <2>1. PICK up \in BOOLEAN :
            Announce(i, <<[type |-> "NewLink", iface |-> i, up |-> up]>>,
                     [exists |-> TRUE, up |-> up, addrs |-> {}, route |-> NoGateway])
      BY <1>4 DEF LinkCreated
    <2> DEFINE m == [type |-> "NewLink", iface |-> i, up |-> up]
               l == [exists |-> TRUE, up |-> up, addrs |-> {}, route |-> NoGateway]
    <2>2. m.type \in MessageTypes /\ m.iface = i /\ (up => Kind(m, i) = "up")
      BY DEF MessageTypes, Kind
    <2>3. /\ {"exists", "up", "addrs", "route"} \subseteq DOMAIN l
          /\ l.exists = TRUE /\ l.up = up /\ l.addrs = {}
      OBVIOUS
    <2>4. Announce(i, <<m>>, l)
      BY <2>1
    <2> HIDE DEF m, l
    <2>5. IsFiniteSet(l.addrs) /\ l.exists \in BOOLEAN /\ l.up \in BOOLEAN
      BY <2>3, FS_EmptySet
    <2>6. l.exists /\ l.up => EndsWith(<<m>>, i, "up")
      BY <2>2, <2>3, OneMessage
    <2>7. About(<<m>>, i)
      BY <2>2, OneMessage, Zenon
    <2> QED
      BY <2>3, <2>4, <2>5, <2>6, <2>7, AnnounceStep
  <1>5. ASSUME NEW m, NEW l, Announce(i, <<m>>, l), m.type \in {"NewAddress", "DelAddress"}, m.iface = i,
               {"exists", "up", "addrs", "route"} \subseteq DOMAIN l, IsFiniteSet(l.addrs),
               l.exists = link[i].exists, l.up = link[i].up
        PROVE  MonitorInv'
    <2>1. m.type \in MessageTypes /\ Kind(m, i) = "other"
      BY <1>5 DEF MessageTypes, Kind
    <2>2. ~Awaits(<<m>>, i, "up") /\ ~Awaits(<<m>>, i, "gone")
      <3>1. \A b : Awaits(<<m>>, i, b) <=> Kind(m, i) = b
        BY <1>5, <2>1, OneMessage, ZenonT(30)
      <3> QED
        BY <2>1, <3>1
    <2>3. l.exists /\ l.up => Up(i)
      BY <1>5 DEF Up
    <2>4. About(<<m>>, i)
      BY <1>5, <2>1, OneMessage, Zenon
    <2>5. l.exists \in BOOLEAN /\ l.up \in BOOLEAN
      BY <1>1, <1>5
    <2> QED
      BY <1>5, <2>2, <2>3, <2>4, <2>5, AnnounceStep
  <1>6. CASE AddressAssigned(i)
    <2>1. PICK a, gw : Announce(i, <<[type |-> "NewAddress", iface |-> i, addr |-> a]>>,
                                [link[i] EXCEPT !.addrs = link[i].addrs \cup {a}, !.route = gw])
      BY <1>6, Zenon DEF AddressAssigned
    <2> DEFINE m == [type |-> "NewAddress", iface |-> i, addr |-> a]
               l == [link[i] EXCEPT !.addrs = link[i].addrs \cup {a}, !.route = gw]
    <2>2. m.type = "NewAddress" /\ m.iface = i
      OBVIOUS
    <2>3. /\ {"exists", "up", "addrs", "route"} \subseteq DOMAIN l
          /\ l.exists = link[i].exists /\ l.up = link[i].up /\ l.addrs = link[i].addrs \cup {a}
      BY <1>1
    <2>4. Announce(i, <<m>>, l)
      BY <2>1
    <2> HIDE DEF m, l
    <2>5. IsFiniteSet(l.addrs)
      BY <1>1, <2>3, FS_AddElement
    <2> QED
      BY <1>5, <2>2, <2>3, <2>4, <2>5
  <1>7. CASE AddressRemoved(i)
    <2>1. PICK a : Announce(i, <<[type |-> "DelAddress", iface |-> i, addr |-> a]>>,
                            [link[i] EXCEPT !.addrs = link[i].addrs \ {a}])
      BY <1>7 DEF AddressRemoved
    <2> DEFINE m == [type |-> "DelAddress", iface |-> i, addr |-> a]
               l == [link[i] EXCEPT !.addrs = link[i].addrs \ {a}]
    <2>2. m.type = "DelAddress" /\ m.iface = i
      OBVIOUS
    <2>3. /\ {"exists", "up", "addrs", "route"} \subseteq DOMAIN l
          /\ l.exists = link[i].exists /\ l.up = link[i].up /\ l.addrs = link[i].addrs \ {a}
      BY <1>1
    <2>4. Announce(i, <<m>>, l)
      BY <2>1
    <2> HIDE DEF m, l
    <2>5. IsFiniteSet(l.addrs)
      BY <1>1, <2>3, FS_RemoveElement
    <2> QED
      BY <1>5, <2>2, <2>3, <2>4, <2>5
  <1> QED
    BY <1>2, <1>3, <1>4, <1>6, <1>7

LEMMA SocketStep == ASSUME MonitorInv, SocketLost PROVE MonitorInv'
  <1>1. /\ UNCHANGED <<link, task, events, receiver, excuse>>
        /\ netlink' = [netlink EXCEPT !.connected = FALSE]
        /\ {"connected", "queue"} \subseteq DOMAIN netlink
    BY DEF SocketLost, MonitorInv, MonitorShape
  <1>2. /\ netlink'.queue = netlink.queue /\ ~netlink'.connected
        /\ {"connected", "queue"} \subseteq DOMAIN netlink'
    BY <1>1
  <1>3. MonitorShape'
    BY <1>1, <1>2 DEF MonitorInv, MonitorShape
  <1>4. Between'
    BY <1>1, <1>2 DEF MonitorInv, Between
  <1>5. ASSUME NEW i \in Ifaces PROVE InOrder(i)' /\ (receiver.open => Explained(i)')
    <2>1. InOrder(i) /\ (receiver.open => Explained(i))
      BY DEF MonitorInv
    <2>2. (WillSee(i)' <=> WillSee(i)) /\ \A b : Pending(i, b)' <=> Pending(i, b)
      BY <1>1, <1>2 DEF WillSee, Pending
    <2>3. InOrder(i)'
      BY <1>1, <1>2, <2>1 DEF InOrder
    <2>4. receiver.open => Explained(i)'
      BY <1>1, <1>2, <2>1, <2>2 DEF Explained, Monitored, ShouldProcess
    <2> QED
      BY <2>3, <2>4
  <1> QED
    BY <1>1, <1>3, <1>4, <1>5 DEF MonitorInv

LEMMA MonitorNextKeeps == MonitorInv /\ [MonitorNext]_monitorVars => MonitorInv'
  <1> SUFFICES ASSUME MonitorInv, [MonitorNext]_monitorVars PROVE MonitorInv'
    OBVIOUS
  <1>1. Between
    BY DEF MonitorInv
  <1>2. CASE Connect
    BY <1>1, <1>2, PcMoves DEF Connect, Goes, Between
  <1>3. CASE Sent
    BY <1>1, <1>3, PcMoves DEF Sent, Goes
  <1>4. CASE StreamEnds \/ BackoffEnds \/ SeesCancel
    BY <1>1, <1>4, PcMoves DEF StreamEnds, BackoffEnds, SeesCancel, Goes, Between
  <1>5. CASE Stop \/ ClockTicks \/ UNCHANGED monitorVars
    BY <1>5, MonitorFrame DEF Stop, ClockTicks, monitorVars
  <1>6. ASSUME NEW i \in Ifaces \ Loopbacks,
               LinkChanges(i) \/ LinkDeleted(i) \/ LinkCreated(i) \/ AddressAssigned(i) \/ AddressRemoved(i)
        PROVE  MonitorInv'
    BY <1>6, KernelStep
  <1> QED
    BY <1>2, <1>3, <1>4, <1>5, <1>6, ScanStep, TakeStep, HandleStep, SendStep, ReceiverStep, SocketStep
       DEF MonitorNext, TaskSteps

LEMMA MonitorInitHolds == MonitorInit => MonitorInv
  <1> SUFFICES ASSUME MonitorInit PROVE MonitorInv
    OBVIOUS
  <1>1. /\ netlink = [connected |-> FALSE, queue |-> <<>>]
        /\ task = [pc |-> "start", msg |-> NoMsg, out |-> <<>>]
        /\ events = <<>> /\ receiver = [open |-> TRUE, up |-> {}]
        /\ excuse = [i \in Ifaces |-> {}]
        /\ link \in [Ifaces -> [exists : {TRUE}, up : BOOLEAN, addrs : {{}}, route : {NoGateway}]]
    BY DEF MonitorInit, NewTask
  <1>2. \A i \in Ifaces : /\ {"exists", "up", "addrs", "route"} \subseteq DOMAIN link[i]
                          /\ link[i].exists = TRUE /\ link[i].up \in BOOLEAN /\ link[i].addrs = {}
    BY <1>1
  <1>3. MonitorShape
    <2>1. \A i \in Ifaces : IsFiniteSet(link[i].addrs) /\ link[i].exists \in BOOLEAN
      BY <1>2, FS_EmptySet
    <2>2. /\ IsSeq(netlink.queue) /\ IsSeq(events) /\ IsSeq(task.out) /\ Len(netlink.queue) = 0
          /\ task.pc = "start" /\ DOMAIN link = Ifaces /\ DOMAIN excuse = Ifaces
          /\ {"connected", "queue"} \subseteq DOMAIN netlink
          /\ {"pc", "msg", "out"} \subseteq DOMAIN task
          /\ {"open", "up"} \subseteq DOMAIN receiver
      BY <1>1, Sequences1
    <2> QED
      BY <1>2, <2>1, <2>2 DEF MonitorShape
  <1>4. Between
    BY <1>1 DEF Between
  <1>5. ASSUME NEW i \in Ifaces PROVE InOrder(i) /\ Explained(i)
    <2>1. ~WillSee(i)
      <3>1. i \notin receiver.up /\ events = <<>> /\ task.out = <<>>
        BY <1>1
      <3> QED
        BY <3>1, Sequences1 DEF WillSee, Carry
    <2> QED
      BY <1>1, <1>2, <2>1 DEF InOrder, Explained
  <1> QED
    BY <1>3, <1>4, <1>5 DEF MonitorInv

(* Whatever the kernel does while the task subscribes, scans, queries,     *)
(* throttles and waits for room, whatever the dump of the scan leaves out, *)
(* and whenever the socket overruns or is lost: once everything has        *)
(* arrived, the consumer knows every link that is up and none that is      *)
(* deleted, but for what the throttle, a partial scan, an overrun or a gap *)
(* between connections kept from it.  For any number of links, any filter, *)
(* throttle and buffer size.                                               *)
THEOREM PictureHolds == MonitorSpec => []PictureIsExplained
  <1>1. MonitorInv => PictureIsExplained
    <2> SUFFICES ASSUME MonitorInv, Settled, NEW i \in Ifaces
                 PROVE  /\ i \in CurrentlyUp \ receiver.up =>
                             excuse[i] \cap {"InterfaceUp", "unread", "overrun"} # {}
                        /\ i \in receiver.up /\ ~link[i].exists =>
                             excuse[i] \cap {"InterfaceDown", "missed"} # {}
      BY DEF PictureIsExplained
    <2>1. /\ task.pc = "wait" /\ netlink.connected /\ netlink.queue = <<>>
          /\ receiver.open /\ events = <<>> /\ task.out = <<>>
      BY DEF Settled, MonitorInv, Between
    <2>2. WillSee(i) <=> i \in receiver.up
      BY <2>1, Sequences1 DEF WillSee, Carry
    <2>3. \A b : ~Pending(i, b)
      BY <2>1, Sequences1 DEF Pending, Awaits
    <2>4. Explained(i)
      BY <2>1 DEF MonitorInv
    <2> QED
      BY <2>1, <2>2, <2>3, <2>4 DEF Explained, CurrentlyUp, Monitored
  <1> QED
    BY <1>1, MonitorInitHolds, MonitorNextKeeps, PTL DEF MonitorSpec

=============================================================================

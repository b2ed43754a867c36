---------------------------------- MODULE Uci ----------------------------------
(***************************************************************************)
(* The UCI operations of openwrt/uci_ops.rs, as shell commands and over    *)
(* ubus (openwrt/ubus_client.rs), and what they do to the configuration.   *)
(* wireless is the sequence of its wifi-iface sections, firewall the       *)
(* network list of the wan zone, network the names of the interfaces that  *)
(* were added; each has a staged and a saved copy.  Quoting, comments, and *)
(* the list values and services no caller uses are left out.               *)
(***************************************************************************)
EXTENDS Naturals, Sequences, FiniteSets, SequencesExt

CONSTANT None                        \* an option that is not set

Configs == {"wireless", "network", "firewall"}
Anonymous == <<"anonymous">>
StaName(r) == <<"sta", r>>           \* format!("sta_{radio}")

NewSection(name) ==
    [name |-> name, device |-> None, mode |-> None, ssid |-> None, network |-> None,
     encryption |-> None, key |-> None]

-------------------------------------------------------------------------------
(* UciOp.                                                                  *)

Add(name, values)   == [op |-> "add", name |-> name, values |-> values]
Delete(name)        == [op |-> "delete", name |-> name]
AddInterface        == [op |-> "interface"]
AddList(value)      == [op |-> "addlist", value |-> value]
Commit(config)      == [op |-> "commit", config |-> config]
Shell(command, arg) == [op |-> "shell", command |-> command, arg |-> arg]

\* render_shell: the commands of an operation are numbered, 0 creates the section.
CommandsOf(op) ==
    CASE op.op = "add"       -> 0 .. Len(op.values)
      [] op.op = "interface" -> 0 .. 2              \* proto and metric
      [] OTHER               -> {0}

-------------------------------------------------------------------------------
(* The shell loops that grep in `uci show wireless`.  It prints type,      *)
(* device, mode, ssid, network, encryption and key of a section, a line    *)
(* each.  An anonymous section is printed as @wifi-iface[n], so each of    *)
(* its lines contains "wifi-iface"; of a named one only the first does.    *)
(* A loop deletes its target once per line that is listed: a name, or      *)
(* whatever has moved to the index by then.                                *)

Without(w, name) == SelectSeq(w, LAMBDA s : s.name # name)

DropAt(w, name, n, times) ==
    IF times = 0 THEN w
    ELSE IF name # Anonymous THEN Without(w, name)
    ELSE IF n > Len(w) THEN w
    ELSE SubSeq(w, 1, n - 1) \o SubSeq(w, n + times, Len(w))

DeleteListed(wireless, times) ==
    LET left[n \in 0 .. Len(wireless)] ==
            IF n = 0 THEN wireless ELSE DropAt(left[n - 1], wireless[n].name, n, times[n])
    IN  left[Len(wireless)]

Listed(wireless, anonymous, named) ==
    [n \in 1 .. Len(wireless) |-> IF wireless[n].name = Anonymous THEN anonymous[n] ELSE named[n]]

One(b) == IF b THEN 1 ELSE 0

\* cleanup_stale_stas_for_ssid: the line of the ssid and the one before it.
PurgeSsid(wireless, ssid) ==
    LET D == 1 .. Len(wireless)
    IN  DeleteListed(wireless, Listed(wireless, [n \in D |-> 2 * One(wireless[n].ssid = ssid)], [n \in D |-> 0]))

\* build_disconnect_ops: lines that say both wifi-iface and mode='sta'.
PurgeStas(wireless) ==
    LET D == 1 .. Len(wireless)
    IN  DeleteListed(wireless, Listed(wireless, [n \in D |-> One(wireless[n].mode = "sta")], [n \in D |-> 0]))

\* build_cleanup_ops: for an SSID of two stations, the line of the ssid and the
\* five before it, which reach two lines into the section before; the first
\* line that is listed is spared.
Dedupe(wireless) ==
    LET stas(ssid) == {n \in 1 .. Len(wireless) : wireless[n].mode = "sta" /\ wireless[n].ssid = ssid}
        twice == {s.ssid : s \in {t \in Range(wireless) : Cardinality(stas(t.ssid)) > 1}}
        DropOthers(w, ssid) ==
            LET D == 1 .. Len(w)
                of(n) == n \in D /\ w[n].ssid = ssid
                lines == Listed(w, [n \in D |-> 4 * One(of(n)) + 2 * One(of(n + 1))], [n \in D |-> One(of(n))])
                first == CHOOSE n \in D : lines[n] > 0 /\ \A k \in 1 .. n - 1 : lines[k] = 0
            IN  IF \E n \in D : of(n) THEN DeleteListed(w, [lines EXCEPT ![first] = @ - 1]) ELSE w
    IN  FoldLeft(DropOthers, wireless, SetToSeq(twice))

-------------------------------------------------------------------------------
(* The effect of an operation on the staged configuration.                 *)

Staged(conf, config, value) == [conf EXCEPT ![config].staged = value]

Committed(conf, config) == [conf EXCEPT ![config].saved = conf[config].staged]

Has(wireless, name) == \E s \in Range(wireless) : s.name = name

\* The section with the values written, but for the commands that failed.
Written(s, values, failed) ==
    [o \in DOMAIN s |-> LET by == {i \in DOMAIN values \ failed : values[i][1] = o}
                        IN  IF by = {} THEN s[o] ELSE values[CHOOSE i \in by : TRUE][2]]

\* `uci set` of a section that is there keeps its options; without a section it fails.
AddSection(w, op, failed) ==
    IF Has(w, op.name)
    THEN [i \in 1 .. Len(w) |-> IF w[i].name = op.name THEN Written(w[i], op.values, failed) ELSE w[i]]
    ELSE IF 0 \in failed THEN w ELSE Append(w, Written(NewSection(op.name), op.values, failed))

\* execute_shell, for one operation: a failed command does not stop the next one.
ShellEffect(conf, op, failed) ==
    LET w == conf["wireless"].staged
    IN  IF op.op = "add" THEN Staged(conf, "wireless", AddSection(w, op, failed))
        ELSE IF 0 \in failed THEN conf
        ELSE CASE op.op = "delete"    -> Staged(conf, "wireless", Without(w, op.name))
               [] op.op = "interface" -> Staged(conf, "network", conf["network"].staged \cup {<<"wwan">>})
               [] op.op = "addlist"   -> Staged(conf, "firewall", Append(conf["firewall"].staged, op.value))
               [] op.op = "commit"    -> Committed(conf, op.config)
               [] op.op = "shell"     ->
               CASE op.command = "purge ssid" -> Staged(conf, "wireless", PurgeSsid(w, op.arg))
                 [] op.command = "purge stas" -> Staged(conf, "wireless", PurgeStas(w))
                 [] op.command = "dedupe"     -> Staged(conf, "wireless", Dedupe(w))
                 [] OTHER                     -> conf

\* execute_ubus: uci.add is called without the name of the section, a list
\* option is set to the one value, shell commands are skipped.
UbusEffect(conf, op) ==
    CASE op.op = "add"       -> Staged(conf, "wireless", Append(conf["wireless"].staged,
                                                                Written(NewSection(Anonymous), op.values, {})))
      [] op.op = "interface" -> Staged(conf, "network", conf["network"].staged \cup {Anonymous})
      [] op.op = "addlist"   -> Staged(conf, "firewall", <<op.value>>)
      [] op.op = "shell"     -> conf
      [] OTHER               -> ShellEffect(conf, op, {})
===============================================================================

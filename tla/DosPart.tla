------------------------------ MODULE DosPart ------------------------------
(***************************************************************************)
(* The partition libraries for ATA and SCSI disks (dosPartLibAta.c and     *)
(* dosPartLibScsi.c): walking through the chain of extended partition      *)
(* tables, mounting what is found, and showing it.                         *)
(*                                                                         *)
(* dosPartParse and dosPartShow call themselves for every extended         *)
(* partition and keep their position in static variables, which the calls  *)
(* of all tasks share.  A step is one sector read, one table entry or one  *)
(* partition mounted.  The parse and show routines of the two libraries    *)
(* are copies of each other and differ in how a sector is read.            *)
(***************************************************************************)
EXTENDS Integers, Sequences, SequencesExt, FiniteSets

CONSTANTS
    Callers,            \* the tasks that call the libraries
    Devices,            \* Devices[lib]: the disks of "ata" and "scsi", in order
    disk,               \* disk[d]: the tables on disk d, by sector
    heads, sectors,     \* geometry of the ATA disks
    MaxCalls            \* bound on the calls of a behaviour

VARIABLES
    st,         \* st[lib][fn]: the statics of parse and show in each library
    task,       \* task[t]: what t is doing
    shown,      \* the partitions printed by dosPartShow, by disk
    mounted,    \* the block devices that carry a file system
    left        \* calls that may still be made

dpVars == <<st, task, shown, mounted, left>>

Statics == [level |-> 0, ext |-> 0, cur |-> 0]
NoTask == [at |-> "idle", lib |-> "none", fn |-> "none", dev |-> 0, stack |-> <<>>,
           list |-> <<>>, ret |-> "none", clean |-> TRUE]
Dev(t) == Devices[task[t].lib][task[t].dev]
St(t) == st[task[t].lib][task[t].fn]

(***************************************************************************)
(* Reading a sector.                                                       *)
(***************************************************************************)
\* The cylinder is a UINT16, the head and the sector are UINT8.
Chs(lba) ==
    LET n == lba % (heads * sectors) IN
    [cylinder |-> (lba \div (heads * sectors)) % 65536, head |-> (n \div sectors) % 256,
     sector |-> ((n % sectors) + 1) % 256]

\* ataRawio
SectorAt(c) == (c.cylinder * heads + c.head) * sectors + c.sector - 1

\* The table in the sector; none if the sector has not the signature.
dosPartRdLbaAta(d, lba) ==
    LET at == SectorAt(Chs(lba)) IN IF at \in DOMAIN disk[d] THEN {disk[d][at]} ELSE {}

\* READ or READ_EXT: the whole block number is in the command.
dosPartRdLbaScsi(d, lba) == IF lba \in DOMAIN disk[d] THEN {disk[d][lba]} ELSE {}

ReadTable(t, lba) ==
    IF task[t].lib = "ata" THEN dosPartRdLbaAta(Dev(t), lba) ELSE dosPartRdLbaScsi(Dev(t), lba)

(***************************************************************************)
(* Table entries.                                                          *)
(***************************************************************************)
IsExt(e) == e.type = "ext"

\* A bootable partition goes to the front, with its offset as it is.
AddBoot(list, e) == <<[off |-> e.off, n |-> e.n]>> \o list

\* The others are offset by the table they are in.
AddOther(list, e, cur) == Append(list, [off |-> e.off + cur, n |-> e.n])

Added(list, e, cur) ==
    IF e.type = "dos" /\ e.boot = "yes" THEN AddBoot(list, e)
    ELSE IF e.type = "dos" /\ e.boot = "no" THEN AddOther(list, e, cur)
    ELSE list

\* Mutant: every table is relative to the one before it.
Deeper_FromTable(s, e) ==
    IF s.level > 0 THEN [s EXCEPT !.cur = e.off + s.cur, !.level = @ + 1]
    ELSE [level |-> 1, ext |-> e.off, cur |-> e.off]

\* Tables are relative to the extended partition of the master boot record.
Deeper(s, e) ==
    IF s.level > 0 THEN [s EXCEPT !.cur = e.off + s.ext, !.level = @ + 1]
    ELSE [level |-> 1, ext |-> e.off, cur |-> e.off]

\* What dosPartShow prints of a table
Printed(t, tbl, cur) ==
    {[dev |-> Dev(t), off |-> tbl[i].off + cur, n |-> tbl[i].n] : i \in {i \in 1 .. 4 : tbl[i].type # "none"}}

(***************************************************************************)
(* The steps.                                                              *)
(***************************************************************************)
Call(t, lib, fn, dev) ==
    /\ task[t].at = "idle" /\ left > 0 /\ left' = left - 1
    /\ task' = [task EXCEPT ![t] = [NoTask EXCEPT !.at = "call", !.lib = lib, !.fn = fn, !.dev = dev]]
    /\ UNCHANGED <<st, shown, mounted>>

\* The head of dosPartParse and dosPartShow.  The buffer cannot be allocated or
\* the sector not be read if ~ok.
Enter(t, ok) ==
    LET s == IF St(t).level = 0 THEN Statics ELSE St(t)
        tbl == IF ok THEN ReadTable(t, s.cur) ELSE {}
    IN  /\ task[t].at = "call"
        /\ st' = [st EXCEPT ![task[t].lib][task[t].fn] = s]
        /\ IF tbl = {}
           THEN /\ task' = [task EXCEPT ![t].at = "return", ![t].ret = "error", ![t].clean = @ /\ ok]
                /\ UNCHANGED shown
           ELSE LET b == CHOOSE b \in tbl : TRUE IN
                /\ task' = [task EXCEPT ![t].at = "loop", ![t].stack = Append(@, [tbl |-> b, i |-> 1])]
                /\ shown' = IF task[t].fn = "show" THEN shown \cup Printed(t, b, s.cur) ELSE shown
        /\ UNCHANGED <<mounted, left>>

\* One turn of the loop over the four entries (of dosPartShow, the second).
\* The node of a partition cannot be allocated if ~ok.
Entry(t, ok) ==
    LET f == Last(task[t].stack)
        e == f.tbl[f.i]
        wants == task[t].fn = "parse" /\ e.type = "dos" /\ e.boot \in {"yes", "no"}
    IN  /\ task[t].at = "loop" /\ f.i <= 4
        /\ IF wants /\ ~ok
           THEN /\ task' = [task EXCEPT ![t].at = "return", ![t].ret = "error", ![t].clean = FALSE,
                                        ![t].stack = Front(@)]
                /\ UNCHANGED st
           ELSE /\ task' = [task EXCEPT ![t].at = IF IsExt(e) THEN "call" ELSE "loop",
                                        ![t].stack = Front(@) \o <<[f EXCEPT !.i = @ + 1]>>,
                                        ![t].list = IF wants THEN Added(@, e, St(t).cur) ELSE @]
                /\ st' = IF IsExt(e) THEN [st EXCEPT ![task[t].lib][task[t].fn] = Deeper(@, e)] ELSE st
        /\ UNCHANGED <<shown, mounted, left>>

EndOfTable(t) ==
    /\ task[t].at = "loop" /\ Last(task[t].stack).i = 5
    /\ task' = [task EXCEPT ![t].at = "return", ![t].ret = "ok", ![t].stack = Front(@)]
    /\ UNCHANGED <<st, shown, mounted, left>>

\* Back in the caller, which does not look at what a nested call returned.
Return(t) ==
    /\ task[t].at = "return" /\ task[t].stack # <<>>
    /\ st' = [st EXCEPT ![task[t].lib][task[t].fn].level = @ - 1]
    /\ task' = [task EXCEPT ![t].at = "loop"]
    /\ UNCHANGED <<shown, mounted, left>>

Finish(t) ==
    /\ task[t].at = "return" /\ task[t].stack = <<>>
    /\ task' = [task EXCEPT ![t] = IF @.fn = "show" \/ @.ret = "error" \/ @.list = <<>> THEN NoTask
                                   ELSE [@ EXCEPT !.at = "mount"]]
    /\ UNCHANGED <<st, shown, mounted, left>>

\* The next disk: dosPartMountScsi goes through all of them.
NextDisk(t) ==
    IF task[t].lib = "scsi" /\ task[t].dev < Len(Devices["scsi"])
    THEN [NoTask EXCEPT !.at = "call", !.lib = "scsi", !.fn = "parse", !.dev = task[t].dev + 1]
    ELSE NoTask

\* Without a block device the call ends; a file system that cannot be set up
\* is passed over.
Mount(t, created, inited) ==
    /\ task[t].at = "mount"
    /\ mounted' = IF created /\ inited
                  THEN mounted \cup {[dev |-> Dev(t), off |-> Head(task[t].list).off, n |-> Head(task[t].list).n]}
                  ELSE mounted
    /\ task' = [task EXCEPT ![t] = IF ~created THEN NoTask
                                   ELSE IF Len(@.list) = 1 THEN NextDisk(t)
                                   ELSE [@ EXCEPT !.list = Tail(@), !.clean = FALSE]]
    /\ UNCHANGED <<st, shown, left>>

\* One ATA drive, all SCSI disks from the first one on; one disk is shown.
dosPartMountAta(t)  == \E d \in DOMAIN Devices["ata"] : Call(t, "ata", "parse", d)
dosPartShowAta(t)   == \E d \in DOMAIN Devices["ata"] : Call(t, "ata", "show", d)
dosPartMountScsi(t) == Devices["scsi"] # <<>> /\ Call(t, "scsi", "parse", 1)
dosPartShowScsi(t)  == \E d \in DOMAIN Devices["scsi"] : Call(t, "scsi", "show", d)

DpInit ==
    /\ st = [lib \in {"ata", "scsi"} |-> [fn \in {"parse", "show"} |-> Statics]]
    /\ task = [t \in Callers |-> NoTask]
    /\ shown = {} /\ mounted = {} /\ left = MaxCalls

DpNext ==
    \E t \in Callers :
        \/ dosPartMountAta(t) \/ dosPartShowAta(t) \/ dosPartMountScsi(t) \/ dosPartShowScsi(t)
        \/ \E ok \in BOOLEAN : Enter(t, ok) \/ Entry(t, ok)
        \/ EndOfTable(t) \/ Return(t) \/ Finish(t)
        \/ \E created, inited \in BOOLEAN : Mount(t, created, inited)

(***************************************************************************)
(* What is on a disk: the partitions of the master boot record, and those  *)
(* of each extended table, which are relative to their table; the tables   *)
(* are relative to the extended partition.                                 *)
(***************************************************************************)
ExtOf(tbl) == {tbl[i].off : i \in {i \in 1 .. 4 : IsExt(tbl[i])}}
Start(d) == ExtOf(disk[d][0])
Tables(d) ==
    LET next(T) == {s + o : s \in Start(d), o \in UNION {ExtOf(disk[d][x]) : x \in T \cap DOMAIN disk[d]}}
        upTo[k \in 0 .. Cardinality(DOMAIN disk[d])] == IF k = 0 THEN Start(d) ELSE upTo[k - 1] \cup next(upTo[k - 1])
    IN  {0} \cup (upTo[Cardinality(DOMAIN disk[d])] \cap DOMAIN disk[d])
Entries(d, types) ==
    {[dev |-> d, off |-> x + disk[d][x][i].off, n |-> disk[d][x][i].n] :
        <<x, i>> \in {<<x, i>> \in Tables(d) \X (1 .. 4) : disk[d][x][i].type \in types}}

\* The layout that FDISK writes: only the master boot record has a bootable
\* partition, and an extended partition comes after the others of its table.
Conventional(d) ==
    \A x \in Tables(d), i \in 1 .. 4 :
        /\ disk[d][x][i].boot = "yes" => x = 0
        /\ IsExt(disk[d][x][i]) => \A j \in i + 1 .. 4 : disk[d][x][j].type = "none"

Truth ==
    [d \in DOMAIN disk |-> [dos |-> Entries(d, {"dos"}), all |-> Entries(d, {"dos", "ext", "other"}),
                           conventional |-> Conventional(d)]]

\* On disks laid out by FDISK the list that is mounted has exactly the DOS
\* partitions of the disk, at their absolute sectors, if every read succeeds,
\* and nothing else in any case, whatever calls went before and failed
\* (dosPartParse, dosPartMount); on every disk the sectors that dosPartShow
\* prints are right.
PartitionsExact ==
    /\ \A t \in Callers :
         task[t].at = "mount" /\ Truth[Dev(t)].conventional =>
            LET found == {[dev |-> Dev(t), off |-> p.off, n |-> p.n] : p \in ToSet(task[t].list)} IN
            /\ found \subseteq Truth[Dev(t)].dos
            /\ task[t].clean => found = Truth[Dev(t)].dos
    /\ \A m \in mounted : Truth[m.dev].conventional => m \in Truth[m.dev].dos
    /\ \A p \in shown : p \in Truth[p.dev].all
=============================================================================

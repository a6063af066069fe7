---------------------------- MODULE MCPrograms -----------------------------
(***************************************************************************)
(* mbuf chains, header compression, the partition libraries, the secrets   *)
(* of PPP and the demonstration programs.  They share no variable, so each *)
(* behaviour follows one of them and leaves the others as they start.      *)
(***************************************************************************)
EXTENDS Mbuf, VjCompress, DosPart, PppSecrets, Demos, TLC

\* DosPart.  d1: a bootable partition and three logical drives; d2: the
\* extended partition comes first; d3: the extended table is not there.
NoPart == [type |-> "none", boot |-> "no", off |-> 0, n |-> 0]
Part4(type, boot, off, n) == [type |-> type, boot |-> boot, off |-> off, n |-> n]
mcDisk ==
    [d1 |-> (0 :> <<Part4("other", "no", 1, 1), Part4("dos", "yes", 2, 3), Part4("ext", "no", 5, 10), NoPart>>
             @@ 5 :> <<Part4("dos", "no", 1, 2), Part4("ext", "no", 3, 3), NoPart, NoPart>>
             @@ 8 :> <<Part4("dos", "no", 1, 1), Part4("ext", "no", 6, 3), NoPart, NoPart>>
             @@ 11 :> <<Part4("dos", "no", 1, 3), NoPart, NoPart, NoPart>>),
     d2 |-> (0 :> <<Part4("ext", "no", 4, 4), Part4("dos", "no", 1, 3), NoPart, NoPart>>
             @@ 4 :> <<Part4("dos", "no", 1, 2), NoPart, NoPart, NoPart>>),
     d3 |-> (0 :> <<Part4("dos", "no", 1, 4), Part4("ext", "no", 7, 4), NoPart, NoPart>>)]
mcDevices == [ata |-> <<"d1">>, scsi |-> <<"d3", "d2", "d1">>]

\* PppSecrets.  The second secret is encrypted; @f can be read, @none cannot.
mcSecret(client, server, secret, addrs) == [client |-> client, server |-> server, secret |-> secret, addrs |-> addrs]
mcEntries ==
    <<mcSecret("joe", "us", "s1", <<"x">>), mcSecret("*", "us", "s2", <<"y", "-", "x">>), mcSecret("joe", "*", "", <<>>),
      mcSecret("*", "*", "@f", <<"z">>), mcSecret("joe", "us", "@none", <<"w">>)>>
mcSecrets == {mcEntries[1], mcEntries[2], mcEntries[5]}
mcFiles == {{}, {<<mcEntries[2], mcEntries[1]>>}, {<<mcEntries[4], mcEntries[5], mcEntries[3]>>}}
mcAtfile == "@f" :> {"s1"} @@ "@none" :> {}
mcCrypted == {<<"s2", "c2">>}

CONSTANTS c1, c2      \* the connections of VjCompress
mcConns == {c1, c2}
Interchangeable == Permutations(mcConns)

VARIABLE part

\* The parts that a behaviour does not follow start in one way only.
MCInit ==
    /\ part \in {"mbuf", "compress", "disk", "secrets", "demo"} /\ MbufInit /\ VjInit /\ DpInit /\ SecretsInit /\ DemoInit
    /\ part # "compress" => Len(comp.ring) = 1
    /\ part # "secrets" => authfile = {}
    /\ part # "demo" => prog = "msgQ"

MCNext ==
    /\ UNCHANGED part
    /\ \/ part = "mbuf" /\ MbufNext /\ UNCHANGED <<vjVars, dpVars, secretVars, demoVars>>
       \/ part = "compress" /\ VjNext /\ UNCHANGED <<mbVars, dpVars, secretVars, demoVars>>
       \/ part = "disk" /\ DpNext /\ UNCHANGED <<mbVars, vjVars, secretVars, demoVars>>
       \/ part = "demo" /\ DemoNext /\ UNCHANGED <<mbVars, vjVars, dpVars, secretVars>>
       \/ part = "secrets" /\ SecretsNext /\ UNCHANGED <<mbVars, vjVars, dpVars, demoVars>>

MCSpec == MCInit /\ [][MCNext]_<<part, mbVars, vjVars, dpVars, secretVars, demoVars>>
=============================================================================

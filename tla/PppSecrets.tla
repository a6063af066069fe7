---------------------------- MODULE PppSecrets -----------------------------
(***************************************************************************)
(* The secrets of PPP: the table of pppSecretLib.c, the secrets file, and  *)
(* the routines of auth.c that look secrets up to authenticate a peer and  *)
(* to keep the addresses it may use.                                       *)
(*                                                                         *)
(* An entry names a client and a server, "*" standing for every one.  The  *)
(* lines of the file are whole entries; names and secrets have no length.  *)
(* A routine is one step: other tasks change the table between calls.      *)
(***************************************************************************)
EXTENDS Integers, Sequences, SequencesExt, FiniteSets

CONSTANTS
    SecretEntries,  \* entries that may be added: client, server, secret, addrs
    AuthFiles,      \* contents of the secrets file; {} for no file, else {entries}
    Users,          \* names that peers give
    our_name, remote_name,
    Passwords,      \* passwords that peers give
    atfile,         \* atfile[s]: {the secret} in the file that s = "@..." names, or {}
    Crypted,        \* <<secret, passwd>> that the encryption hook accepts
    MaxSecrets,     \* bound on the table
    MaxLookups      \* bound on the attempts to authenticate

\* A file is a list of lines.
ASSUME SecretsAssumption == \A F \in AuthFiles : \A f \in F : f \in Seq(ToSet(f))

VARIABLES
    secrets,    \* the list at pppSecretHead
    authfile,   \* the file
    addresses,  \* ppp_if[unit]->addresses
    opts,       \* the protocols that check_auth_options leaves to negotiate
    grant,      \* the last success: client, passwd and the entries there were (history)
    lookups     \* attempts so far

secretVars == <<secrets, authfile, addresses, opts, grant, lookups>>

NONWILD_SERVER == 1
NONWILD_CLIENT == 2
ISWILD(w) == w = "*"
NotFound == [flag |-> -1, secret |-> "", addrs |-> <<>>]

\* An empty name in the question stands for every client or server.
Asked(e, client, server) ==
    /\ client = "" \/ client = e.client \/ ISWILD(e.client)
    /\ server = "" \/ server = e.server \/ ISWILD(e.server)

\* An entry may name the file that has its secret.
SecretOf(e) == IF e.secret \in DOMAIN atfile THEN atfile[e.secret] ELSE {e.secret}

\* got_flag keeps the client's bit of an entry before it.
Flag(e, got) ==
    LET c == IF ISWILD(e.client) THEN got ELSE NONWILD_CLIENT IN
    IF ISWILD(e.server) \/ c \in {NONWILD_SERVER, NONWILD_SERVER + NONWILD_CLIENT} THEN c ELSE c + NONWILD_SERVER

\* The entries of a list, with whether they answer the question.
Marked(q, client, server) == [i \in DOMAIN q |-> [e |-> q[i], asked |-> Asked(q[i], client, server)]]

\* One entry of the table; the first of the best ones stays.
FindTurn(s, x) ==
    LET got == Flag(x.e, s.got) IN
    IF ~x.asked THEN s
    ELSE IF got > s.best THEN [got |-> got, best |-> got, entry |-> {x.e}]
    ELSE [s EXCEPT !.got = got]

pppSecretFind(client, server) ==
    LET r == FoldLeft(FindTurn, [got |-> 0, best |-> -1, entry |-> {}], Marked(secrets, client, server))
    IN  IF r.entry = {} THEN NotFound
        ELSE LET e == CHOOSE e \in r.entry : TRUE IN
             IF SecretOf(e) = {} THEN NotFound
             ELSE [flag |-> r.best, secret |-> CHOOSE x \in SecretOf(e) : TRUE, addrs |-> e.addrs]

\* Mutant: the addresses of a worse entry stay in the list.
Better_KeepsAddrs(s, e, got) ==
    [flag |-> got, secret |-> CHOOSE x \in SecretOf(e) : TRUE, addrs |-> s.addrs \o e.addrs]

\* A better line replaces the secret and the addresses.
Better(s, e, got) == [flag |-> got, secret |-> CHOOSE x \in SecretOf(e) : TRUE, addrs |-> e.addrs]

\* The lines that name no readable secret are passed over.
ScanTurn(s, x) ==
    IF x.asked /\ Flag(x.e, 0) > s.flag /\ SecretOf(x.e) # {} THEN Better(s, x.e, Flag(x.e, 0)) ELSE s

scan_authfile(lines, client, server) == FoldLeft(ScanTurn, NotFound, Marked(lines, client, server))

InFile(client, server) ==
    IF authfile = {} THEN NotFound ELSE scan_authfile(CHOOSE f \in authfile : TRUE, client, server)

\* The table first, then the file.
Lookup(client, server) ==
    IF pppSecretFind(client, server).flag >= 0 THEN pppSecretFind(client, server) ELSE InFile(client, server)

Matches(r, passwd) == r.flag >= 0 /\ (r.secret = "" \/ passwd = r.secret \/ <<r.secret, passwd>> \in Crypted)

(***************************************************************************)
(* The table.                                                              *)
(***************************************************************************)
pppSecretAdd(e) ==
    /\ Len(secrets) < MaxSecrets /\ secrets' = <<e>> \o secrets
    /\ UNCHANGED <<authfile, addresses, opts, grant, lookups>>

\* The first entry that is equal in all three.
pppSecretDelete(client, server, secret) ==
    LET same == {i \in DOMAIN secrets : <<secrets[i].client, secrets[i].server, secrets[i].secret>> = <<client, server, secret>>} IN
    /\ same # {} /\ secrets' = RemoveAt(secrets, CHOOSE i \in same : \A j \in same : i <= j)
    /\ UNCHANGED <<authfile, addresses, opts, grant, lookups>>

(***************************************************************************)
(* auth.c.                                                                 *)
(***************************************************************************)
have_upap_secret == Lookup("", our_name).flag >= 0
have_chap_secret(client, server) == Lookup(client, server).flag >= 0
get_upap_passwd == Lookup(our_name, remote_name).flag >= 0

\* Only what there is a secret for is negotiated.  conf are the protocols that
\* the options require of the peer; if authentication is required and none is
\* named, either will do, and if none is left the unit ends.
check_auth_options(conf, required, uselogin) ==
    LET asked == IF required /\ conf = {} THEN {"upap", "chap"} ELSE conf
        want == {p \in asked : IF p = "upap" THEN uselogin \/ have_upap_secret ELSE have_chap_secret(remote_name, our_name)}
        allow == {p \in {"upap", "chap"} : IF p = "upap" THEN get_upap_passwd ELSE have_chap_secret(our_name, remote_name)}
    IN  /\ ~opts.checked /\ conf # {} => required
        /\ opts' = [checked |-> TRUE, want |-> want, allow |-> allow, login |-> uselogin, dead |-> required /\ want = {}]
        /\ UNCHANGED <<secrets, authfile, addresses, grant, lookups>>

Attempt ==
    /\ opts.checked /\ ~opts.dead /\ lookups < MaxLookups /\ lookups' = lookups + 1
    /\ UNCHANGED <<secrets, authfile, opts>>

Grant(client, passwd, addrs) ==
    /\ addresses' = addrs
    /\ grant' = [client |-> client, passwd |-> passwd, login |-> FALSE,
                 from |-> ToSet(secrets) \cup UNION {ToSet(f) : f \in authfile}]
Deny == UNCHANGED <<addresses, grant>>

\* If the secret of the table does not fit, the file is asked too.
check_passwd(user, passwd, loginOk) ==
    LET r == pppSecretFind(user, our_name)
        f == InFile(user, our_name)
    IN  /\ Attempt /\ "upap" \in opts.want
        /\ IF opts.login
           THEN IF loginOk THEN addresses' = <<>> /\ grant' = [client |-> user, passwd |-> passwd, login |-> TRUE, from |-> {}]
                ELSE Deny
           ELSE IF Matches(r, passwd) THEN Grant(user, passwd, r.addrs)
           ELSE IF Matches(f, passwd) THEN Grant(user, passwd, f.addrs)
           ELSE Deny

\* No name and no password: an entry with an empty secret.
NullOk(r) == r.flag >= NONWILD_CLIENT /\ r.secret = ""
null_login ==
    LET r == pppSecretFind("", our_name)
        f == InFile("", our_name)
    IN  /\ Attempt /\ "upap" \in opts.want
        /\ IF NullOk(r) THEN Grant("", "", r.addrs) ELSE IF NullOk(f) THEN Grant("", "", f.addrs) ELSE Deny

\* With save_addrs, for the peer's answer to our challenge; without, for ours.
get_secret(client, server, save_addrs) ==
    LET r == Lookup(client, server) IN
    /\ Attempt /\ "chap" \in IF save_addrs THEN opts.want ELSE opts.allow
    /\ IF r.flag >= 0 /\ save_addrs THEN Grant(client, r.secret, r.addrs) ELSE Deny

\* Without a list every address will do; "-" ends the list.
auth_ip_addr(addr) ==
    LET ends == {i \in DOMAIN addresses : addresses[i] = "-"} IN
    addresses = <<>> \/ \E i \in DOMAIN addresses : addresses[i] = addr /\ \A j \in ends : i < j

SecretsInit ==
    /\ secrets = <<>> /\ authfile \in AuthFiles /\ addresses = <<>>
    /\ opts = [checked |-> FALSE, want |-> {}, allow |-> {}, login |-> FALSE, dead |-> FALSE]
    /\ grant = [client |-> "", passwd |-> "", login |-> TRUE, from |-> {}] /\ lookups = 0

SecretsNext ==
    \/ \E e \in SecretEntries : pppSecretAdd(e) \/ pppSecretDelete(e.client, e.server, e.secret)
    \/ \E conf \in SUBSET {"upap", "chap"}, required, uselogin \in BOOLEAN :
           check_auth_options(conf, required, uselogin)
    \/ \E u \in Users, p \in Passwords, ok \in BOOLEAN : check_passwd(u, p, ok)
    \/ null_login
    \/ \E u \in Users : get_secret(u, our_name, TRUE) \/ get_secret(our_name, u, FALSE)

SecretsSpec == SecretsInit /\ [][SecretsNext]_secretVars

\* The addresses that a peer may use are those of one entry that names this
\* peer and whose secret is the one it was authenticated with, whatever
\* entries were tried before, were better or came and went since, and an
\* address of another entry is not allowed (check_passwd, null_login,
\* get_secret, scan_authfile, auth_ip_addr).
AddressesOfSecret ==
    ~grant.login =>
        \E e \in grant.from :
            /\ Asked(e, grant.client, our_name) /\ addresses = e.addrs
            /\ \E s \in SecretOf(e) : s \in {"", grant.passwd} \/ <<s, grant.passwd>> \in Crypted
            /\ \A o \in grant.from : \A a \in ToSet(o.addrs) \ ToSet(e.addrs) : e.addrs # <<>> => ~auth_ip_addr(a)
=============================================================================

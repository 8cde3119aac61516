----------------------------- MODULE Lifecycle -----------------------------
(***************************************************************************)
(* Starting and stopping the plugin (startLanGuard of src/index.ts): the   *)
(* configuration is checked (src/config.ts), the certificate authority and *)
(* the leaf are read or made (src/tls/), the listener walks to a free port *)
(* (src/proxy.ts), and from then on the settings page writes the           *)
(* configuration of the next start (src/store/preferences.ts).             *)
(*                                                                         *)
(* The process can die at any step, files are written one after the other  *)
(* and in place, and between two starts the machine's addresses, its free  *)
(* ports and the age of the certificates change.                           *)
(***************************************************************************)
EXTENDS Integers, FiniteSets

CONSTANTS
    MaxPort,     \* the last port, 65535 in the code
    DshPort,     \* DSH's own web server
    Attempts,    \* LISTEN_PORT_PROBE_ATTEMPTS
    Ports,       \* the ports that configurations name
    Addresses,   \* the addresses the machine may have
    Exposed,     \* the LAN address a profile may bind to
    None,        \* no file, no port, no key, no authority
    Torn,        \* a file whose writing began and never ended
    MaxEvents    \* bound: crashes, stops, changes of the world and the page

ASSUME LifecycleAssumption ==
    /\ MaxPort \in Nat /\ Attempts \in Nat /\ MaxEvents \in Nat
    /\ DshPort \in 1..MaxPort
    /\ Ports \subseteq 0..MaxPort
    /\ None # Torn /\ None \notin Nat /\ Torn \notin Nat

VARIABLES
    cfg,        \* the configuration on disk
    phase,      \* where the start is
    files,      \* the key and the certificate of the authority and the leaf
    mem,        \* what this start has read or made of them
    requested, next, refused,  \* the walk: first port, next one, those taken
    bound,      \* the port that is listened on
    addresses,  \* the machine's addresses
    taken,      \* ports other programs listen on
    made,       \* key pairs made, which are numbered
    trusted,    \* history: the authority that was served first
    cameUp,     \* history: whether a start came up
    events      \* spent, out of MaxEvents

disk == <<cfg, files>>
walk == <<requested, next, refused>>
world == <<addresses, taken>>
history == <<trusted, cameUp>>
vars == <<disk, phase, mem, walk, bound, world, made, history, events>>

----------------------------------------------------------------------------

Loopback == "127.0.0.1"
Everywhere == "0.0.0.0"

Configs ==
    [enabled : BOOLEAN, host : {Loopback, Everywhere, Exposed}, port : Ports,
     gate : BOOLEAN, tls : {"self-signed", "off"}, insecure : BOOLEAN]

NoFiles == [caKey |-> None, caCert |-> None, leafKey |-> None, leafCert |-> None]

Nothing == [ca |-> None, key |-> None, cert |-> None]

\* Bound: an event of the world, while some are left.
Event == events < MaxEvents /\ events' = events + 1

Up == phase = "up"

Down == phase \in {"down", "off", "failed"}

----------------------------------------------------------------------------
(* Configuration *)

\* parseConfig, and the listener that would be DSH's own.
Valid(c) ==
    /\ c.host # Loopback => c.gate
    /\ c.host # Loopback /\ c.tls = "off" => c.insecure

Bootable(c) == Valid(c) /\ (c.enabled => c.port # DshPort)

\* What handleConfig lets a page write of the fields that a start reads: each
\* control of the page sends one of them.
Patch(c) ==
    {[c EXCEPT !.enabled = b] : b \in BOOLEAN}
      \cup {[c EXCEPT !.port = p] : p \in Ports}
      \cup {[c EXCEPT !.host = h] :
               h \in IF c.gate THEN {Loopback, Everywhere} ELSE {Loopback}}

----------------------------------------------------------------------------
(* Files *)

\* A certificate carries the number of its key, of the authority's key that
\* signed it, the addresses it is for and whether it is about to expire.
Certificate == [key : Nat, ca : Nat, covers : SUBSET Addresses, old : BOOLEAN]

\* What is absent or torn is no certificate.
ASSUME CertificateAssumption == None \notin Certificate /\ Torn \notin Certificate

Leaf(key, ca) == [key |-> key, ca |-> ca, covers |-> addresses, old |-> FALSE]

\* A certificate can be parsed.
Whole(cert) == cert \notin {None, Torn}

\* assertMatchingCa.
CaWhole == files.caKey \in Nat /\ files.caCert = files.caKey

\* leafIsReusable: the key beside it is not asked for.
Reusable(ca) ==
    /\ Whole(files.leafCert)
    /\ files.leafCert.ca = ca
    /\ ~files.leafCert.old
    /\ addresses \subseteq files.leafCert.covers

----------------------------------------------------------------------------
(* Start *)

\* The checks before anything is opened.
Boot ==
    /\ Down
    /\ phase' = CASE ~Valid(cfg)                  -> "failed"
                  [] Valid(cfg) /\ ~cfg.enabled   -> "off"
                  [] Valid(cfg) /\ cfg.enabled    ->
                       IF cfg.port = DshPort THEN "failed"
                       ELSE IF cfg.tls = "off" THEN "server" ELSE "ca"
    /\ requested' = cfg.port /\ next' = cfg.port /\ refused' = {}
    /\ mem' = Nothing
    /\ UNCHANGED <<disk, bound, world, made, history, events>>

\* Mutant: authorities are made for the addresses of the day.
LoadCa_PerAddresses ==
    /\ phase = "ca"
    /\ IF CaWhole /\ Reusable(files.caKey)
       THEN mem' = [mem EXCEPT !.ca = files.caKey] /\ phase' = "leaf" /\ UNCHANGED made
       ELSE /\ made' = made + 1
            /\ mem' = [mem EXCEPT !.ca = made'] /\ phase' = "caKey"
    /\ UNCHANGED <<disk, walk, bound, world, history, events>>

\* ensureCa: only a missing file makes a new authority, any other fault of
\* the pair ends the start.
LoadCa ==
    /\ phase = "ca"
    /\ IF None \in {files.caKey, files.caCert}
       THEN /\ made' = made + 1
            /\ mem' = [mem EXCEPT !.ca = made'] /\ phase' = "caKey"
       ELSE IF CaWhole
       THEN mem' = [mem EXCEPT !.ca = files.caKey] /\ phase' = "leaf" /\ UNCHANGED made
       ELSE phase' = "failed" /\ UNCHANGED <<mem, made>>
    /\ UNCHANGED <<disk, walk, bound, world, history, events>>

\* writePrivateFile, writePublicFile: a file is emptied, then filled; `then`
\* is what the start does next.
Write(at, file, content, then) ==
    /\ phase = at
    /\ IF files[file] # Torn
       THEN files' = [files EXCEPT ![file] = Torn] /\ UNCHANGED phase
       ELSE files' = [files EXCEPT ![file] = content] /\ phase' = then
    /\ UNCHANGED <<cfg, mem, walk, bound, world, made, history, events>>

WriteCaKey == Write("caKey", "caKey", mem.ca, "caCert")

WriteCaCert == Write("caCert", "caCert", mem.ca, "leaf")

\* Mutant: a certificate that cannot be parsed ends the start.
LoadLeaf_Strict ==
    /\ phase = "leaf"
    /\ IF files.leafCert = Torn
       THEN phase' = "failed" /\ UNCHANGED <<mem, made>>
       ELSE IF Reusable(mem.ca) /\ files.leafKey # None
       THEN /\ mem' = [mem EXCEPT !.key = files.leafKey, !.cert = files.leafCert]
            /\ phase' = "server" /\ UNCHANGED made
       ELSE /\ made' = made + 1
            /\ mem' = [mem EXCEPT !.key = made', !.cert = Leaf(made', mem.ca)]
            /\ phase' = "leafKey"
    /\ UNCHANGED <<disk, walk, bound, world, history, events>>

\* ensureLeaf: the certificate at hand with whatever key lies beside it, or a
\* new pair.
LoadLeaf ==
    /\ phase = "leaf"
    /\ IF Reusable(mem.ca) /\ files.leafKey # None
       THEN /\ mem' = [mem EXCEPT !.key = files.leafKey, !.cert = files.leafCert]
            /\ phase' = "server" /\ UNCHANGED made
       ELSE /\ made' = made + 1
            /\ mem' = [mem EXCEPT !.key = made', !.cert = Leaf(made', mem.ca)]
            /\ phase' = "leafKey"
    /\ UNCHANGED <<disk, walk, bound, world, history, events>>

WriteLeafKey == Write("leafKey", "leafKey", mem.key, "leafCert")

WriteLeafCert == Write("leafCert", "leafCert", mem.cert, "server")

\* The server is made; a key that is not the certificate's is refused.
MakeServer ==
    /\ phase = "server"
    /\ phase' = IF cfg.tls = "off" \/ mem.cert.key = mem.key THEN "walk" ELSE "failed"
    /\ UNCHANGED <<disk, mem, walk, bound, world, made, history, events>>

\* Mutant: the step is added to the port that was tried last.
Following_FromLast == next + (next - requested) + 1

\* The port after the one that was refused.
Following == next + 1

CanListen(p) == p <= MaxPort /\ p \notin taken

\* The listener has its port: the start is over, the page can be opened.
Listen(p) ==
    /\ bound' = p
    /\ phase' = "up"
    /\ cameUp' = TRUE
    /\ trusted' = IF trusted = None THEN mem.ca ELSE trusted
    /\ UNCHANGED <<disk, mem, walk, world, made, events>>

\* One round of the walk.  Port 0 is any free one.
TryPort ==
    /\ phase = "walk"
    /\ \/ /\ requested = 0
          /\ \E p \in 1..MaxPort : CanListen(p) /\ Listen(p)
       \/ /\ requested # 0 /\ CanListen(next)
          /\ Listen(next)
       \/ /\ requested # 0 /\ next \in taken /\ next - requested < Attempts
          /\ refused' = refused \cup {next}
          /\ next' = Following
          /\ UNCHANGED <<disk, phase, mem, requested, bound, world, made, history, events>>
       \/ /\ IF requested = 0 THEN \A p \in 1..MaxPort : ~CanListen(p)
             ELSE ~CanListen(next) /\ (next > MaxPort \/ next - requested >= Attempts)
          /\ phase' = "failed"
          /\ UNCHANGED <<disk, mem, walk, bound, world, made, history, events>>

----------------------------------------------------------------------------
(* Afterwards *)

\* A switch of the settings page is saved for the next start.
PageWrites ==
    /\ Event
    /\ Up
    /\ cfg' \in Patch(cfg) \ {cfg}
    /\ UNCHANGED <<phase, files, mem, walk, bound, world, made, history>>

\* close, when DSH stops or reloads the plugin; or the process dies.
Stop ==
    /\ Event
    /\ ~Down
    /\ phase' = "down"
    /\ bound' = None
    /\ mem' = Nothing
    /\ UNCHANGED <<disk, walk, world, made, history>>

\* Another network, another program on a port, a certificate that grows old.
Move ==
    /\ Event
    /\ addresses' \in (SUBSET Addresses) \ {{}, addresses}
    /\ UNCHANGED <<disk, phase, mem, walk, bound, taken, made, history>>

Occupy ==
    /\ Event
    /\ \E p \in 1..MaxPort :
         /\ p \notin {DshPort, bound}
         /\ taken' = IF p \in taken THEN taken \ {p} ELSE taken \cup {p}
    /\ UNCHANGED <<disk, phase, mem, walk, bound, addresses, made, history>>

Age ==
    /\ Event
    /\ Whole(files.leafCert)
    /\ files' = [files EXCEPT !.leafCert.old = TRUE]
    /\ UNCHANGED <<cfg, phase, mem, walk, bound, world, made, history>>

----------------------------------------------------------------------------

Init ==
    /\ cfg \in {c \in Configs : c.enabled}
    /\ phase = "down"
    /\ files = NoFiles
    /\ mem = Nothing
    /\ requested = 0 /\ next = 0 /\ refused = {}
    /\ bound = None
    /\ addresses \in (SUBSET Addresses) \ {{}}
    /\ taken \in {{DshPort} \cup t : t \in SUBSET (1..MaxPort)}
    /\ made = 0
    /\ trusted = None /\ cameUp = FALSE
    /\ events = 0

Starting ==
    \/ Boot \/ LoadCa \/ WriteCaKey \/ WriteCaCert
    \/ LoadLeaf \/ WriteLeafKey \/ WriteLeafCert \/ MakeServer \/ TryPort

World == PageWrites \/ Stop \/ Move \/ Occupy \/ Age

Next == Starting \/ World

Spec == Init /\ [][Next]_vars

\* A start that began goes on, and whoever runs DSH starts it again.
FairSpec == Spec /\ WF_vars(Starting)

----------------------------------------------------------------------------

\* Every visitor who trusts the authority that was served first can connect:
\* through restarts, crashes and moves the listener shows a certificate of
\* that authority, with its own key.  (ca.ts:104, leaf.ts:4.)
PhonesKeepTrust ==
    Up /\ mem.ca # None =>
      /\ mem.ca = trusted
      /\ mem.cert.ca = trusted
      /\ mem.cert.key = mem.key

\* The walk takes the first free port: whatever lies between the port that was
\* asked for and the one listened on was refused.  (proxy.ts:489.)
WalkSkipsOnlyTaken ==
    Up /\ requested # 0 => requested..(bound - 1) \subseteq refused

\* What a start cannot get over: its configuration, the ports, an authority
\* half written, or a reusable certificate beside another key.
Stuck ==
    \/ ~Bootable(cfg)
    \/ ~\E p \in 1..MaxPort : CanListen(p)
    \/ cfg.port # 0 /\ \A p \in cfg.port..(cfg.port + Attempts) : ~CanListen(p)
    \/ None \notin {files.caKey, files.caCert} /\ ~CaWhole
    \/ Whole(files.leafCert) /\ files.leafKey \notin {None, files.leafCert.key}

\* A crash at any other point, in the middle of a file included, is repaired
\* by the starts after it: the listener is up again and again.
ComesBack == []<>(phase \in {"up", "off"} \/ Stuck)

\* The ports that a walk would try.
Tried ==
    IF requested = 0 THEN 1..MaxPort
    ELSE {p \in requested..(requested + Attempts) : p <= MaxPort}

\* What a start cannot get over at each await that can end it.  (A port of the
\* walk can be free again by the time the walk is over.)
NoWayOn ==
    \/ Down /\ ~Bootable(cfg)
    \/ phase = "ca" /\ None \notin {files.caKey, files.caCert} /\ ~CaWhole
    \/ /\ phase = "server" /\ cfg.tls # "off"
       /\ Whole(files.leafCert)
       /\ files.leafKey \notin {None, files.leafCert.key}
    \/ phase = "walk" /\ Tried \subseteq refused \cup taken

\* A start gives up for nothing else, whatever moved or died around it: not
\* for a leaf that is torn, old or for other addresses, not for a key it made
\* itself, and not while a port is untried.  (leaf.ts:97, proxy.ts:505.)
FailsForReason == [][phase' = "failed" /\ phase # "failed" => NoWayOn]_vars

\* What a page writes never keeps DSH from starting.  (routes.ts:431.)
PageKeepsBootable == cameUp => Bootable(cfg)

============================================================================

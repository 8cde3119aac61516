-------------------------- MODULE LifecycleProofs --------------------------
(***************************************************************************)
(* Proofs about Lifecycle, for any ports, addresses, attempts and events.  *)
(*                                                                         *)
(* Trust: an authority is made only where one of its two files is missing, *)
(* and the first listener that shows one comes after both were written; so *)
(* once an authority is trusted it is the one on disk, and every later     *)
(* start reads it, signs with it and compares the leaf's key before it     *)
(* listens.  Neither a crash inside a file nor a change of the world can   *)
(* touch that, whatever it does to the leaf.                               *)
(*                                                                         *)
(* Walk: all ports between the first and the next one were refused.        *)
(*                                                                         *)
(* Giving up: a leaf this start has made goes with its key, so a start     *)
(* that ends at its server has read both from disk.                        *)
(***************************************************************************)
EXTENDS Lifecycle, TLAPS

Shapes ==
    /\ cfg \in Configs
    /\ files = [caKey |-> files.caKey, caCert |-> files.caCert,
                leafKey |-> files.leafKey, leafCert |-> files.leafCert]
    /\ mem = [ca |-> mem.ca, key |-> mem.key, cert |-> mem.cert]
    /\ made \in Nat

Walked ==
    /\ requested \in Nat /\ next \in Nat /\ requested <= next
    /\ requested..(next - 1) \subseteq refused
    /\ Up /\ requested # 0 => bound = next

\* An authority that was shown is the one on disk.
AuthorityStands ==
    trusted # None =>
      trusted \in Nat /\ files.caKey = trusted /\ files.caCert = trusted

\* What the start has made or read so far, by how far it is.
MaterialReady ==
    /\ phase \in {"ca", "caKey", "caCert", "leaf", "leafKey", "leafCert"} =>
         cfg.tls = "self-signed"
    /\ phase \in {"caKey", "caCert"} => mem.ca \in Nat /\ trusted = None
    /\ phase = "caCert" => files.caKey = mem.ca
    /\ phase \in {"leaf", "leafKey", "leafCert"} => mem.ca \in Nat
    /\ phase = "server" /\ cfg.tls = "off" => mem.ca = None
    /\ phase \in {"leaf", "leafKey", "leafCert", "server", "walk", "up"} /\ mem.ca # None =>
         mem.ca \in Nat /\ files.caKey = mem.ca /\ files.caCert = mem.ca
    /\ phase \in {"leafKey", "leafCert", "server", "walk", "up"} /\ mem.ca # None =>
         mem.cert.ca = mem.ca
    /\ phase \in {"walk", "up"} /\ mem.ca # None => mem.cert.key = mem.key
    /\ Up /\ mem.ca # None => trusted # None

IInv == Shapes /\ Walked /\ AuthorityStands /\ MaterialReady

----------------------------------------------------------------------------

LEMMA Initially == Init => IInv
<1> SUFFICES ASSUME Init PROVE IInv
  OBVIOUS
<1> USE DEF Init, NoFiles, Nothing, Up
<1>1. Shapes
  BY DEF Shapes
<1>2. Walked
  BY DEF Walked
<1>3. AuthorityStands /\ MaterialReady
  BY DEF AuthorityStands, MaterialReady
<1> QED BY <1>1, <1>2, <1>3 DEF IInv

\* A port of a configuration is a number, and none of the page's patches
\* touches the transport.
LEMMA PatchesKeepShape ==
    ASSUME cfg \in Configs, cfg' \in Patch(cfg)
    PROVE  cfg' \in Configs /\ cfg'.tls = cfg.tls
BY DEF Configs, Patch

LEMMA PortsAreNumbers ==
    ASSUME cfg \in Configs
    PROVE  cfg.port \in Nat
<1>1. cfg.port \in Ports
  BY DEF Configs
<1>2. \A p \in Ports : p \in 0..MaxPort
  BY LifecycleAssumption
<1>3. \A p \in 0..MaxPort : p \in Nat
  BY LifecycleAssumption
<1> QED BY <1>1, <1>2, <1>3

LEMMA WalkUntouched ==
    ASSUME Walked, UNCHANGED walk, Up' => Up /\ bound' = bound
    PROVE  Walked'
BY DEF Walked, walk, Up

----------------------------------------------------------------------------
(* One lemma per step of a start *)

LEMMA BootKeeps == IInv /\ Boot => IInv'
<1> SUFFICES ASSUME IInv, Boot PROVE IInv'
  OBVIOUS
<1>1. Shapes'
  BY DEF IInv, Shapes, Boot, Nothing, disk
<1>2. phase' \in {"failed", "off", "server", "ca"}
      /\ (phase' = "ca" => cfg.tls # "off")
  BY DEF Boot
<1>3. Walked'
  <2>1. requested' \in Nat /\ next' = requested'
    BY PortsAreNumbers DEF IInv, Shapes, Boot
  <2>2. \A n \in Nat : n..(n - 1) = {} /\ n <= n
    OBVIOUS
  <2>3. requested'..(next' - 1) = {} /\ next' \in Nat /\ requested' <= next'
    BY <2>1, <2>2
  <2>4. ~Up'
    BY <1>2 DEF Up
  <2>5. requested'..(next' - 1) \subseteq refused'
    BY <2>3
  <2> QED BY <2>1, <2>3, <2>4, <2>5 DEF Walked
<1>4. cfg' = cfg /\ files' = files /\ trusted' = trusted /\ mem' = Nothing
  BY DEF Boot, disk, history
<1>5. AuthorityStands'
  BY <1>4 DEF IInv, AuthorityStands
<1>6. phase' = "ca" => cfg.tls = "self-signed"
  BY <1>2 DEF IInv, Shapes, Configs
<1>7. MaterialReady'
  BY <1>2, <1>4, <1>6 DEF MaterialReady, Nothing, Up
<1> QED BY <1>1, <1>3, <1>5, <1>7 DEF IInv

LEMMA LoadCaKeeps == IInv /\ LoadCa => IInv'
<1> SUFFICES ASSUME IInv, LoadCa PROVE IInv'
  OBVIOUS
<1>1. /\ cfg' = cfg /\ files' = files /\ trusted' = trusted /\ bound' = bound
      /\ UNCHANGED walk /\ phase = "ca"
      /\ phase' \in {"caKey", "leaf", "failed"}
  BY DEF LoadCa, disk, history, walk
<1>2. Shapes'
  BY <1>1 DEF IInv, Shapes, LoadCa
<1>3. Walked'
  BY <1>1, WalkUntouched DEF IInv, Up
<1>4. AuthorityStands'
  BY <1>1 DEF IInv, AuthorityStands
<1>5. MaterialReady'
  <2>1. CASE None \in {files.caKey, files.caCert}
    <3>1. phase' = "caKey" /\ mem'.ca = made + 1 /\ trusted = None
      BY <2>1, LifecycleAssumption DEF LoadCa, IInv, Shapes, AuthorityStands
    <3> QED BY <1>1, <3>1 DEF MaterialReady, IInv, Shapes, Up
  <2>2. CASE None \notin {files.caKey, files.caCert} /\ CaWhole
    <3>1. phase' = "leaf" /\ mem'.ca = files.caKey
      BY <2>2 DEF LoadCa, IInv, Shapes
    <3> QED BY <1>1, <2>2, <3>1 DEF MaterialReady, IInv, CaWhole, Up
  <2>3. CASE None \notin {files.caKey, files.caCert} /\ ~CaWhole
    BY <2>3 DEF LoadCa, MaterialReady, Up
  <2> QED BY <2>1, <2>2, <2>3
<1> QED BY <1>2, <1>3, <1>4, <1>5 DEF IInv

LEMMA CaKeyKeeps == IInv /\ WriteCaKey => IInv'
<1> SUFFICES ASSUME IInv, WriteCaKey PROVE IInv'
  OBVIOUS
<1>1. /\ cfg' = cfg /\ mem' = mem /\ trusted' = trusted /\ bound' = bound
      /\ UNCHANGED walk /\ made' = made /\ phase = "caKey" /\ phase' \in {"caKey", "caCert"}
      /\ \/ files' = [files EXCEPT !["caKey"] = Torn] /\ phase' = "caKey"
         \/ files' = [files EXCEPT !["caKey"] = mem.ca] /\ phase' = "caCert"
  BY DEF WriteCaKey, Write, history, walk
<1>2. Shapes'
  BY <1>1 DEF IInv, Shapes
<1>3. Walked'
  BY <1>1, WalkUntouched DEF IInv, Up
<1>4. AuthorityStands' /\ MaterialReady'
  BY <1>1 DEF IInv, Shapes, AuthorityStands, MaterialReady, Up
<1> QED BY <1>2, <1>3, <1>4 DEF IInv

LEMMA CaCertKeeps == IInv /\ WriteCaCert => IInv'
<1> SUFFICES ASSUME IInv, WriteCaCert PROVE IInv'
  OBVIOUS
<1>1. /\ cfg' = cfg /\ mem' = mem /\ trusted' = trusted /\ bound' = bound
      /\ UNCHANGED walk /\ made' = made /\ phase = "caCert" /\ phase' \in {"caCert", "leaf"}
      /\ \/ files' = [files EXCEPT !["caCert"] = Torn] /\ phase' = "caCert"
         \/ files' = [files EXCEPT !["caCert"] = mem.ca] /\ phase' = "leaf"
  BY DEF WriteCaCert, Write, history, walk
<1>2. Shapes'
  BY <1>1 DEF IInv, Shapes
<1>3. Walked'
  BY <1>1, WalkUntouched DEF IInv, Up
<1>4. AuthorityStands' /\ MaterialReady'
  BY <1>1 DEF IInv, Shapes, AuthorityStands, MaterialReady, Up
<1> QED BY <1>2, <1>3, <1>4 DEF IInv

LEMMA LoadLeafKeeps == IInv /\ LoadLeaf => IInv'
<1> SUFFICES ASSUME IInv, LoadLeaf PROVE IInv'
  OBVIOUS
<1>1. /\ cfg' = cfg /\ files' = files /\ trusted' = trusted /\ bound' = bound
      /\ UNCHANGED walk /\ phase = "leaf" /\ phase' \in {"server", "leafKey"}
  BY DEF LoadLeaf, disk, history, walk
<1> DEFINE Keep == Reusable(mem.ca) /\ files.leafKey # None
           m == [ca |-> mem.ca, key |-> mem.key, cert |-> mem.cert]
<1>2. mem = m
  BY DEF IInv, Shapes
<1>3. mem' = [ca |-> mem.ca, key |-> mem'.key, cert |-> mem'.cert]
      /\ mem'.cert.ca = mem.ca /\ made' \in Nat
  <2>1. CASE Keep
    <3>1. mem' = [m EXCEPT !.key = files.leafKey, !.cert = files.leafCert] /\ made' = made
      BY <1>2, <2>1 DEF LoadLeaf
    <3>2. mem' = [ca |-> mem.ca, key |-> files.leafKey, cert |-> files.leafCert]
      BY <3>1
    <3>3. files.leafCert.ca = mem.ca
      BY <2>1 DEF Reusable
    <3> QED BY <3>1, <3>2, <3>3 DEF IInv, Shapes
  <2>2. CASE ~Keep
    <3> DEFINE n == made + 1
    <3>1. mem' = [m EXCEPT !.key = n, !.cert = Leaf(n, mem.ca)] /\ made' = n
      BY <1>2, <2>2 DEF LoadLeaf
    <3>2. mem' = [ca |-> mem.ca, key |-> n, cert |-> Leaf(n, mem.ca)]
      BY <3>1
    <3>3. Leaf(n, mem.ca).ca = mem.ca
      BY DEF Leaf
    <3>4. mem'.key = n /\ mem'.cert = Leaf(n, mem.ca)
      BY <3>2
    <3>5. made' \in Nat
      BY <3>1 DEF IInv, Shapes
    <3> QED BY <3>2, <3>3, <3>4, <3>5
  <2> QED BY <2>1, <2>2
<1>7. Shapes' /\ mem'.ca = mem.ca
  BY <1>1, <1>3 DEF IInv, Shapes
<1>4. Walked'
  BY <1>1, WalkUntouched DEF IInv, Up
<1>5. AuthorityStands'
  BY <1>1 DEF IInv, AuthorityStands
<1>6. MaterialReady'
  BY <1>1, <1>7, <1>3 DEF IInv, MaterialReady, Up
<1> QED BY <1>7, <1>4, <1>5, <1>6 DEF IInv

LEMMA LeafFilesKeep == IInv /\ (WriteLeafKey \/ WriteLeafCert) => IInv'
<1> SUFFICES ASSUME IInv, WriteLeafKey \/ WriteLeafCert PROVE IInv'
  OBVIOUS
<1>1. /\ cfg' = cfg /\ mem' = mem /\ trusted' = trusted /\ bound' = bound
      /\ UNCHANGED walk /\ made' = made
      /\ phase \in {"leafKey", "leafCert"} /\ phase' \in {"leafKey", "leafCert", "server"}
  BY DEF WriteLeafKey, WriteLeafCert, Write, history, walk
<1>2. Shapes' /\ files'.caKey = files.caKey /\ files'.caCert = files.caCert
  BY <1>1 DEF IInv, Shapes, WriteLeafKey, WriteLeafCert, Write
<1>3. Walked'
  BY <1>1, WalkUntouched DEF IInv, Up
<1>4. AuthorityStands'
  BY <1>1, <1>2 DEF IInv, AuthorityStands
<1>5. MaterialReady'
  BY <1>1, <1>2 DEF IInv, MaterialReady, Up
<1> QED BY <1>2, <1>3, <1>4, <1>5 DEF IInv

LEMMA MakeServerKeeps == IInv /\ MakeServer => IInv'
<1> SUFFICES ASSUME IInv, MakeServer PROVE IInv'
  OBVIOUS
<1>1. /\ cfg' = cfg /\ mem' = mem /\ trusted' = trusted /\ bound' = bound
      /\ files' = files /\ UNCHANGED walk /\ made' = made
      /\ phase = "server" /\ phase' \in {"walk", "failed"}
      /\ phase' = "walk" => cfg.tls = "off" \/ mem.cert.key = mem.key
  BY DEF MakeServer, disk, history, walk
<1>2. Shapes'
  BY <1>1 DEF IInv, Shapes
<1>3. Walked'
  BY <1>1, WalkUntouched DEF IInv, Up
<1>4. AuthorityStands' /\ MaterialReady'
  BY <1>1 DEF IInv, AuthorityStands, MaterialReady, Up
<1> QED BY <1>2, <1>3, <1>4 DEF IInv

LEMMA TryPortKeeps == IInv /\ TryPort => IInv'
<1> SUFFICES ASSUME IInv, TryPort PROVE IInv'
  OBVIOUS
<1>1. /\ cfg' = cfg /\ mem' = mem /\ files' = files /\ made' = made
      /\ phase = "walk" /\ requested' = requested
  BY DEF TryPort, Listen, disk, walk
<1>2. Shapes'
  BY <1>1 DEF IInv, Shapes
<1>3. CASE \E p \in 1..MaxPort : Listen(p) /\ (requested # 0 => p = next)
  <2>1. /\ phase' = "up" /\ next' = next /\ refused' = refused
        /\ requested # 0 => bound' = next
        /\ trusted' = IF trusted = None THEN mem.ca ELSE trusted
    BY <1>3 DEF Listen, walk
  <2>2. Walked'
    BY <1>1, <2>1 DEF IInv, Walked, Up
  <2>3. AuthorityStands' /\ MaterialReady'
    BY <1>1, <2>1 DEF IInv, AuthorityStands, MaterialReady, Up
  <2> QED BY <1>2, <2>2, <2>3 DEF IInv
<1>4. CASE /\ refused' = refused \cup {next} /\ next' = Following
           /\ phase' = "walk" /\ trusted' = trusted
  <2>1. Walked'
    <3>1. next' = next + 1 /\ next \in Nat /\ requested \in Nat /\ requested <= next
      BY <1>4 DEF IInv, Walked, Following
    <3>2. requested..(next' - 1) \subseteq (requested..(next - 1)) \cup {next}
      BY <3>1
    <3> QED BY <1>1, <1>4, <3>1, <3>2 DEF IInv, Walked, Up
  <2>2. AuthorityStands' /\ MaterialReady'
    BY <1>1, <1>4 DEF IInv, AuthorityStands, MaterialReady, Up
  <2> QED BY <1>2, <2>1, <2>2 DEF IInv
<1>5. CASE phase' = "failed" /\ UNCHANGED walk /\ trusted' = trusted
  <2>1. Walked'
    BY <1>5, WalkUntouched DEF IInv, Up
  <2>2. AuthorityStands' /\ MaterialReady'
    BY <1>1, <1>5 DEF IInv, AuthorityStands, MaterialReady, Up
  <2> QED BY <1>2, <2>1, <2>2 DEF IInv
<1>6. requested # 0 /\ CanListen(next) => next \in 1..MaxPort
  BY LifecycleAssumption DEF IInv, Walked, CanListen
<1> QED BY <1>3, <1>4, <1>5, <1>6 DEF TryPort, history, walk

\* The world never touches the authority's files nor what a start holds.
LEMMA WorldKeeps == IInv /\ World => IInv'
<1> SUFFICES ASSUME IInv, World PROVE IInv'
  OBVIOUS
<1>1. /\ UNCHANGED walk /\ made' = made /\ trusted' = trusted
  BY DEF World, PageWrites, Stop, Move, Occupy, Age, history, world
<1>2. CASE Stop
  <2>1. phase' = "down" /\ mem' = Nothing /\ cfg' = cfg /\ files' = files
    BY <1>2 DEF Stop, disk
  <2>2. Shapes' /\ AuthorityStands' /\ MaterialReady'
    BY <1>1, <2>1 DEF IInv, Shapes, AuthorityStands, MaterialReady, Nothing, Up
  <2>3. Walked'
    BY <1>1, <2>1, WalkUntouched DEF IInv, Up
  <2> QED BY <2>2, <2>3 DEF IInv
<1>3. CASE PageWrites \/ Move \/ Occupy \/ Age
  <2>1. /\ phase' = phase /\ mem' = mem /\ bound' = bound
    BY <1>3 DEF PageWrites, Move, Occupy, Age
  <2>2. cfg' \in Configs /\ cfg'.tls = cfg.tls
    BY <1>3, PatchesKeepShape DEF PageWrites, Move, Occupy, Age, IInv, Shapes, disk
  <2>3. /\ files'.caKey = files.caKey /\ files'.caCert = files.caCert
        /\ files' = [caKey |-> files'.caKey, caCert |-> files'.caCert,
                     leafKey |-> files'.leafKey, leafCert |-> files'.leafCert]
    BY <1>3 DEF PageWrites, Move, Occupy, Age, IInv, Shapes, disk
  <2>4. Shapes'
    BY <1>1, <2>1, <2>2, <2>3 DEF IInv, Shapes
  <2>5. Walked'
    BY <1>1, <2>1, WalkUntouched DEF IInv, Up
  <2>6. AuthorityStands'
    BY <1>1, <2>3 DEF IInv, AuthorityStands
  <2>7. MaterialReady'
    BY <1>1, <2>1, <2>2, <2>3 DEF IInv, MaterialReady, Up
  <2> QED BY <2>4, <2>5, <2>6, <2>7 DEF IInv
<1> QED BY <1>2, <1>3 DEF World

LEMMA StepsKeep == IInv /\ [Next]_vars => IInv'
<1>1. IInv /\ UNCHANGED vars => IInv'
  BY DEF vars, disk, walk, world, history, IInv, Shapes, Walked, AuthorityStands,
         MaterialReady, Up
<1>2. IInv /\ Starting => IInv'
  BY BootKeeps, LoadCaKeeps, CaKeyKeeps, CaCertKeeps, LoadLeafKeeps, LeafFilesKeep,
     MakeServerKeeps, TryPortKeeps DEF Starting
<1> QED BY <1>1, <1>2, WorldKeeps DEF Next

LEMMA InvariantHolds == Spec => []IInv
<1>1. Init => IInv
  BY Initially
<1>2. IInv /\ [Next]_vars => IInv'
  BY StepsKeep
<1> QED BY <1>1, <1>2, PTL DEF Spec

----------------------------------------------------------------------------

\* Whoever trusts the authority that was served first can connect to every
\* later listener: it shows a certificate of that authority with its own key
\* (ensureCa, ensureLeaf).
THEOREM TrustSurvives == Spec => []PhonesKeepTrust
<1>1. IInv => PhonesKeepTrust
  BY DEF IInv, AuthorityStands, MaterialReady, PhonesKeepTrust, Up
<1> QED BY <1>1, InvariantHolds, PTL

\* The walk to a port passes over none that was not refused, however many are
\* taken (startProxy).
THEOREM WalkIsGapless == Spec => []WalkSkipsOnlyTaken
<1>1. IInv => WalkSkipsOnlyTaken
  BY DEF IInv, Walked, WalkSkipsOnlyTaken, Up
<1> QED BY <1>1, InvariantHolds, PTL

----------------------------------------------------------------------------
(* What a start gives up for *)

\* Where the leaf that is about to be served comes from: it was made by this
\* start, or it is the certificate on disk with the key on disk.
LeafInv ==
    /\ addresses \subseteq Addresses
    /\ files.leafCert \in Certificate \cup {None, Torn}
    /\ phase \in {"leafKey", "leafCert"} =>
         mem.cert \in Certificate /\ mem.cert.key = mem.key
    /\ phase = "server" /\ cfg.tls # "off" =>
         \/ mem.cert.key = mem.key
         \/ /\ files.leafCert \in Certificate
            /\ files.leafCert.key = mem.cert.key
            /\ files.leafKey = mem.key /\ mem.key # None

LEMMA LeafLoaded ==
    ASSUME IInv, LeafInv, LoadLeaf
    PROVE  LeafInv'
<1>1. /\ UNCHANGED <<addresses, files, cfg>> /\ phase = "leaf"
      /\ mem.ca \in Nat /\ made \in Nat
      /\ mem = [ca |-> mem.ca, key |-> mem.key, cert |-> mem.cert]
  BY DEF LoadLeaf, IInv, Shapes, MaterialReady, disk, world
<1>2. CASE Reusable(mem.ca) /\ files.leafKey # None
  <2>1. /\ phase' = "server"
        /\ mem' = [mem EXCEPT !.key = files.leafKey, !.cert = files.leafCert]
    BY <1>2 DEF LoadLeaf
  <2>2. mem'.key = files.leafKey /\ mem'.cert = files.leafCert
    BY <1>1, <2>1
  <2>3. files.leafCert \in Certificate
    BY <1>2 DEF Reusable, Whole, LeafInv
  <2> QED
    BY <1>1, <1>2, <2>1, <2>2, <2>3 DEF LeafInv
<1>3. CASE ~(Reusable(mem.ca) /\ files.leafKey # None)
  <2> DEFINE n == made + 1
             leaf == Leaf(n, mem.ca)
  <2>1. /\ phase' = "leafKey" /\ made' = n
        /\ mem' = [mem EXCEPT !.key = n, !.cert = leaf]
    BY <1>3 DEF LoadLeaf
  <2>2. leaf \in Certificate /\ leaf.key = n
    BY <1>1 DEF Leaf, Certificate, LeafInv
  <2> HIDE DEF leaf, n
  <2>3. mem'.key = n /\ mem'.cert = leaf
    BY <1>1, <2>1
  <2> QED
    BY <1>1, <2>1, <2>2, <2>3 DEF LeafInv
<1> QED
  BY <1>2, <1>3

LEMMA LeafWritten ==
    ASSUME IInv, LeafInv, WriteLeafKey \/ WriteLeafCert
    PROVE  LeafInv'
<1>1. /\ UNCHANGED <<addresses, mem, cfg>>
      /\ phase \in {"leafKey", "leafCert"}
      /\ phase' \in {"leafKey", "leafCert", "server"}
      /\ files'.leafCert \in {files.leafCert, Torn, mem.cert}
  BY DEF WriteLeafKey, WriteLeafCert, Write, world, IInv, Shapes
<1> QED
  BY <1>1 DEF LeafInv

\* A certificate that grows old keeps its key.
LEMMA LeafAges ==
    ASSUME IInv, LeafInv, Age
    PROVE  LeafInv'
<1>1. /\ UNCHANGED <<addresses, mem, cfg, phase>>
      /\ files.leafCert \in Certificate
      /\ files' = [files EXCEPT !.leafCert.old = TRUE]
  BY DEF Age, world, Whole, LeafInv
<1> DEFINE grown == [files.leafCert EXCEPT !.old = TRUE]
<1>2. grown \in Certificate /\ grown.key = files.leafCert.key
  BY <1>1 DEF Certificate
<1>3. files'.leafCert = grown /\ files'.leafKey = files.leafKey
  BY <1>1 DEF IInv, Shapes
<1> HIDE DEF grown
<1> QED
  BY <1>1, <1>2, <1>3 DEF LeafInv

LEMMA LeafSteps == IInv /\ LeafInv /\ [Next]_vars => LeafInv'
<1> SUFFICES ASSUME IInv, LeafInv, [Next]_vars PROVE LeafInv'
  OBVIOUS
<1>1. CASE Boot
  <2>1. /\ UNCHANGED <<addresses, files, cfg>>
        /\ phase' \in {"failed", "off", "server", "ca"}
        /\ phase' = "server" => cfg.tls = "off"
    BY <1>1 DEF Boot, disk, world
  <2> QED
    BY <2>1 DEF LeafInv
<1>2. CASE LoadCa \/ MakeServer \/ TryPort
  <2>1. /\ UNCHANGED <<addresses, files, cfg>>
        /\ phase' \notin {"leafKey", "leafCert", "server"}
    BY <1>2 DEF LoadCa, MakeServer, TryPort, Listen, disk, world
  <2> QED
    BY <2>1 DEF LeafInv
<1>3. CASE WriteCaKey \/ WriteCaCert
  <2>1. /\ UNCHANGED <<addresses, cfg>> /\ files'.leafCert = files.leafCert
        /\ phase' \notin {"leafKey", "leafCert", "server"}
    BY <1>3 DEF WriteCaKey, WriteCaCert, Write, world, IInv, Shapes
  <2> QED
    BY <2>1 DEF LeafInv
<1>4. CASE PageWrites \/ Stop
  <2>1. /\ UNCHANGED <<addresses, files>>
        /\ phase' \notin {"leafKey", "leafCert", "server"}
    BY <1>4 DEF PageWrites, Stop, Up, disk, world
  <2> QED
    BY <2>1 DEF LeafInv
<1>5. CASE Move \/ Occupy
  <2>1. UNCHANGED <<phase, files, mem, cfg>> /\ addresses' \subseteq Addresses
    BY <1>5 DEF Move, Occupy, disk, LeafInv
  <2> QED
    BY <2>1 DEF LeafInv
<1>6. CASE UNCHANGED vars
  BY <1>6 DEF vars, disk, world, LeafInv
<1> QED
  BY <1>1, <1>2, <1>3, <1>4, <1>5, <1>6, LeafLoaded, LeafWritten, LeafAges
     DEF Next, Starting, World

\* The walk is over only when every port it would try was refused, or is taken.
LEMMA WalkExhausted ==
    ASSUME IInv, TryPort, phase' = "failed"
    PROVE  Tried \subseteq refused \cup taken
<1>1. /\ requested \in Nat /\ next \in Nat /\ requested <= next
      /\ requested..(next - 1) \subseteq refused
  BY DEF IInv, Walked
<1>2. phase = "walk"
  BY DEF TryPort
<1>3. CASE requested = 0
  BY <1>2, <1>3 DEF TryPort, Listen, Tried, CanListen
<1>4. CASE requested # 0
  <2>1. ~CanListen(next) /\ (next > MaxPort \/ next - requested >= Attempts)
    BY <1>2, <1>4 DEF TryPort, Listen
  <2> SUFFICES ASSUME NEW p \in Tried PROVE p \in refused \cup taken
    OBVIOUS
  <2>2. p \in requested..(requested + Attempts) /\ p <= MaxPort
    BY <1>4 DEF Tried
  <2>3. p \in requested..(next - 1) \/ p = next
    BY <1>1, <2>1, <2>2, LifecycleAssumption
  <2>4. p = next => p \in taken
    BY <2>1, <2>2 DEF CanListen
  <2> QED
    BY <1>1, <2>3, <2>4
<1> QED
  BY <1>3, <1>4

\* A start ends early only for its configuration, for an authority half there,
\* for a reusable leaf beside a foreign key, or for want of a port; crashes
\* inside files, moves and ports that change hands end none (startLanGuard).
THEOREM StartsFailForReason == Spec => FailsForReason
<1>1. Init => LeafInv
  BY DEF Init, NoFiles, LeafInv
<1>2. IInv /\ LeafInv /\ [Next]_vars
        => [phase' = "failed" /\ phase # "failed" => NoWayOn]_vars
  <2> SUFFICES ASSUME IInv, LeafInv, Next, phase' = "failed", phase # "failed"
               PROVE  NoWayOn
    OBVIOUS
  <2>1. CASE Boot
    BY <2>1 DEF Boot, NoWayOn, Bootable
  <2>2. CASE LoadCa
    BY <2>2 DEF LoadCa, NoWayOn
  <2>3. CASE MakeServer
    <3>1. phase = "server" /\ cfg.tls # "off" /\ mem.cert.key # mem.key
      BY <2>3 DEF MakeServer
    <3>2. /\ files.leafCert \in Certificate
          /\ files.leafKey \notin {None, files.leafCert.key}
      BY <3>1 DEF LeafInv
    <3>3. Whole(files.leafCert)
      BY <3>2, CertificateAssumption DEF Whole
    <3> QED
      BY <3>1, <3>2, <3>3 DEF NoWayOn
  <2>4. CASE TryPort
    <3>1. phase = "walk"
      BY <2>4 DEF TryPort
    <3> QED
      BY <2>4, <3>1, WalkExhausted DEF NoWayOn
  <2>5. CASE WriteCaKey \/ WriteCaCert \/ LoadLeaf \/ WriteLeafKey \/ WriteLeafCert
    BY <2>5 DEF WriteCaKey, WriteCaCert, LoadLeaf, WriteLeafKey, WriteLeafCert, Write
  <2>6. CASE World
    BY <2>6 DEF World, PageWrites, Stop, Move, Occupy, Age
  <2> QED
    BY <2>1, <2>2, <2>3, <2>4, <2>5, <2>6 DEF Next, Starting
<1> QED
  BY <1>1, <1>2, LeafSteps, InvariantHolds, PTL DEF Spec, FailsForReason

----------------------------------------------------------------------------
(* What a page can do to the next start *)

\* The two values that handleConfig lets through and the next start refuses.
OwnPort == cfg.enabled /\ cfg.port = DshPort

OpenWithoutTls == cfg.host = Everywhere /\ cfg.tls = "off" /\ ~cfg.insecure

\* What a start has checked and no patch takes back: the gate of a listener on
\* the network, and the consent to a profile's own address without TLS.
Guarded ==
    /\ cfg.host # Loopback => cfg.gate
    /\ cfg.host \notin {Loopback, Everywhere} /\ cfg.tls = "off" => cfg.insecure

GuardInv == cfg \in Configs /\ (~Down \/ cameUp => Guarded)

LEMMA PatchesKeepGuard ==
    ASSUME cfg \in Configs, Guarded, cfg' \in Patch(cfg)
    PROVE  Guarded'
<1> USE DEF Guarded, Configs
<1>1. CASE cfg' \in {[cfg EXCEPT !.enabled = b] : b \in BOOLEAN}
  BY <1>1
<1>2. CASE cfg' \in {[cfg EXCEPT !.port = p] : p \in Ports}
  BY <1>2
<1>3. CASE cfg' \in {[cfg EXCEPT !.host = h] :
                       h \in IF cfg.gate THEN {Loopback, Everywhere} ELSE {Loopback}}
  BY <1>3
<1> QED
  BY <1>1, <1>2, <1>3 DEF Patch

LEMMA GuardSteps == GuardInv /\ [Next]_vars => GuardInv'
<1> SUFFICES ASSUME GuardInv, [Next]_vars PROVE GuardInv'
  OBVIOUS
<1>1. CASE Boot
  <2>1. cfg' = cfg /\ cameUp' = cameUp
    BY <1>1 DEF Boot, disk, history
  <2>2. phase' \notin {"failed", "off"} => Valid(cfg)
    BY <1>1 DEF Boot
  <2>3. Valid(cfg) => Guarded
    BY DEF Valid, Guarded
  <2> QED
    BY <2>1, <2>2, <2>3 DEF GuardInv, Guarded, Down
<1>2. CASE PageWrites
  <2>1. cfg' \in Patch(cfg) /\ phase' = phase /\ ~Down /\ cameUp' = cameUp
    BY <1>2 DEF PageWrites, Up, Down, history
  <2>2. cfg' \in Configs
    BY <2>1, PatchesKeepShape DEF GuardInv
  <2>3. Guarded'
    BY <2>1, PatchesKeepGuard DEF GuardInv
  <2> QED
    BY <2>2, <2>3 DEF GuardInv
<1>3. CASE TryPort
  <2>1. cfg' = cfg /\ phase = "walk"
    BY <1>3 DEF TryPort, Listen, disk
  <2>2. Guarded
    BY <2>1 DEF GuardInv, Down
  <2> QED
    BY <2>1, <2>2 DEF GuardInv, Guarded
<1>4. ASSUME cfg' = cfg, cameUp' = cameUp, ~Down' => ~Down
      PROVE  GuardInv'
  BY <1>4 DEF GuardInv, Guarded
<1>5. CASE LoadCa \/ LoadLeaf \/ MakeServer
  BY <1>4, <1>5 DEF LoadCa, LoadLeaf, MakeServer, disk, history, Down
<1>6. CASE WriteCaKey \/ WriteCaCert \/ WriteLeafKey \/ WriteLeafCert
  BY <1>4, <1>6 DEF WriteCaKey, WriteCaCert, WriteLeafKey, WriteLeafCert, Write,
                    history, Down
<1>7. CASE Stop \/ Move \/ Occupy \/ Age
  BY <1>4, <1>7 DEF Stop, Move, Occupy, Age, disk, history, Down
<1>8. CASE UNCHANGED vars
  BY <1>4, <1>8 DEF vars, disk, history, Down
<1> QED
  BY <1>1, <1>2, <1>3, <1>5, <1>6, <1>7, <1>8 DEF Next, Starting, World

\* PageKeepsBootable fails in two ways and no other: once a start came up, a
\* configuration that the next start refuses asks for DSH's own port, or for
\* every interface without TLS and without consent (handleConfig, parseConfig).
\* In particular no page takes the gate away from a listener on the network.
THEOREM PageBreaksInTwoWays ==
    Spec => [](PageKeepsBootable \/ OwnPort \/ OpenWithoutTls)
<1>1. Init => GuardInv
  BY DEF Init, GuardInv, Down
<1>2. GuardInv => PageKeepsBootable \/ OwnPort \/ OpenWithoutTls
  BY DEF GuardInv, Guarded, PageKeepsBootable, Bootable, Valid, OwnPort,
         OpenWithoutTls, Configs
<1> QED
  BY <1>1, <1>2, GuardSteps, PTL DEF Spec
============================================================================

-------------------------- MODULE SandboxMountsProofs --------------------------
(***************************************************************************)
(* What SandboxMounts promises, for any plan of mounts that prepare may    *)
(* ask for, any grants and any number of faults.                           *)
(***************************************************************************)
EXTENDS SandboxMounts, TLAPS

StagePath == {p \in Path : Len(p) = 2 /\ p[1] = Staging}

\* Where the launcher mounts.
Place == Target \cup StagePath \cup {<<Staging>>}

\* A path the launcher owns: it leaves the document directory alone.
SoundPlace(path, ro) ==
    /\ path \in Place
    /\ ro \in BOOLEAN
    /\ ~ IsStrictPrefix(DocDir, path)
    /\ IsStrictPrefix(path, DocDir) => ~ ro

\* What a mount shows: nothing, a host directory or, below another mount, a
\* staged one.
SoundSource(path, source) ==
    \/ source = <<>>
    \/ source \in HostPath
    \/ source \in StagePath /\ path \in Target /\ Len(path) > 1 /\ path # DocDir

\* The parent of the document directory does not show what is mounted there.
SoundMapping(source, target) ==
    /\ source \in HostPath
    /\ target \in Target \cup StagePath
    /\ IsStrictPrefix(target, DocDir) =>
          \A d \in Asked : d.op = "nullfs" /\ d.target = DocDir =>
             source \o SubSeq(DocDir, Len(target) + 1, Len(DocDir)) # d.source

MountRequest ==
    {e \in [op : Mounting, source : Path, target : Place, ro : BOOLEAN, file : BOOLEAN,
            origin : Path] :
       /\ SoundPlace(e.target, e.ro)
       /\ SoundSource(e.target, e.source)
       /\ e.file => Parent(e.target) \in FileParents
       /\ e.op = "nullfs" => SoundMapping(e.origin, e.target)
       /\ e.op = "nullfs" /\ e.target = DocDir =>
             \E d \in Asked : d.op = "nullfs" /\ d.target = DocDir /\ d.source = e.source}

Merges == {e \in Asked : e.op = "merge"}

Request ==
    MountRequest \cup Merges \cup {Attach}
    \cup [op : {"entries"}, merge : Merges, names : SUBSET Nat]

Mount == [path : Path, source : Path, ro : BOOLEAN, op : Mounting, by : {"launcher", "bridge"}]

Owned == [path : Place, ro : BOOLEAN]

Attrs == [owner : {"caller", "root"}, w : BOOLEAN]

Phases == {"mount", "running", "cleanup", "portal", "unmount", "remove", "record",
           "done", "abandoned"}

HelperPCs == {"mount", "adjust", "attrs", "chown", "chmod", "nmount", "rechown", "rechmod",
              "rollback", "ok", "error"}

HelperRun == [pc : HelperPCs, e : MountRequest, saved : Attrs, locked : BOOLEAN,
              mounted : BOOLEAN, rolled : {"no", "done", "failed"}]

PeerRun == [pc : {"chown", "chmod", "rechown", "rechmod", "over"}, dir : FileParents,
            saved : Attrs]

Passes == [errors : BOOLEAN, portal : BOOLEAN, left : SUBSET Owned, kept : SUBSET Owned,
           tries : {0, 1}]

Bridges == [up : BOOLEAN, registered : BOOLEAN, targets : SUBSET GrantMounts, proxy : BOOLEAN]

Ghosts == [faults : 0..MaxFaults, cut : SUBSET Mount, bare : SUBSET Mount, stray : SUBSET Mount,
           held : SUBSET Mount, orphans : SUBSET Mount,
           overlap : BOOLEAN, stuck : SUBSET FileParents]

LauncherTypes ==
    /\ pc \in Phases
    /\ todo \in Seq(Request)
    /\ owned \in SUBSET Owned
    /\ mappings \in SUBSET [source : Path, target : Path]
    /\ nextId \in Nat
    /\ pass \in Passes

SystemTypes ==
    /\ table \in SUBSET Mount
    /\ bridge \in Bridges
    /\ exists \in [root : BOOLEAN, record : BOOLEAN, generated : BOOLEAN]
    /\ ghost \in Ghosts

HelperTypes ==
    /\ helper = Idle \/ helper \in HelperRun
    /\ peer = Idle \/ peer \in PeerRun
    /\ attrs \in [FileParents -> Attrs]

\* The helper works for the request at the head of the list.
WorkInv ==
    /\ helper # Idle => pc = "mount" /\ todo # <<>> /\ helper.e = Head(todo)
    /\ pc \in {"mount", "running"} =>
          exists = [root |-> TRUE, record |-> TRUE, generated |-> TRUE]

\* What is known of the launcher's mounts.
MountInv ==
    /\ \A o \in owned : SoundPlace(o.path, o.ro)
    /\ \A x \in mappings : SoundMapping(x.source, x.target)
    /\ \A m \in table : IF m.by = "launcher"
                        THEN SoundPlace(m.path, m.ro) /\ SoundSource(m.path, m.source)
                        ELSE \E g \in Grants : m = GrantMount(g)
    /\ \A m, n \in table : m.path = n.path => m = n

Made == MountOf(helper.e, "launcher")

\* How far the helper has come: a mount is there when it says so.
HelperInv ==
    helper # Idle =>
    /\ helper.pc \in {"mount", "attrs", "chown", "chmod", "nmount"} =>
          Free(helper.e.target) /\ ~ helper.mounted
    /\ helper.pc \in {"adjust", "rollback", "ok"} => Made \in table
    /\ helper.pc = "rollback" => helper.mounted
    /\ helper.pc \in {"rechown", "rechmod"} =>
          IF helper.mounted THEN Made \in table ELSE Free(helper.e.target)
    /\ helper.pc = "error" => \A m \in table : m.path = helper.e.target =>
          m \in ghost.cut \cup ghost.bare
    /\ helper.pc \in {"attrs", "chown", "chmod", "nmount", "rechown", "rechmod", "rollback"} =>
          helper.e.file
    /\ helper.pc \in {"chown", "chmod", "rechown", "rechmod", "rollback"} => helper.locked
    /\ helper.pc = "attrs" => ~ helper.locked

\* Whatever is mounted has someone who will unmount it: the launcher knows its
\* mounts, and a grant is known to the bridge that has the directory registered.
KnownInv ==
    \A m \in table :
       IF m.by = "launcher"
       THEN \/ \E o \in owned : o.path = m.path
            \/ helper # Idle /\ helper.pc # "error" /\ helper.e.target = m.path
            \/ m \in ghost.cut \cup ghost.bare
       ELSE m \in ghost.stray \/ (bridge.registered /\ m \in bridge.targets)

\* The bridge knows the directory only through the instance's handle.
BridgeInv == bridge.registered => bridge.proxy

\* What a pass has done so far.
PassInv ==
    /\ pc \in {"mount", "running", "cleanup", "portal"} =>
          pass.left = {} /\ pass.kept = {} /\ ~ pass.errors /\ ~ pass.portal
    /\ pc # "unmount" => pass.left = {}
    /\ pc \in {"unmount", "remove"} =>
          /\ pass.kept # {} \/ pass.portal => pass.errors
          /\ bridge.registered => pass.portal
    /\ pc = "unmount" =>
          /\ pass.left \subseteq owned /\ pass.kept \subseteq owned
          /\ \A o \in owned : o \in pass.left \/ o \in pass.kept \/ Free(o.path)
          /\ \A o \in pass.kept, x \in table : x.path = o.path =>
                x \in ghost.held \/ (pass.portal /\ o.path = DocDir)
    /\ pc = "remove" => owned = pass.kept
    /\ pc = "record" => ~ exists.root

\* The attributes of a directory while helpers are at work in it.
AttrInv ==
    ~ ghost.overlap =>
    /\ HelperLocks /\ PeerLocks => Dir # peer.dir
    /\ HelperLocks /\ Dir \notin ghost.stuck =>
          /\ helper.saved = Caller
          /\ helper.pc = "chown" => attrs[Dir] = Caller
          /\ helper.pc = "rechmod" => attrs[Dir].owner = "caller"
    /\ PeerLocks /\ peer.dir \notin ghost.stuck =>
          /\ peer.saved = Caller
          /\ peer.pc = "rechmod" => attrs[peer.dir].owner = "caller"
    /\ \A d \in FileParents :
          d \in ghost.stuck \/ (HelperLocks /\ Dir = d) \/ (PeerLocks /\ peer.dir = d)
          \/ attrs[d] = Caller

TypeInv == LauncherTypes /\ SystemTypes /\ HelperTypes

IInv ==
    /\ TypeInv /\ WorkInv /\ MountInv /\ HelperInv /\ BridgeInv /\ KnownInv /\ PassInv /\ AttrInv
    /\ NoOrphans /\ RemovedLast

-------------------------------------------------------------------------------
(***************************************************************************)
(* Paths.                                                                  *)
(***************************************************************************)

\* Two paths of one length with the same names are the same.
LEMMA PathEqual ==
    ASSUME NEW s \in Path, NEW t \in Path, Len(s) = Len(t),
           \A i \in 1..Len(s) : s[i] = t[i]
    PROVE  s = t
BY DEF Path

\* A prefix is no longer and has the same names.
LEMMA PrefixIff ==
    ASSUME NEW s \in Path, NEW t \in Path
    PROVE  IsPrefix(s, t) <=> Len(s) <= Len(t) /\ \A i \in 1..Len(s) : s[i] = t[i]
<1>1. ASSUME Len(s) <= Len(t)
      PROVE  /\ SubSeq(s, 1, Len(s)) \in Path /\ SubSeq(t, 1, Len(s)) \in Path
             /\ Len(SubSeq(s, 1, Len(s))) = Len(s) /\ Len(SubSeq(t, 1, Len(s))) = Len(s)
             /\ \A i \in 1..Len(s) : SubSeq(s, 1, Len(s))[i] = s[i]
             /\ \A i \in 1..Len(s) : SubSeq(t, 1, Len(s))[i] = t[i]
  BY <1>1 DEF Path
<1>2. ASSUME Len(s) <= Len(t), \A i \in 1..Len(s) : s[i] = t[i]
      PROVE  SubSeq(s, 1, Len(s)) = SubSeq(t, 1, Len(s))
  BY <1>1, <1>2, PathEqual
<1>3. ASSUME Len(s) <= Len(t), SubSeq(s, 1, Len(s)) = SubSeq(t, 1, Len(s))
      PROVE  \A i \in 1..Len(s) : s[i] = t[i]
  BY <1>1, <1>3
<1> QED  BY <1>2, <1>3 DEF IsPrefix

\* A strict prefix is shorter.
LEMMA StrictPrefixIff ==
    ASSUME NEW s \in Path, NEW t \in Path
    PROVE  IsStrictPrefix(s, t) <=> Len(s) < Len(t) /\ \A i \in 1..Len(s) : s[i] = t[i]
<1>1. Len(s) \in Nat /\ Len(t) \in Nat
  BY DEF Path
<1>2. ASSUME Len(s) = Len(t), \A i \in 1..Len(s) : s[i] = t[i]  PROVE s = t
  BY <1>2, PathEqual
<1> QED  BY <1>1, <1>2, PrefixIff DEF IsStrictPrefix

\* Of two prefixes of a path one is a prefix of the other.
LEMMA PrefixesCompare ==
    ASSUME NEW s \in Path, NEW t \in Path, NEW p \in Path,
           IsStrictPrefix(s, p), IsStrictPrefix(t, p)
    PROVE  s = t \/ IsStrictPrefix(s, t) \/ IsStrictPrefix(t, s)
<1>1. Len(s) \in Nat /\ Len(t) \in Nat /\ Len(p) \in Nat
  BY DEF Path
<1>2. /\ Len(s) < Len(p) /\ \A i \in 1..Len(s) : s[i] = p[i]
      /\ Len(t) < Len(p) /\ \A i \in 1..Len(t) : t[i] = p[i]
  BY StrictPrefixIff
<1>3. CASE Len(s) = Len(t)
  BY <1>1, <1>2, <1>3, PathEqual
<1>4. CASE Len(s) < Len(t)
  <2>1. \A i \in 1..Len(s) : s[i] = t[i]
    BY <1>1, <1>2, <1>4
  <2> QED  BY <1>4, <2>1, StrictPrefixIff
<1>5. CASE Len(t) < Len(s)
  <2>1. \A i \in 1..Len(t) : t[i] = s[i]
    BY <1>1, <1>2, <1>5
  <2> QED  BY <1>5, <2>1, StrictPrefixIff
<1> QED  BY <1>1, <1>3, <1>4, <1>5

\* The path of an entry of a directory.
LEMMA EntryPath ==
    ASSUME NEW s \in Path, NEW n \in Nat
    PROVE  /\ Append(s, n) \in Path /\ Len(Append(s, n)) = Len(s) + 1
           /\ \A i \in 1..Len(s) : Append(s, n)[i] = s[i]
BY DEF Path

LEMMA EntryPrefix ==
    ASSUME NEW s \in Path, NEW n \in Nat, NEW d \in Path
    PROVE  /\ IsPrefix(Append(s, n), d) => IsPrefix(s, d)
           /\ IsStrictPrefix(d, Append(s, n)) => IsPrefix(d, s)
<1>1. Len(s) \in Nat /\ Len(d) \in Nat
  BY DEF Path
<1>2. ASSUME IsPrefix(Append(s, n), d) PROVE IsPrefix(s, d)
  <2>0. Append(s, n) \in Path /\ Len(Append(s, n)) = Len(s) + 1
    BY EntryPath
  <2>1. /\ Len(s) + 1 <= Len(d)
        /\ \A i \in 1..(Len(s) + 1) : Append(s, n)[i] = d[i]
    BY ONLY <1>2, <2>0, PrefixIff, d \in Path
  <2>2. \A i \in 1..Len(s) : s[i] = d[i]
    BY <1>1, <2>1, EntryPath
  <2> QED  BY <1>1, <2>1, <2>2, PrefixIff
<1>3. ASSUME IsStrictPrefix(d, Append(s, n)) PROVE IsPrefix(d, s)
  <2>1. /\ Len(d) < Len(s) + 1
        /\ \A i \in 1..Len(d) : d[i] = Append(s, n)[i]
    BY <1>3, EntryPath, StrictPrefixIff
  <2>2. \A i \in 1..Len(d) : d[i] = s[i]
    BY <1>1, <2>1, EntryPath
  <2> QED  BY <1>1, <2>1, <2>2, PrefixIff
<1> QED  BY <1>2, <1>3

\* A place is a path with a name; only host paths begin with Host.
LEMMA PlaceFacts ==
    ASSUME NEW p \in Place
    PROVE  /\ p \in Path /\ Len(p) \in Nat /\ Len(p) > 0 /\ p[1] \in Nat
           /\ p[1] # Host /\ (p \in Target <=> p[1] # Staging)
<1>1. CASE p \in Target
  BY <1>1, PlanAssumption DEF Target, Path
<1>2. CASE p \in StagePath
  <2>1. p \in Path /\ Len(p) = 2 /\ p[1] = Staging
    BY <1>2 DEF StagePath
  <2> QED  BY <2>1, PlanAssumption DEF Target
<1>3. CASE p = <<Staging>>
  <2>1. p \in Path /\ Len(p) = 1 /\ p[1] = Staging
    BY <1>3, PlanAssumption DEF Path
  <2> QED  BY <2>1, PlanAssumption DEF Target
<1> QED  BY <1>1, <1>2, <1>3 DEF Place

LEMMA HostFacts ==
    ASSUME NEW p \in HostPath
    PROVE  p \in Path /\ Len(p) \in Nat /\ Len(p) > 0 /\ p[1] = Host
BY PlanAssumption DEF HostPath, Path

\* The staging directory is none of the plan's places.
LEMMA StagingFacts ==
    ASSUME NEW p \in Place
    PROVE  /\ p \in Target => p[1] > Staging
           /\ p \in StagePath <=> p[1] = Staging /\ Len(p) = 2
           /\ p = <<Staging>> <=> p[1] = Staging /\ Len(p) # 2
<1>1. p \in Path /\ Len(p) > 0
  BY PlaceFacts
<1>2. p = <<Staging>> => Len(p) = 1 /\ p[1] = Staging
  OBVIOUS
<1> QED  BY <1>1, <1>2, PlaceFacts DEF Place, Target, StagePath

LEMMA DocDirFacts == DocDir \in Place /\ DocDir \in Target /\ DocDir \in Path
BY PlanAssumption, PlaceFacts DEF Place

\* The order of teardown is that of use: what is mounted below a mount is deeper,
\* and what shows a staged mount is as deep as that at least, with a greater name.
LEMMA UsersFirst ==
    ASSUME NEW m, NEW n, m.path \in Place, n.path \in Place, n.source \in Path,
           SoundSource(n.path, n.source), Needs(n, m)
    PROVE  owned_mount_teardown_order(n, m)
<1>1. /\ m.path \in Path /\ Len(m.path) \in Nat /\ Len(m.path) > 0
      /\ n.path \in Path /\ Len(n.path) \in Nat /\ Len(n.path) > 0
      /\ m.path[1] # Host
  BY PlaceFacts
<1>2. CASE IsStrictPrefix(m.path, n.path)
  BY <1>1, <1>2, StrictPrefixIff DEF owned_mount_teardown_order
<1>3. CASE IsPrefix(m.path, n.source)
  <2>1. Len(m.path) <= Len(n.source) /\ \A i \in 1..Len(m.path) : m.path[i] = n.source[i]
    BY <1>1, <1>3, PrefixIff
  <2>2. n.source # <<>> /\ m.path[1] = n.source[1]
    BY <1>1, <2>1
  <2>3. n.source \notin HostPath
    BY <1>1, <2>2 DEF HostPath
  <2>4. n.source \in StagePath /\ n.path \in Target /\ Len(n.path) > 1
    BY <2>2, <2>3 DEF SoundSource
  <2>5. m.path[1] = Staging /\ Len(m.path) <= 2 /\ n.path[1] > Staging /\ n.path[1] \in Nat
    BY <2>1, <2>2, <2>4, StagingFacts, PlaceFacts DEF StagePath
  <2>6. CASE Len(m.path) < 2
    BY <1>1, <2>4, <2>6 DEF owned_mount_teardown_order
  <2>7. CASE Len(m.path) = 2 /\ Len(n.path) > 2
    BY <2>7 DEF owned_mount_teardown_order
  <2>8. CASE Len(m.path) = 2 /\ Len(n.path) = 2
    <3>1. 1 \in DOMAIN n.path
      BY <1>1 DEF Path
    <3>2. n.path[1] > m.path[1] /\ \A j \in 1..(1 - 1) : n.path[j] = m.path[j]
      BY <2>5
    <3> QED  BY <2>8, <3>1, <3>2 DEF owned_mount_teardown_order, GreaterName
  <2>9. \A k \in Nat : (k <= 2 => k < 2 \/ k = 2) /\ (k > 1 => k > 2 \/ k = 2)
    OBVIOUS
  <2>10. Len(m.path) < 2 \/ Len(m.path) = 2
    BY ONLY <1>1, <2>5, <2>9
  <2>11. Len(n.path) > 2 \/ Len(n.path) = 2
    BY ONLY <1>1, <2>4, <2>9
  <2> QED  BY <2>6, <2>7, <2>8, <2>10, <2>11
<1> QED  BY <1>2, <1>3 DEF Needs

\* What is mounted below the document directory by the bridge keeps a mount of the
\* launcher busy only at the document directory or, writable, above it.
LEMMA GrantFacts ==
    ASSUME NEW g \in Grants, NEW p \in Place, NEW ro, SoundPlace(p, ro),
           NEW x, x.path = p, Needs(GrantMount(g), x)
    PROVE  p = DocDir \/ ~ ro
<1>1. g \in Path /\ IsStrictPrefix(DocDir, g)
  BY PlanAssumption
<1>2. p \in Path /\ Len(p) > 0 /\ Len(p) \in Nat /\ DocDir \in Path
  BY PlaceFacts, DocDirFacts
<1>3. ~ IsPrefix(p, <<>>)
  <2>1. <<>> \in Path /\ Len(<<>>) = 0
    BY DEF Path
  <2> QED  BY <1>2, <2>1, PrefixIff
<1>4. IsStrictPrefix(p, g)
  BY <1>3 DEF Needs, GrantMount
<1>5. p = DocDir \/ IsStrictPrefix(p, DocDir) \/ IsStrictPrefix(DocDir, p)
  BY <1>1, <1>2, <1>4, PrefixesCompare
<1> QED  BY <1>5 DEF SoundPlace

-------------------------------------------------------------------------------
(***************************************************************************)
(* Requests.                                                               *)
(***************************************************************************)

\* What the plan asks for is a request.
LEMMA AskedRequests ==
    ASSUME NEW e \in Asked
    PROVE  e \in Request
<1>1. Requested(e)
  BY PlanAssumption
<1>2. CASE e = Attach
  BY <1>2 DEF Request
<1>3. CASE e.op = "merge"
  BY <1>3 DEF Request, Merges
<1>4. CASE e.op \in Mounting /\ e # Attach
  <2>1. /\ e \in [op : Mounting, source : Path, target : Target, ro : BOOLEAN,
                  file : BOOLEAN, origin : Path]
        /\ IF e.op = "nullfs" THEN e.source \in HostPath /\ e.origin = e.source
                              ELSE e.source = <<>> /\ ~ e.ro /\ ~ e.file
        /\ SparesDocDir(e)
    BY <1>1, <1>4 DEF Requested, Mounting
  <2>2. e.target \in Place
    BY <2>1 DEF Place
  <2>3. SoundPlace(e.target, e.ro) /\ SoundSource(e.target, e.source)
    BY <2>1, <2>2 DEF SoundPlace, SoundSource, SparesDocDir
  <2>4. e.file => Parent(e.target) \in FileParents
    BY <2>1 DEF FileParents
  <2>5. e.op = "nullfs" => SoundMapping(e.origin, e.target)
    BY <2>1 DEF SoundMapping, SparesDocDir, Shows
  <2>6. e.op = "nullfs" /\ e.target = DocDir =>
           \E d \in Asked : d.op = "nullfs" /\ d.target = DocDir /\ d.source = e.source
    OBVIOUS
  <2>7. e \in [op : Mounting, source : Path, target : Place, ro : BOOLEAN,
               file : BOOLEAN, origin : Path]
    BY <2>1, <2>2
  <2> QED  BY <2>3, <2>4, <2>5, <2>6, <2>7 DEF Request, MountRequest
<1> QED  BY <1>1, <1>2, <1>3, <1>4 DEF Requested

LEMMA PlanRequests == \A p \in Plans : p \in Seq(Request)
<1> SUFFICES ASSUME NEW p \in Plans PROVE p \in Seq(Request)
  OBVIOUS
<1>1. p \in Seq(Asked) /\ \A i \in 1..Len(p) : p[i] \in Asked
  BY PlanAssumption
<1>2. \A i \in 1..Len(p) : p[i] \in Request
  BY <1>1, AskedRequests
<1> QED  BY <1>1, <1>2

\* The kinds of requests.
LEMMA RequestKinds ==
    ASSUME NEW e \in Request
    PROVE  /\ e.op \in Mounting => e \in MountRequest
           /\ e.op = "merge" => e \in Merges
           /\ e.op = "entries" => e \in [op : {"entries"}, merge : Merges, names : SUBSET Nat]
           /\ e.op \in Mounting \cup {"merge", "entries", "attach"}
<1>1. CASE e \in MountRequest
  BY <1>1 DEF MountRequest, Mounting
<1>2. CASE e \in Merges
  BY <1>2 DEF Merges, Mounting
<1>3. CASE e = Attach
  BY <1>3 DEF Attach, Mounting
<1>4. CASE e \in [op : {"entries"}, merge : Merges, names : SUBSET Nat]
  BY <1>4 DEF Mounting
<1> QED  BY <1>1, <1>2, <1>3, <1>4 DEF Request

LEMMA MountRequestFacts ==
    ASSUME NEW e \in MountRequest
    PROVE  /\ e.op \in Mounting /\ e.source \in Path /\ e.target \in Place
           /\ e.ro \in BOOLEAN /\ e.file \in BOOLEAN /\ e.origin \in Path
           /\ SoundPlace(e.target, e.ro) /\ SoundSource(e.target, e.source)
           /\ e.file => Parent(e.target) \in FileParents
           /\ e.op = "nullfs" => SoundMapping(e.origin, e.target)
           /\ e.op = "nullfs" /\ e.target = DocDir =>
                 \E d \in Asked : d.op = "nullfs" /\ d.target = DocDir /\ d.source = e.source
BY DEF MountRequest

LEMMA MergeFacts ==
    ASSUME NEW e \in Merges
    PROVE  /\ e.source \in HostPath /\ e.target \in Target /\ e.base \subseteq Nat
           /\ \A n \in DOMAIN e.entries :
                 n \in Nat /\ e.entries[n] \in HostPath /\ Len(e.entries[n]) > 1
           /\ ~ IsPrefix(e.target, DocDir) /\ ~ IsPrefix(DocDir, e.target)
BY PlanAssumption DEF Merges, Requested, Attach, Mounting

LEMMA HostIntro ==
    ASSUME NEW p \in Path, Len(p) > 0, p[1] = Host
    PROVE  p \in HostPath
BY DEF HostPath

LEMMA TargetIntro ==
    ASSUME NEW p \in Path, Len(p) > 0, NEW q \in Target, p[1] = q[1]
    PROVE  p \in Target
BY DEF Target

\* A nullfs of a host directory that has nothing to do with the document directory.
LEMMA NullfsRequest ==
    ASSUME NEW source \in HostPath, NEW target \in Target \cup StagePath,
           NEW ro \in BOOLEAN, NEW file \in BOOLEAN,
           ~ IsPrefix(target, DocDir), ~ IsStrictPrefix(DocDir, target),
           file => Parent(target) \in FileParents
    PROVE  Nullfs(source, target, ro, file) \in MountRequest
<1>1. target \in Place /\ target \in Path /\ source \in Path
  BY PlaceFacts, HostFacts DEF Place
<1>2. ~ IsStrictPrefix(target, DocDir) /\ target # DocDir
  <2>1. IsPrefix(DocDir, DocDir)
    BY DocDirFacts, PrefixIff DEF Path
  <2> QED  BY <2>1 DEF IsStrictPrefix
<1> DEFINE e == Nullfs(source, target, ro, file)
<1>3. /\ e.op = "nullfs" /\ e.source = source /\ e.target = target /\ e.ro = ro
      /\ e.file = file /\ e.origin = source
      /\ e \in [op : Mounting, source : Path, target : Place, ro : BOOLEAN,
                file : BOOLEAN, origin : Path]
  BY <1>1 DEF Nullfs, Mounting
<1>4. SoundPlace(target, ro) /\ SoundSource(target, source) /\ SoundMapping(source, target)
  BY <1>1, <1>2 DEF SoundPlace, SoundSource, SoundMapping
<1> HIDE DEF e
<1>5. e \in MountRequest
  BY <1>2, <1>3, <1>4 DEF MountRequest
<1> QED  BY <1>5 DEF e

LEMMA TmpfsRequest ==
    ASSUME NEW target \in Place, ~ IsStrictPrefix(DocDir, target)
    PROVE  Tmpfs(target) \in MountRequest
<1> DEFINE e == Tmpfs(target)
<1>1. /\ e.op = "tmpfs" /\ e.source = <<>> /\ e.target = target /\ e.ro = FALSE
      /\ e.file = FALSE /\ e.origin = <<>>
  BY DEF Tmpfs
<1>2. e \in [op : Mounting, source : Path, target : Place, ro : BOOLEAN,
             file : BOOLEAN, origin : Path]
  BY DEF Tmpfs, Mounting, Path
<1>3. SoundPlace(target, FALSE) /\ SoundSource(target, <<>>)
  BY DEF SoundPlace, SoundSource
<1> HIDE DEF e
<1>4. e \in MountRequest
  BY <1>1, <1>2, <1>3 DEF MountRequest
<1> QED  BY <1>4 DEF e

LEMMA HostParent ==
    ASSUME NEW p \in HostPath, Len(p) > 1
    PROVE  Parent(p) \in HostPath
<1>1. p \in Path /\ Len(p) \in Nat /\ p[1] = Host
  BY HostFacts
<1>2. /\ SubSeq(p, 1, Len(p) - 1) \in Path /\ Len(SubSeq(p, 1, Len(p) - 1)) = Len(p) - 1
      /\ SubSeq(p, 1, Len(p) - 1)[1] = p[1]
  BY <1>1 DEF Path
<1>3. Len(SubSeq(p, 1, Len(p) - 1)) > 0
  BY <1>1, <1>2
<1> QED  BY <1>1, <1>2, <1>3, HostIntro DEF Parent

LEMMA HostEntry ==
    ASSUME NEW p \in HostPath, NEW n \in Nat
    PROVE  Append(p, n) \in HostPath
<1>1. p \in Path /\ Len(p) \in Nat /\ Len(p) > 0 /\ p[1] = Host
  BY HostFacts
<1>2. Append(p, n) \in Path /\ Len(Append(p, n)) = Len(p) + 1 /\ Append(p, n)[1] = p[1]
  BY <1>1, EntryPath
<1>3. Len(Append(p, n)) > 0
  BY <1>1, <1>2
<1> QED  BY <1>1, <1>2, <1>3, HostIntro

\* What a merge becomes are requests again.
LEMMA MergeRequests ==
    ASSUME NEW e \in Merges
    PROVE  mount_extension_merge(e) \in Seq(Request)
<1>0. CASE DOMAIN e.entries = {} /\ e.holes = {}
  <2>1. mount_extension_merge(e) = <<>>
    BY <1>0 DEF mount_extension_merge
  <2> QED  BY <2>1
<1>1. CASE direct_merge_source(e)
  <2> DEFINE k == CHOOSE n \in DOMAIN e.entries : TRUE
  <2>1. k \in DOMAIN e.entries
    BY <1>1 DEF direct_merge_source
  <2>2. Parent(e.entries[k]) \in HostPath
    BY <2>1, MergeFacts, HostParent
  <2>3. ~ IsStrictPrefix(DocDir, e.target)
    BY MergeFacts DEF IsStrictPrefix
  <2>4. Nullfs(Parent(e.entries[k]), e.target, TRUE, FALSE) \in MountRequest
    BY <2>2, <2>3, MergeFacts, NullfsRequest
  <2>5. mount_extension_merge(e) = <<Nullfs(Parent(e.entries[k]), e.target, TRUE, FALSE)>>
    BY <1>1, <2>1 DEF mount_extension_merge
  <2>6. Nullfs(Parent(e.entries[k]), e.target, TRUE, FALSE) \in Request
    BY <2>4 DEF Request
  <2> DEFINE r == Nullfs(Parent(e.entries[k]), e.target, TRUE, FALSE)
  <2>7. mount_extension_merge(e) = <<r>> /\ r \in Request
    BY <2>5, <2>6
  <2> HIDE DEF r
  <2> QED  BY <2>7
<1>2. CASE ~ (DOMAIN e.entries = {} /\ e.holes = {}) /\ ~ direct_merge_source(e)
  <2> DEFINE r == [op |-> "entries", merge |-> e,
                   names |-> DOMAIN e.entries \cup (e.base \ e.holes)]
  <2>1. r \in Request
    BY MergeFacts DEF Request
  <2>2. ~ IsStrictPrefix(DocDir, e.target) /\ e.target \in Place
    BY MergeFacts DEF IsStrictPrefix, Place
  <2>3. Tmpfs(e.target) \in Request
    BY <2>2, TmpfsRequest DEF Request
  <2>4. mount_extension_merge(e) = <<Tmpfs(e.target), r>>
    BY <1>2 DEF mount_extension_merge
  <2> HIDE DEF r
  <2> QED  BY <2>1, <2>3, <2>4
<1> QED  BY <1>0, <1>1, <1>2

\* An entry of a merge is a request, and so is what is left of the merge.
LEMMA EntryRequests ==
    ASSUME NEW e \in [op : {"entries"}, merge : Merges, names : SUBSET Nat], NEW n \in e.names
    PROVE  /\ Nullfs(EntrySource(e.merge, n), Append(e.merge.target, n), TRUE, FALSE) \in Request
           /\ [e EXCEPT !.names = @ \ {n}] \in Request
<1>1. e.merge \in Merges /\ n \in Nat
  OBVIOUS
<1>2. EntrySource(e.merge, n) \in HostPath
  BY <1>1, MergeFacts, HostEntry DEF EntrySource
<1>3. e.merge.target \in Target /\ e.merge.target \in Path /\ DocDir \in Path
  BY <1>1, MergeFacts, PlaceFacts, DocDirFacts DEF Place
<1>4. Append(e.merge.target, n) \in Target
  <2>1. e.merge.target # <<>> /\ Len(e.merge.target) > 0 /\ Len(e.merge.target) \in Nat
    BY <1>3, PlaceFacts DEF Place
  <2>2. /\ Append(e.merge.target, n) \in Path
        /\ Len(Append(e.merge.target, n)) = Len(e.merge.target) + 1
        /\ Append(e.merge.target, n)[1] = e.merge.target[1]
    BY <1>1, <1>3, <2>1, EntryPath
  <2>3. Len(Append(e.merge.target, n)) > 0
    BY <2>1, <2>2
  <2> QED  BY <1>3, <2>2, <2>3, TargetIntro
<1>5. /\ ~ IsPrefix(Append(e.merge.target, n), DocDir)
      /\ ~ IsStrictPrefix(DocDir, Append(e.merge.target, n))
  BY <1>1, <1>3, EntryPrefix, MergeFacts
<1>6. Nullfs(EntrySource(e.merge, n), Append(e.merge.target, n), TRUE, FALSE) \in MountRequest
  BY <1>2, <1>4, <1>5, NullfsRequest
<1>7. [e EXCEPT !.names = @ \ {n}] \in [op : {"entries"}, merge : Merges, names : SUBSET Nat]
  OBVIOUS
<1> QED  BY <1>6, <1>7 DEF Request

\* What a mount shows at a path of the host is a path of the host.
LEMMA ShownPath ==
    ASSUME NEW source \in HostPath, NEW target \in Path, NEW k \in Nat
    PROVE  source \o SubSeq(target, k + 1, Len(target)) \in HostPath
<1>1. source \in Path /\ Len(source) \in Nat /\ Len(source) > 0 /\ source[1] = Host
  BY HostFacts
<1>2. SubSeq(target, k + 1, Len(target)) \in Path
  BY DEF Path
<1>3. /\ source \o SubSeq(target, k + 1, Len(target)) \in Path
      /\ Len(source \o SubSeq(target, k + 1, Len(target)))
            = Len(source) + Len(SubSeq(target, k + 1, Len(target)))
      /\ (source \o SubSeq(target, k + 1, Len(target)))[1] = source[1]
  BY <1>1, <1>2 DEF Path
<1>4. Len(SubSeq(target, k + 1, Len(target))) \in Nat
  BY <1>2 DEF Path
<1>5. Len(source \o SubSeq(target, k + 1, Len(target))) > 0
  BY <1>1, <1>3, <1>4
<1> QED  BY <1>1, <1>3, <1>5, HostIntro

\* Only below another of its mounts does the launcher stage a source, and never
\* that of the document directory; what it then asks for are requests.
LEMMA StageRequests ==
    ASSUME NEW e \in MountRequest, e.op = "nullfs", NEW k \in Nat,
           \A o \in owned : o.path \in Place,
           \A x \in mappings : SoundMapping(x.source, x.target),
           nullfs_source_aliases_parent(e.source, e.target)
    PROVE  /\ Tmpfs(<<Staging>>) \in Request
           /\ Nullfs(e.source, <<Staging, k>>, e.ro, e.file) \in Request
           /\ [e EXCEPT !.source = <<Staging, k>>] \in Request
<1>1. PICK o \in owned, x \in mappings :
         /\ IsStrictPrefix(o.path, e.target) /\ x.target = o.path
         /\ Shows(x, e.source, e.target)
  BY DEF nullfs_source_aliases_parent, Covering
<1>2. /\ e.target \in Place /\ e.target \in Path /\ Len(e.target) \in Nat
      /\ o.path \in Place /\ o.path \in Path /\ Len(o.path) \in Nat /\ Len(o.path) > 0
      /\ e.target[1] \in Nat
  BY MountRequestFacts, PlaceFacts
<1>3. Len(o.path) < Len(e.target) /\ o.path[1] = e.target[1]
  BY <1>1, <1>2, StrictPrefixIff
<1>4. SoundMapping(x.source, x.target) /\ SoundMapping(e.origin, e.target)
  BY MountRequestFacts
<1>5. e.source \in HostPath
  BY <1>1, <1>2, <1>4, ShownPath DEF Shows, SoundMapping
<1>6. e.target \in Target
  <2> SUFFICES ASSUME e.target \notin Target PROVE FALSE
    OBVIOUS
  <2>1. e.target \in StagePath
    BY <1>4 DEF SoundMapping
  <2>2. Len(e.target) = 2 /\ e.target[1] = Staging
    BY <2>1 DEF StagePath
  <2>3. Len(o.path) # 2 /\ o.path[1] = Staging
    <3>1. \A i, j \in Nat : i < j => i # j
      OBVIOUS
    <3> QED  BY ONLY <1>2, <1>3, <2>2, <3>1
  <2>4. o.path \notin Target
    BY ONLY <1>2, <2>3, PlaceFacts, Zenon
  <2>5. o.path \notin StagePath
    BY ONLY <1>2, <2>3, StagingFacts, Zenon
  <2> QED  BY <1>1, <1>4, <2>4, <2>5 DEF SoundMapping
<1>7. e.target # DocDir
  <2> SUFFICES ASSUME e.target = DocDir PROVE FALSE
    OBVIOUS
  <2>1. PICK d \in Asked : d.op = "nullfs" /\ d.target = DocDir /\ d.source = e.source
    BY MountRequestFacts
  <2> QED  BY <1>1, <1>4, <2>1 DEF SoundMapping, Shows
<1>8. Len(e.target) > 1
  BY <1>2, <1>3
<1> DEFINE s == <<Staging, k>>
<1>9. s \in StagePath /\ s \in Path /\ Len(s) = 2 /\ s[1] = Staging /\ Parent(s) = <<Staging>>
  <2>1. Staging \in Nat
    BY PlanAssumption
  <2>2. s \in Path /\ Len(s) = 2 /\ s[1] = Staging
    BY <2>1 DEF Path
  <2>3. SubSeq(s, 1, 1) = <<Staging>>
    <3>1. /\ SubSeq(s, 1, 1) \in Path /\ Len(SubSeq(s, 1, 1)) = 1
          /\ SubSeq(s, 1, 1)[1] = Staging
      BY <2>2 DEF Path
    <3>2. <<Staging>> \in Path /\ Len(<<Staging>>) = 1 /\ <<Staging>>[1] = Staging
      BY <2>1 DEF Path
    <3>3. \A i \in 1..1 : i = 1
      OBVIOUS
    <3> HIDE DEF s
    <3> QED  BY <3>1, <3>2, <3>3, PathEqual
  <2>4. Len(s) - 1 = 1
    BY <2>2
  <2>5. Parent(s) = <<Staging>>
    BY <2>3, <2>4 DEF Parent
  <2> QED  BY <2>2, <2>5 DEF StagePath
<1>10. /\ DocDir \in Path /\ Len(DocDir) \in Nat /\ Len(DocDir) > 0 /\ DocDir[1] # Staging
       /\ <<Staging>> \in Path /\ Len(<<Staging>>) = 1 /\ <<Staging>>[1] = Staging
  BY DocDirFacts, PlaceFacts, PlanAssumption DEF Path
<1> HIDE DEF s
<1>11. ~ IsPrefix(s, DocDir) /\ ~ IsStrictPrefix(DocDir, s) /\ ~ IsStrictPrefix(DocDir, <<Staging>>)
  <2>1. ~ IsPrefix(s, DocDir)
    BY <1>9, <1>10, PrefixIff
  <2>2. ~ IsStrictPrefix(DocDir, s)
    BY <1>9, <1>10, StrictPrefixIff
  <2>3. ~ IsStrictPrefix(DocDir, <<Staging>>)
    BY <1>10, StrictPrefixIff
  <2> QED  BY <2>1, <2>2, <2>3
<1>12. Nullfs(e.source, s, e.ro, e.file) \in MountRequest
  BY <1>5, <1>9, <1>11, NullfsRequest, MountRequestFacts DEF FileParents
<1>13. Tmpfs(<<Staging>>) \in MountRequest
  BY <1>11, TmpfsRequest DEF Place
<1>14. [e EXCEPT !.source = s] \in MountRequest
  <2> DEFINE f == [e EXCEPT !.source = s]
  <2>1. e \in [op : Mounting, source : Path, target : Place, ro : BOOLEAN,
               file : BOOLEAN, origin : Path]
    BY DEF MountRequest
  <2>2. f \in [op : Mounting, source : Path, target : Place, ro : BOOLEAN,
               file : BOOLEAN, origin : Path]
    BY <1>9, <2>1
  <2>3. /\ f.op = e.op /\ f.source = s /\ f.target = e.target /\ f.ro = e.ro
        /\ f.file = e.file /\ f.origin = e.origin
    BY <2>1
  <2> HIDE DEF f
  <2>4. SoundSource(f.target, f.source)
    BY <1>6, <1>7, <1>8, <1>9, <2>3 DEF SoundSource
  <2>5. f \in MountRequest
    BY <1>7, <2>2, <2>3, <2>4, MountRequestFacts DEF MountRequest
  <2> QED  BY <2>5 DEF f
<1> QED  BY <1>12, <1>13, <1>14 DEF Request, s

-----------------------------------------------------------------------------
(***************************************************************************)
(* The types.                                                              *)
(***************************************************************************)
LEMMA FaultFacts ==
    ASSUME ghost \in Ghosts, Fault
    PROVE  /\ Faulted \in Ghosts
           /\ Faulted.cut = ghost.cut /\ Faulted.bare = ghost.bare
           /\ Faulted.stray = ghost.stray /\ Faulted.held = ghost.held
           /\ Faulted.orphans = ghost.orphans
           /\ Faulted.overlap = ghost.overlap /\ Faulted.stuck = ghost.stuck
           /\ Faulted.faults = ghost.faults + 1
BY PlanAssumption DEF Fault, Faulted, Ghosts

LEMMA HelperFacts ==
    ASSUME helper = Idle \/ helper \in HelperRun
    PROVE  helper.pc # "idle" <=> helper \in HelperRun
BY DEF Idle, HelperRun, HelperPCs

LEMMA MadeFacts ==
    ASSUME helper \in HelperRun
    PROVE  /\ helper.e \in MountRequest /\ Made \in Mount
           /\ Made.path = helper.e.target /\ Made.source = helper.e.source
           /\ Made.ro = helper.e.ro /\ Made.by = "launcher" /\ Made.op = helper.e.op
           /\ SoundPlace(Made.path, Made.ro) /\ SoundSource(Made.path, Made.source)
<1>1. helper.e \in MountRequest
  BY DEF HelperRun
<1>2. helper.e.target \in Path
  BY <1>1, MountRequestFacts, PlaceFacts
<1> QED  BY <1>1, <1>2, MountRequestFacts DEF Made, MountOf, Mount

LEMMA GrantTyped ==
    ASSUME NEW g \in Grants
    PROVE  GrantMount(g) \in Mount
<1>1. g \in Path /\ <<>> \in Path
  BY PlanAssumption DEF Path
<1> QED  BY <1>1 DEF GrantMount, Mount, Mounting

LEMMA GrantMountsTyped ==
    /\ GrantMounts \subseteq Mount
    /\ \A m \in GrantMounts : m.by = "bridge" /\ \E g \in Grants : m = GrantMount(g)
<1>1. \A g \in Grants : GrantMount(g) \in Mount /\ GrantMount(g).by = "bridge"
  BY GrantTyped DEF GrantMount
<1> QED  BY <1>1 DEF GrantMounts

LEMMA NoPassTyped ==
    /\ NoPass \in Passes
    /\ [NoPass EXCEPT !.tries = 1] \in Passes
    /\ ~ NoPass.errors /\ ~ NoPass.portal /\ NoPass.left = {} /\ NoPass.kept = {}
    /\ LET p == [NoPass EXCEPT !.tries = 1]
       IN ~ p.errors /\ ~ p.portal /\ p.left = {} /\ p.kept = {}
<1>1. {} \in SUBSET Owned
  OBVIOUS
<1>2. NoPass \in Passes
  BY <1>1 DEF NoPass, Passes
<1>3. [NoPass EXCEPT !.tries = 1] \in Passes
  BY <1>2 DEF Passes
<1> QED  BY <1>2, <1>3 DEF NoPass

LEMMA GiveUpTyped ==
    ASSUME GiveUp
    PROVE  pc' \in Phases /\ todo' \in Seq(Request) /\ pass' \in Passes
BY NoPassTyped DEF GiveUp, Phases

LEMMA HeadTail ==
    ASSUME todo \in Seq(Request), todo # <<>>
    PROVE  Head(todo) \in Request /\ Tail(todo) \in Seq(Request)
OBVIOUS

\* What prepare has still to do.
LEMMA MergeTyped ==
    ASSUME LauncherTypes, Merge
    PROVE  LauncherTypes'
<1>1. /\ Head(todo) \in Request /\ Tail(todo) \in Seq(Request) /\ Head(todo).op = "merge"
      /\ todo' = mount_extension_merge(Head(todo)) \o Tail(todo)
      /\ UNCHANGED <<pc, owned, mappings, nextId, pass>>
  BY HeadTail DEF LauncherTypes, Merge
<1>2. mount_extension_merge(Head(todo)) \in Seq(Request)
  BY <1>1, RequestKinds, MergeRequests
<1>3. todo' \in Seq(Request)
  BY <1>1, <1>2
<1> QED  BY <1>1, <1>3 DEF LauncherTypes

LEMMA MergeEntryTyped ==
    ASSUME LauncherTypes, MergeEntry
    PROVE  LauncherTypes'
<1>1. /\ Head(todo) \in Request /\ Tail(todo) \in Seq(Request) /\ Head(todo).op = "entries"
      /\ UNCHANGED <<pc, owned, mappings, nextId, pass>>
  BY HeadTail DEF LauncherTypes, MergeEntry
<1>2. Head(todo) \in [op : {"entries"}, merge : Merges, names : SUBSET Nat]
  BY <1>1, RequestKinds
<1>3. todo' \in Seq(Request)
  <2>1. CASE todo' = Tail(todo)
    BY <1>1, <2>1
  <2>2. ASSUME NEW n \in Head(todo).names,
               todo' = <<Nullfs(EntrySource(Head(todo).merge, n), Append(Head(todo).merge.target, n),
                                TRUE, FALSE),
                         [Head(todo) EXCEPT !.names = @ \ {n}]>> \o Tail(todo)
        PROVE  todo' \in Seq(Request)
    <3> DEFINE a == Nullfs(EntrySource(Head(todo).merge, n), Append(Head(todo).merge.target, n),
                           TRUE, FALSE)
               b == [Head(todo) EXCEPT !.names = @ \ {n}]
    <3>1. a \in Request /\ b \in Request
      BY <1>2, EntryRequests
    <3>2. todo' = <<a, b>> \o Tail(todo)
      BY <2>2
    <3> HIDE DEF a, b
    <3>3. <<a, b>> \in Seq(Request)
      BY <3>1
    <3> QED  BY <1>1, <3>2, <3>3
  <2> QED  BY <2>1, <2>2 DEF MergeEntry
<1> QED  BY <1>1, <1>3 DEF LauncherTypes

LEMMA StageTyped ==
    ASSUME LauncherTypes, MountInv, Stage
    PROVE  LauncherTypes'
<1> DEFINE e == Head(todo)
           a == Tmpfs(<<Staging>>)
           b == Nullfs(e.source, <<Staging, nextId>>, e.ro, e.file)
           c == [e EXCEPT !.source = <<Staging, nextId>>]
<1>1. /\ e \in Request /\ Tail(todo) \in Seq(Request) /\ e.op = "nullfs"
      /\ nullfs_source_aliases_parent(e.source, e.target)
      /\ todo' = (IF nextId = 0 THEN <<a>> ELSE <<>>) \o <<b, c>> \o Tail(todo)
      /\ nextId' = nextId + 1 /\ nextId \in Nat
      /\ UNCHANGED <<pc, owned, mappings, pass>>
  BY HeadTail DEF LauncherTypes, Stage
<1>2. e \in MountRequest
  BY <1>1, RequestKinds DEF Mounting
<1>3. a \in Request /\ b \in Request /\ c \in Request
  <2>1. /\ \A o \in owned : o.path \in Place
        /\ \A x \in mappings : SoundMapping(x.source, x.target)
    BY DEF MountInv, SoundPlace
  <2> HIDE DEF e
  <2> QED  BY <1>1, <1>2, <2>1, StageRequests
<1> HIDE DEF a, b, c
<1>4. <<a>> \in Seq(Request) /\ <<>> \in Seq(Request) /\ <<b, c>> \in Seq(Request)
  BY <1>3
<1>5. (IF nextId = 0 THEN <<a>> ELSE <<>>) \in Seq(Request)
  BY <1>4
<1>6. todo' \in Seq(Request)
  BY <1>1, <1>4, <1>5
<1> QED  BY <1>1, <1>6 DEF LauncherTypes

LEMMA ReportTyped ==
    ASSUME LauncherTypes, HelperTypes, WorkInv, Report
    PROVE  LauncherTypes'
<1>1. helper \in HelperRun /\ helper.e \in MountRequest /\ todo # <<>>
  BY HelperFacts, MadeFacts DEF HelperTypes, Report, WorkInv, Idle
<1>2. CASE helper.pc = "error" /\ GiveUp /\ UNCHANGED <<owned, mappings>>
  BY <1>2, GiveUpTyped DEF Report, LauncherTypes
<1>3. CASE helper.pc = "ok"
  <2> DEFINE o == [path |-> helper.e.target, ro |-> helper.e.ro]
             x == [source |-> helper.e.origin, target |-> helper.e.target]
  <2>1. /\ owned' = owned \cup {o}
        /\ mappings' = IF helper.e.op = "nullfs" THEN mappings \cup {x} ELSE mappings
        /\ todo' = Tail(todo)
        /\ UNCHANGED <<pc, pass, nextId>>
    BY <1>3 DEF Report
  <2>2. o \in Owned /\ x \in [source : Path, target : Path]
    <3>1. helper.e.target \in Place /\ helper.e.target \in Path /\ helper.e.ro \in BOOLEAN
          /\ helper.e.origin \in Path
      BY <1>1, MountRequestFacts, PlaceFacts
    <3> QED  BY <3>1 DEF Owned
  <2> HIDE DEF o, x
  <2>3. owned' \in SUBSET Owned /\ mappings' \in SUBSET [source : Path, target : Path]
    BY <2>1, <2>2 DEF LauncherTypes
  <2>4. todo' \in Seq(Request)
    BY <1>1, <2>1, HeadTail DEF LauncherTypes
  <2> QED  BY <2>1, <2>3, <2>4 DEF LauncherTypes
<1> QED  BY <1>2, <1>3 DEF Report

LEMMA AttachTyped ==
    ASSUME LauncherTypes, AttachSandbox
    PROVE  LauncherTypes'
<1>1. CASE todo' = Tail(todo) /\ UNCHANGED <<pc, pass>>
  BY <1>1, HeadTail DEF AttachSandbox, LauncherTypes
<1>2. CASE GiveUp
  BY <1>2, GiveUpTyped DEF AttachSandbox, LauncherTypes
<1> QED  BY <1>1, <1>2 DEF AttachSandbox

LEMMA PassFailsTyped ==
    ASSUME pass \in Passes, PassFails
    PROVE  pc' \in Phases /\ pass' \in Passes
BY NoPassTyped DEF PassFails, Phases

LEMMA CleanupTyped ==
    ASSUME LauncherTypes,
           \/ terminate_chroot_processes \/ PortalCleanup \/ UnmountNext \/ CleanResources
           \/ RemoveRoot \/ RemoveRecord
    PROVE  LauncherTypes'
<1>1. CASE terminate_chroot_processes
  BY <1>1, PassFailsTyped DEF terminate_chroot_processes, LauncherTypes, Phases
<1>2. CASE PortalCleanup
  <2>1. /\ [pass EXCEPT !.left = owned] \in Passes
        /\ [pass EXCEPT !.left = owned, !.errors = TRUE, !.portal = TRUE] \in Passes
    BY DEF LauncherTypes, Passes
  <2> QED  BY <1>2, <2>1 DEF PortalCleanup, LauncherTypes, Phases
<1>3. CASE UnmountNext
  <2>1. ASSUME NEW m \in pass.left PROVE Kept(m) \in Passes /\ Detached(m) \in Passes
    BY <2>1 DEF Kept, Detached, Passes, LauncherTypes
  <2>2. pass' \in Passes
    BY <1>3, <2>1 DEF UnmountNext
  <2> QED  BY <1>3, <2>2 DEF UnmountNext, LauncherTypes
<1>4. CASE CleanResources
  <2>1. [pass EXCEPT !.errors = TRUE] \in Passes /\ pass.kept \in SUBSET Owned
    BY DEF LauncherTypes, Passes
  <2> QED  BY <1>4, <2>1 DEF CleanResources, LauncherTypes, Phases
<1>5. CASE RemoveRoot
  BY <1>5, PassFailsTyped DEF RemoveRoot, LauncherTypes, Phases
<1>6. CASE RemoveRecord
  BY <1>6, PassFailsTyped DEF RemoveRecord, LauncherTypes, Phases
<1> QED  BY <1>1, <1>2, <1>3, <1>4, <1>5, <1>6

LEMMA LauncherTyped ==
    ASSUME TypeInv, WorkInv, MountInv, [Next]_vars
    PROVE  LauncherTypes'
<1>1. LauncherTypes /\ HelperTypes
  BY DEF TypeInv
<1>2. CASE \/ RunHelper \/ ShareDocument \/ BridgeEnds \/ BridgeReplaced \/ PeerStep
           \/ Finished \/ UNCHANGED vars
  BY <1>1, <1>2 DEF RunHelper, ShareDocument, BridgeEnds, BridgeReplaced, PeerStep, Finished,
     vars, LauncherTypes
<1>3. CASE Helper
  BY <1>1, <1>3 DEF Helper, nmount, adjust_tmpfs, directory_attributes,
     protect_regular_file_parent, nmount_regular_file_nullfs, restore_directory_attributes,
     rollback_regular_file_mount, HelperKilled, HelperStep, LauncherTypes
<1>4. CASE MountpointTaken
  BY <1>1, <1>4, GiveUpTyped DEF MountpointTaken, LauncherTypes
<1>5. CASE Launch
  BY <1>1, <1>5 DEF Launch, LauncherTypes, Phases
<1>6. CASE ApplicationEnds
  BY <1>1, <1>6, NoPassTyped DEF ApplicationEnds, LauncherTypes, Phases
<1> QED  BY <1>1, <1>2, <1>3, <1>4, <1>5, <1>6, MergeTyped, MergeEntryTyped, StageTyped,
            ReportTyped, AttachTyped, CleanupTyped DEF Next

\* One change of the history at a time.
LEMMA GhostChanges ==
    ASSUME NEW g \in Ghosts, NEW S \in SUBSET Mount, NEW D \in SUBSET FileParents, NEW b \in BOOLEAN
    PROVE  /\ [g EXCEPT !.cut = @ \cup S] \in Ghosts
           /\ [g EXCEPT !.held = @ \cup S] \in Ghosts
           /\ [g EXCEPT !.bare = @ \cup S] \in Ghosts
           /\ [g EXCEPT !.stray = @ \cup S] \in Ghosts
           /\ [g EXCEPT !.overlap = @ \/ b] \in Ghosts
           /\ [g EXCEPT !.stuck = @ \cup D] \in Ghosts
           /\ [g EXCEPT !.cut = @ \cup S, !.stuck = @ \cup D] \in Ghosts
<1>1. /\ g.faults \in 0..MaxFaults /\ g.cut \in SUBSET Mount /\ g.held \in SUBSET Mount
      /\ g.bare \in SUBSET Mount /\ g.stray \in SUBSET Mount
      /\ g.orphans \in SUBSET Mount /\ g.overlap \in BOOLEAN
      /\ g.stuck \in SUBSET FileParents
  BY DEF Ghosts
<1>2. /\ g.cut \cup S \in SUBSET Mount /\ g.held \cup S \in SUBSET Mount
      /\ g.bare \cup S \in SUBSET Mount /\ g.stray \cup S \in SUBSET Mount
      /\ (g.overlap \/ b) \in BOOLEAN /\ g.stuck \cup D \in SUBSET FileParents
  BY <1>1
<1> QED  BY <1>2 DEF Ghosts

LEMMA PrepareSystemTyped ==
    ASSUME TypeInv, \/ Merge \/ MergeEntry \/ Stage \/ RunHelper \/ MountpointTaken \/ Report
                    \/ AttachSandbox \/ Launch \/ ShareDocument \/ ApplicationEnds
    PROVE  SystemTypes'
<1>1. SystemTypes
  BY DEF TypeInv
<1>2. CASE \/ Merge \/ MergeEntry \/ Stage \/ RunHelper \/ MountpointTaken \/ Report
           \/ Launch \/ ApplicationEnds
  BY <1>1, <1>2 DEF Merge, MergeEntry, Stage, RunHelper, MountpointTaken, Report, Launch,
     ApplicationEnds, SystemTypes
<1>3. CASE ShareDocument
  <2>1. PICK m \in GrantMounts :
           \/ table' = table \ {m} /\ bridge' = [bridge EXCEPT !.targets = @ \ {m}]
           \/ table' = table \cup {m} /\ bridge' = [bridge EXCEPT !.targets = @ \cup {m}]
    BY <1>3 DEF ShareDocument
  <2>2. table' \in SUBSET Mount
    BY <1>1, <2>1, GrantMountsTyped DEF SystemTypes
  <2>3. bridge' \in Bridges
    BY <1>1, <2>1 DEF SystemTypes, Bridges
  <2> QED  BY <1>1, <1>3, <2>2, <2>3 DEF ShareDocument, SystemTypes
<1>4. CASE AttachSandbox
  <2>1. CASE table' = table \cup GrantMounts
             /\ bridge' = [bridge EXCEPT !.registered = TRUE, !.targets = GrantMounts]
             /\ UNCHANGED <<pc, pass, ghost>>
    <3>1. bridge' \in Bridges
      BY <1>1, <2>1 DEF SystemTypes, Bridges
    <3>2. table' \in SUBSET Mount
      BY <1>1, <2>1, GrantMountsTyped DEF SystemTypes
    <3> QED  BY <1>1, <1>4, <2>1, <3>1, <3>2 DEF AttachSandbox, SystemTypes
  <2>2. ASSUME Fault, NEW left \in SUBSET GrantMounts, table' = table \cup left,
               bridge' = [bridge EXCEPT !.targets = @ \cup left],
               ghost' = [Faulted EXCEPT !.stray = @ \cup left]
        PROVE  SystemTypes'
    <3>1. left \in SUBSET Mount /\ Faulted \in Ghosts
      BY <1>1, <2>2, FaultFacts, GrantMountsTyped DEF SystemTypes
    <3>2. ghost' \in Ghosts
      BY <2>2, <3>1, GhostChanges
    <3>3. bridge' \in Bridges
      BY <1>1, <2>2 DEF SystemTypes, Bridges
    <3> QED  BY <1>1, <1>4, <2>2, <3>1, <3>2, <3>3 DEF AttachSandbox, SystemTypes
  <2>3. CASE UNCHANGED <<table, bridge, ghost>>
    BY <1>1, <1>4, <2>3 DEF AttachSandbox, SystemTypes
  <2>4. \A left \in {{}} \cup {{m} : m \in GrantMounts} : left \in SUBSET GrantMounts
    OBVIOUS
  <2> QED  BY <1>4, <2>1, <2>2, <2>3, <2>4 DEF AttachSandbox
<1> QED  BY <1>2, <1>3, <1>4

LEMMA DirTyped ==
    ASSUME HelperTypes, HelperInv, helper \in HelperRun,
           helper.pc \in {"attrs", "chown", "chmod", "nmount", "rechown", "rechmod", "rollback"}
    PROVE  Dir \in FileParents
<1>1. helper.e.file /\ helper.e \in MountRequest
  BY MadeFacts DEF HelperInv, Idle, HelperRun, HelperPCs
<1> QED  BY <1>1, MountRequestFacts DEF Dir

LEMMA HelperSystemTyped ==
    ASSUME TypeInv, HelperInv, Helper
    PROVE  SystemTypes'
<1>1. SystemTypes /\ HelperTypes /\ UNCHANGED <<bridge, exists>>
  BY DEF TypeInv, Helper, nmount, adjust_tmpfs, directory_attributes,
     protect_regular_file_parent, nmount_regular_file_nullfs, restore_directory_attributes,
     rollback_regular_file_mount, HelperKilled, HelperStep
<1>2. helper \in HelperRun
  BY <1>1, HelperFacts DEF HelperTypes, Helper, nmount, adjust_tmpfs, directory_attributes,
     protect_regular_file_parent, nmount_regular_file_nullfs, restore_directory_attributes,
     rollback_regular_file_mount, HelperKilled
<1>3. Made \in Mount /\ Made = MountOf(helper.e, "launcher")
  BY <1>2, MadeFacts DEF Made
<1>4. table' \in SUBSET Mount
  BY <1>1, <1>3 DEF SystemTypes, Helper, nmount, adjust_tmpfs, directory_attributes,
     protect_regular_file_parent, nmount_regular_file_nullfs, restore_directory_attributes,
     rollback_regular_file_mount, HelperKilled
<1>5. Fault => Faulted \in Ghosts
  BY <1>1, FaultFacts DEF SystemTypes
<1>6. ghost' \in Ghosts
  <2>1. CASE nmount \/ protect_regular_file_parent \/ nmount_regular_file_nullfs
             \/ rollback_regular_file_mount
    BY <1>1, <1>5, <2>1 DEF nmount, protect_regular_file_parent, nmount_regular_file_nullfs,
       rollback_regular_file_mount, SystemTypes
  <2>2. CASE adjust_tmpfs
    <3>1. {MountOf(helper.e, "launcher")} \in SUBSET Mount
      BY <1>3
    <3>2. \A g \in Ghosts : [g EXCEPT !.bare = @ \cup {MountOf(helper.e, "launcher")}] \in Ghosts
      BY <3>1, GhostChanges
    <3> QED  BY <1>1, <1>5, <2>2, <3>2 DEF adjust_tmpfs, SystemTypes
  <2>3. CASE directory_attributes
    BY <1>1, <1>5, <2>3, GhostChanges DEF directory_attributes, SystemTypes
  <2>4. CASE restore_directory_attributes
    <3>1. {Dir} \in SUBSET FileParents
      BY <1>1, <1>2, <2>4, DirTyped DEF restore_directory_attributes
    <3>2. \A g \in Ghosts : [g EXCEPT !.stuck = @ \cup {Dir}] \in Ghosts
      BY <3>1, GhostChanges
    <3> QED  BY <1>1, <1>5, <2>4, <3>2 DEF restore_directory_attributes, SystemTypes
  <2>5. CASE HelperKilled
    <3>1. (IF HelperLocks THEN {Dir} ELSE {}) \in SUBSET FileParents
      BY <1>1, <1>2, DirTyped DEF HelperLocks
    <3>2. table \cap {MountOf(helper.e, "launcher")} \in SUBSET Mount
      BY <1>1 DEF SystemTypes
    <3> QED  BY <1>5, <2>5, <3>1, <3>2, GhostChanges DEF HelperKilled
  <2> QED  BY <2>1, <2>2, <2>3, <2>4, <2>5 DEF Helper
<1> QED  BY <1>1, <1>4, <1>6 DEF SystemTypes

LEMMA CleanupSystemTyped ==
    ASSUME TypeInv,
           \/ terminate_chroot_processes \/ PortalCleanup \/ UnmountNext \/ CleanResources
           \/ RemoveRoot \/ RemoveRecord
    PROVE  SystemTypes'
<1>1. SystemTypes /\ ghost \in Ghosts
  BY DEF TypeInv, SystemTypes
<1>2. Fault => Faulted \in Ghosts
  BY <1>1, FaultFacts
<1>3. CASE terminate_chroot_processes
  BY <1>1, <1>2, <1>3 DEF terminate_chroot_processes, SystemTypes
<1>4. CASE PortalCleanup
  <2>1. table' \in SUBSET Mount
    BY <1>1, <1>4 DEF PortalCleanup, SystemTypes
  <2>2. bridge' \in Bridges
    <3>1. CASE UNCHANGED bridge
      BY <1>1, <3>1 DEF SystemTypes
    <3>2. ASSUME NEW stopped \in BOOLEAN, NEW rest \in SUBSET (bridge.targets \ Detachable),
                 bridge' = [up |-> ~ stopped, registered |-> FALSE,
                            targets |-> IF stopped THEN {} ELSE rest, proxy |-> FALSE]
          PROVE  bridge' \in Bridges
      BY <1>1, <3>2 DEF SystemTypes, Bridges
    <3>3. ASSUME NEW left \in SUBSET Detachable,
                 bridge' = [bridge EXCEPT !.targets = @ \ (Detachable \ left),
                                          !.registered = @ /\ left # {}]
          PROVE  bridge' \in Bridges
      BY <1>1, <3>3 DEF SystemTypes, Bridges
    <3> QED  BY <1>4, <3>1, <3>2, <3>3 DEF PortalCleanup
  <2> QED  BY <1>1, <1>2, <1>4, <2>1, <2>2 DEF PortalCleanup, SystemTypes
<1>5. CASE UnmountNext
  <2>1. PICK m \in pass.left :
           LET at == {x \in table : x.path = m.path}
               users == UNION {Users(x) : x \in at}
           IN /\ table' = table \/ table' = table \ at
              /\ \/ UNCHANGED ghost
                 \/ /\ users # {} \/ Fault
                    /\ ghost' = [ghost EXCEPT !.faults = IF users = {} THEN @ + 1 ELSE @,
                                              !.orphans = @ \cup users]
                 \/ ghost' = [ghost EXCEPT !.held = @ \cup at]
                 \/ Fault /\ ghost' = [Faulted EXCEPT !.held = @ \cup at]
    BY <1>5 DEF UnmountNext
  <2> DEFINE at == {x \in table : x.path = m.path}
             users == UNION {Users(x) : x \in at}
  <2>2. at \in SUBSET Mount /\ users \in SUBSET Mount
    BY <1>1 DEF SystemTypes, Users
  <2> HIDE DEF at, users
  <2>3. ASSUME users # {} \/ Fault,
               ghost' = [ghost EXCEPT !.faults = IF users = {} THEN @ + 1 ELSE @,
                                      !.orphans = @ \cup users]
        PROVE  ghost' \in Ghosts
    <3>1. (IF users = {} THEN ghost.faults + 1 ELSE ghost.faults) \in 0..MaxFaults
      BY <1>1, <2>3, PlanAssumption DEF Ghosts, Fault
    <3>2. ghost.orphans \cup users \in SUBSET Mount
      BY <1>1, <2>2 DEF Ghosts
    <3> QED  BY <1>1, <2>3, <3>1, <3>2 DEF Ghosts
  <2>4. ghost' \in Ghosts
    <3>1. \/ UNCHANGED ghost
          \/ /\ users # {} \/ Fault
             /\ ghost' = [ghost EXCEPT !.faults = IF users = {} THEN @ + 1 ELSE @,
                                       !.orphans = @ \cup users]
          \/ ghost' = [ghost EXCEPT !.held = @ \cup at]
          \/ Fault /\ ghost' = [Faulted EXCEPT !.held = @ \cup at]
      BY <2>1 DEF at, users
    <3> QED  BY <1>1, <1>2, <2>2, <2>3, <3>1, GhostChanges
  <2>5. table' \in SUBSET Mount
    BY <1>1, <2>1 DEF SystemTypes
  <2> QED  BY <1>1, <1>5, <2>4, <2>5 DEF UnmountNext, SystemTypes
<1>6. CASE CleanResources
  <2>1. exists' \in [root : BOOLEAN, record : BOOLEAN, generated : BOOLEAN]
    BY <1>1, <1>6 DEF CleanResources, SystemTypes
  <2> QED  BY <1>1, <1>2, <1>6, <2>1 DEF CleanResources, SystemTypes
<1>7. CASE RemoveRoot
  BY <1>1, <1>2, <1>7 DEF RemoveRoot, SystemTypes
<1>8. CASE RemoveRecord
  BY <1>1, <1>2, <1>8 DEF RemoveRecord, SystemTypes
<1> QED  BY <1>3, <1>4, <1>5, <1>6, <1>7, <1>8

LEMMA PeerSystemTyped ==
    ASSUME TypeInv, PeerStep
    PROVE  SystemTypes'
<1>1. SystemTypes /\ ghost \in Ghosts
  BY DEF TypeInv, SystemTypes
<1>2. ghost' \in Ghosts
  BY <1>1, GhostChanges DEF PeerStep
<1> QED  BY <1>1, <1>2 DEF PeerStep, SystemTypes

\* A bridge that ends leaves its mounts, or takes them down; that of another launch
\* takes its place with no mounts of its own here.
LEMMA BridgeHistory ==
    ASSUME TypeInv, BridgeEnds \/ BridgeReplaced
    PROVE  /\ UNCHANGED <<pc, todo, owned, mappings, nextId, helper, peer, attrs, pass, exists>>
           /\ table' \subseteq table
           /\ \A m \in table : m.by = "launcher" => m \in table'
           /\ bridge' \in Bridges /\ ghost' \in Ghosts
           /\ bridge'.registered => bridge.registered
           /\ ghost'.cut = ghost.cut /\ ghost'.bare = ghost.bare
           /\ ghost.stray \subseteq ghost'.stray /\ ghost'.held = ghost.held
           /\ ghost'.orphans = ghost.orphans
           /\ ghost'.overlap = ghost.overlap /\ ghost'.stuck = ghost.stuck
           /\ \A m \in table' : m \in bridge.targets /\ bridge.registered =>
                 m \in ghost'.stray \/ (bridge'.registered /\ m \in bridge'.targets)
<1>1. ghost \in Ghosts /\ bridge \in Bridges /\ bridge.targets \subseteq GrantMounts
      /\ table \in SUBSET Mount
  BY DEF TypeInv, SystemTypes, Bridges
<1>2. CASE BridgeReplaced
  <2>1. bridge' = [bridge EXCEPT !.up = TRUE]
    BY <1>2 DEF BridgeReplaced
  <2>2. bridge' \in Bridges /\ bridge'.registered = bridge.registered
        /\ bridge'.targets = bridge.targets
    BY <1>1, <2>1 DEF Bridges
  <2> QED  BY <1>1, <1>2, <2>2 DEF BridgeReplaced
<1>3. CASE BridgeEnds
  <2>1. PICK rest \in SUBSET bridge.targets :
           /\ table' = table \ (bridge.targets \ rest)
           /\ ghost' = [Faulted EXCEPT !.stray = @ \cup rest]
    BY <1>3 DEF BridgeEnds
  <2>2. Fault /\ bridge' = [bridge EXCEPT !.up = FALSE, !.registered = FALSE, !.targets = {}]
    BY <1>3 DEF BridgeEnds
  <2>3. bridge' \in Bridges /\ ~ bridge'.registered
    BY <1>1, <2>2 DEF Bridges
  <2>4. rest \in SUBSET Mount
    BY <1>1, <2>1, GrantMountsTyped
  <2>5. Faulted \in Ghosts /\ ghost' \in Ghosts
    BY <1>1, <2>1, <2>2, <2>4, FaultFacts, GhostChanges
  <2>6. /\ ghost'.cut = ghost.cut /\ ghost'.bare = ghost.bare
        /\ ghost'.stray = ghost.stray \cup rest /\ ghost'.held = ghost.held
        /\ ghost'.orphans = ghost.orphans
        /\ ghost'.overlap = ghost.overlap /\ ghost'.stuck = ghost.stuck
    BY <1>1, <2>1, <2>2, <2>5, FaultFacts DEF Ghosts
  <2>7. \A m \in table : m.by = "launcher" => m \in table'
    BY <1>1, <2>1, GrantMountsTyped
  <2> QED  BY <1>3, <2>1, <2>3, <2>5, <2>6, <2>7 DEF BridgeEnds
<1> QED  BY <1>2, <1>3

LEMMA SystemTyped ==
    ASSUME TypeInv, HelperInv, [Next]_vars
    PROVE  SystemTypes'
<1>1. CASE Finished \/ UNCHANGED vars
  BY <1>1 DEF Finished, vars, TypeInv, SystemTypes
<1>2. CASE BridgeEnds \/ BridgeReplaced
  BY <1>2, BridgeHistory DEF TypeInv, SystemTypes
<1> QED  BY <1>1, <1>2, PrepareSystemTyped, HelperSystemTyped, CleanupSystemTyped,
            PeerSystemTyped DEF Next

WithOwner(d, o) == [attrs EXCEPT ![d].owner = o]

WithMode(d, b) == [attrs EXCEPT ![d].w = b]

\* One attribute of a directory is changed.
LEMMA AttrChanges ==
    ASSUME attrs \in [FileParents -> Attrs], NEW d \in FileParents,
           NEW o \in {"caller", "root"}, NEW b \in BOOLEAN
    PROVE  /\ WithOwner(d, o) \in [FileParents -> Attrs]
           /\ WithOwner(d, o)[d] = [owner |-> o, w |-> attrs[d].w]
           /\ \A c \in FileParents \ {d} : WithOwner(d, o)[c] = attrs[c]
           /\ WithMode(d, b) \in [FileParents -> Attrs]
           /\ WithMode(d, b)[d] = [owner |-> attrs[d].owner, w |-> b]
           /\ \A c \in FileParents \ {d} : WithMode(d, b)[c] = attrs[c]
<1>1. attrs[d] \in Attrs
  OBVIOUS
<1>2. /\ [attrs[d] EXCEPT !.owner = o] \in Attrs
      /\ [attrs[d] EXCEPT !.owner = o] = [owner |-> o, w |-> attrs[d].w]
  BY <1>1 DEF Attrs
<1>3. /\ [attrs[d] EXCEPT !.w = b] \in Attrs
      /\ [attrs[d] EXCEPT !.w = b] = [owner |-> attrs[d].owner, w |-> b]
  BY <1>1 DEF Attrs
<1>4. /\ WithOwner(d, o) = [attrs EXCEPT ![d] = [attrs[d] EXCEPT !.owner = o]]
      /\ WithMode(d, b) = [attrs EXCEPT ![d] = [attrs[d] EXCEPT !.w = b]]
  BY DEF WithOwner, WithMode
<1> QED  BY <1>2, <1>3, <1>4

LEMMA HelperTyped ==
    ASSUME TypeInv, HelperInv, [Next]_vars
    PROVE  HelperTypes'
<1>1. HelperTypes
  BY DEF TypeInv
<1>2. CASE UNCHANGED <<helper, peer, attrs>>
  BY <1>1, <1>2 DEF HelperTypes
<1>3. CASE RunHelper
  <2>1. Head(todo) \in MountRequest
    BY <1>3, HeadTail, RequestKinds DEF RunHelper, TypeInv, LauncherTypes
  <2>2. helper' = [pc |-> IF Head(todo).file THEN "attrs" ELSE "mount", e |-> Head(todo),
                   saved |-> Caller, locked |-> FALSE, mounted |-> FALSE, rolled |-> "no"]
    BY <1>3 DEF RunHelper
  <2>3. helper' \in HelperRun
    BY <2>1, <2>2 DEF HelperRun, HelperPCs, Caller, Attrs
  <2> QED  BY <1>1, <1>3, <2>3 DEF RunHelper, HelperTypes
<1>4. CASE Report
  BY <1>1, <1>4 DEF Report, HelperTypes
<1>5. CASE Helper
  <2>1. helper \in HelperRun
    BY <1>1, <1>5, HelperFacts DEF HelperTypes, Helper, nmount, adjust_tmpfs, directory_attributes,
       protect_regular_file_parent, nmount_regular_file_nullfs, restore_directory_attributes,
       rollback_regular_file_mount, HelperKilled
  <2>2. helper.pc \in {"attrs", "chown", "chmod", "rechown", "rechmod"} =>
           Dir \in FileParents /\ attrs[Dir] \in Attrs /\ helper.saved \in Attrs
    BY <1>1, <2>1, DirTyped DEF HelperTypes, HelperRun
  <2>3. CASE nmount \/ adjust_tmpfs \/ nmount_regular_file_nullfs \/ rollback_regular_file_mount
             \/ HelperKilled
    <3>1. helper' \in HelperRun
      BY <2>1, <2>3 DEF nmount, adjust_tmpfs, nmount_regular_file_nullfs, HelperRun, HelperPCs,
         rollback_regular_file_mount, HelperKilled, HelperStep
    <3>2. UNCHANGED <<peer, attrs>>
      BY <2>3 DEF nmount, adjust_tmpfs, nmount_regular_file_nullfs,
         rollback_regular_file_mount, HelperKilled, HelperStep
    <3> QED  BY <1>1, <3>1, <3>2 DEF HelperTypes
  <2>4. CASE directory_attributes
    <3>1. helper' \in HelperRun
      BY <2>1, <2>2, <2>4 DEF directory_attributes, HelperRun, HelperPCs, HelperStep
    <3> QED  BY <1>1, <2>4, <3>1 DEF directory_attributes, HelperStep, HelperTypes
  <2>5. CASE protect_regular_file_parent
    <3>1. helper' \in HelperRun
      BY <2>1, <2>5 DEF protect_regular_file_parent, HelperRun, HelperPCs, HelperStep
    <3>2. attrs' \in [FileParents -> Attrs]
      <4>1. \/ UNCHANGED attrs
            \/ attrs' = WithOwner(Dir, "root")
            \/ attrs' = WithMode(Dir, FALSE)
        BY <2>5 DEF protect_regular_file_parent, WithOwner, WithMode
      <4>2. Dir \in FileParents
        BY <2>2, <2>5 DEF protect_regular_file_parent
      <4> QED  BY <1>1, <4>1, <4>2, AttrChanges DEF HelperTypes
    <3> QED  BY <1>1, <2>5, <3>1, <3>2 DEF protect_regular_file_parent, HelperStep, HelperTypes
  <2>6. CASE restore_directory_attributes
    <3>1. helper' \in HelperRun
      BY <2>1, <2>6 DEF restore_directory_attributes, Verdict, HelperRun, HelperPCs, HelperStep
    <3>2. helper.saved.owner \in {"caller", "root"} /\ helper.saved.w \in BOOLEAN
      BY <2>2, <2>6 DEF restore_directory_attributes, Attrs
    <3>3. attrs' \in [FileParents -> Attrs]
      <4>1. \/ UNCHANGED attrs
            \/ attrs' = WithOwner(Dir, helper.saved.owner)
            \/ attrs' = WithMode(Dir, helper.saved.w)
        BY <2>6 DEF restore_directory_attributes, WithOwner, WithMode
      <4>2. Dir \in FileParents
        BY <2>2, <2>6 DEF restore_directory_attributes
      <4>3. /\ WithOwner(Dir, helper.saved.owner) \in [FileParents -> Attrs]
            /\ WithMode(Dir, helper.saved.w) \in [FileParents -> Attrs]
        BY <1>1, <3>2, <4>2, AttrChanges, Zenon DEF HelperTypes
      <4> QED  BY <1>1, <4>1, <4>3 DEF HelperTypes
    <3> QED  BY <1>1, <2>6, <3>1, <3>3 DEF restore_directory_attributes, HelperStep, HelperTypes
  <2> QED  BY <1>5, <2>3, <2>4, <2>5, <2>6 DEF Helper
<1>6. CASE PeerStep
  <2>1. peer = Idle \/ (peer \in PeerRun /\ peer.dir \in FileParents /\ peer.saved \in Attrs)
    BY <1>1 DEF HelperTypes, PeerRun
  <2>2. peer' \in PeerRun
    BY <1>1, <1>6, <2>1 DEF PeerStep, PeerRun, Idle, HelperTypes
  <2>3. attrs' \in [FileParents -> Attrs]
    <3>1. peer # Idle => peer.saved.owner \in {"caller", "root"} /\ peer.saved.w \in BOOLEAN
      BY <2>1 DEF Attrs
    <3>2. \/ UNCHANGED attrs
          \/ peer # Idle /\ \/ attrs' = WithOwner(peer.dir, "root")
                            \/ attrs' = WithMode(peer.dir, FALSE)
                            \/ attrs' = WithOwner(peer.dir, peer.saved.owner)
                            \/ attrs' = WithMode(peer.dir, peer.saved.w)
      BY <1>6 DEF PeerStep, WithOwner, WithMode, Idle
    <3>3. peer # Idle => \A o \in {"caller", "root"}, b \in BOOLEAN :
             /\ WithOwner(peer.dir, o) \in [FileParents -> Attrs]
             /\ WithMode(peer.dir, b) \in [FileParents -> Attrs]
      BY <1>1, <2>1, AttrChanges, Zenon DEF HelperTypes
    <3>4. peer # Idle => /\ WithOwner(peer.dir, "root") \in [FileParents -> Attrs]
                         /\ WithMode(peer.dir, FALSE) \in [FileParents -> Attrs]
                         /\ WithOwner(peer.dir, peer.saved.owner) \in [FileParents -> Attrs]
                         /\ WithMode(peer.dir, peer.saved.w) \in [FileParents -> Attrs]
      BY <3>1, <3>3, Zenon
    <3> QED  BY <1>1, <3>2, <3>4 DEF HelperTypes
  <2> QED  BY <1>1, <1>6, <2>2, <2>3 DEF PeerStep, HelperTypes
<1>7. CASE \/ Merge \/ MergeEntry \/ Stage \/ MountpointTaken
           \/ AttachSandbox \/ Launch \/ ShareDocument \/ ApplicationEnds
           \/ BridgeEnds \/ BridgeReplaced
           \/ terminate_chroot_processes \/ PortalCleanup \/ UnmountNext \/ CleanResources
           \/ RemoveRoot \/ RemoveRecord \/ Finished \/ UNCHANGED vars
  BY <1>2, <1>7 DEF Merge, MergeEntry, Stage, MountpointTaken, AttachSandbox, Launch,
     ShareDocument, ApplicationEnds, BridgeEnds, BridgeReplaced, terminate_chroot_processes,
     PortalCleanup, UnmountNext, CleanResources, RemoveRoot, RemoveRecord, Finished, vars
<1> QED  BY <1>3, <1>4, <1>5, <1>6, <1>7 DEF Next

-----------------------------------------------------------------------------
(***************************************************************************)
(* What the steps do to the history, and who is at work when.              *)
(***************************************************************************)
\* What a step of the helper leaves alone; what it adds to the history.
LEMMA HelperHistory ==
    ASSUME TypeInv, HelperInv, Helper
    PROVE  /\ UNCHANGED <<pc, todo, owned, mappings, nextId, peer, bridge, pass, exists>>
           /\ helper \in HelperRun /\ helper # Idle /\ helper' \in HelperRun /\ helper' # Idle
           /\ helper'.e = helper.e
           /\ ghost'.held = ghost.held /\ ghost'.orphans = ghost.orphans
           /\ ghost'.stray = ghost.stray /\ (ghost.overlap => ghost'.overlap)
           /\ ghost.cut \subseteq ghost'.cut /\ ghost.bare \subseteq ghost'.bare
           /\ ghost.stuck \subseteq ghost'.stuck
<1>1. HelperTypes /\ ghost \in Ghosts
  BY DEF TypeInv, SystemTypes
<1>2. UNCHANGED <<pc, todo, owned, mappings, nextId, peer, bridge, pass, exists>>
  BY DEF Helper, nmount, adjust_tmpfs, directory_attributes,
     protect_regular_file_parent, nmount_regular_file_nullfs, restore_directory_attributes,
     rollback_regular_file_mount, HelperKilled, HelperStep
<1>3. helper \in HelperRun /\ helper # Idle
  BY <1>1, HelperFacts DEF HelperTypes, Helper, nmount, adjust_tmpfs, directory_attributes,
     protect_regular_file_parent, nmount_regular_file_nullfs, restore_directory_attributes,
     rollback_regular_file_mount, HelperKilled, Idle
<1>4. helper'.e = helper.e /\ helper'.pc # "idle"
  BY <1>3 DEF Helper, nmount, adjust_tmpfs, directory_attributes,
     protect_regular_file_parent, nmount_regular_file_nullfs, restore_directory_attributes,
     rollback_regular_file_mount, HelperKilled, HelperStep, Verdict, HelperRun
<1>5. helper' \in HelperRun /\ helper' # Idle
  <2>1. HelperTypes'
    BY HelperTyped DEF Next
  <2> QED  BY <1>4, <2>1 DEF HelperTypes, Idle
<1>6. Fault => /\ Faulted \in Ghosts
               /\ Faulted.cut = ghost.cut /\ Faulted.bare = ghost.bare
               /\ Faulted.stray = ghost.stray /\ Faulted.held = ghost.held
               /\ Faulted.orphans = ghost.orphans
               /\ Faulted.overlap = ghost.overlap /\ Faulted.stuck = ghost.stuck
  BY <1>1, FaultFacts
<1>7. /\ ghost'.held = ghost.held /\ ghost'.orphans = ghost.orphans
      /\ ghost'.stray = ghost.stray /\ (ghost.overlap => ghost'.overlap)
      /\ ghost.cut \subseteq ghost'.cut /\ ghost.bare \subseteq ghost'.bare
      /\ ghost.stuck \subseteq ghost'.stuck
  <2>1. CASE nmount \/ protect_regular_file_parent \/ nmount_regular_file_nullfs
             \/ rollback_regular_file_mount
    BY <1>6, <2>1 DEF nmount, protect_regular_file_parent, nmount_regular_file_nullfs,
       rollback_regular_file_mount
  <2>2. CASE adjust_tmpfs
    <3>1. \/ UNCHANGED ghost
          \/ Fault /\ ghost' = [Faulted EXCEPT !.bare = @ \cup {MountOf(helper.e, "launcher")}]
      BY <2>2 DEF adjust_tmpfs
    <3> QED  BY <1>6, <3>1 DEF Ghosts
  <2>3. CASE directory_attributes
    <3>1. \/ UNCHANGED ghost
          \/ Fault /\ ghost' = Faulted
          \/ ghost' = [ghost EXCEPT !.overlap = @ \/ (PeerLocks /\ peer.dir = Dir)]
      BY <2>3 DEF directory_attributes
    <3> QED  BY <1>1, <1>6, <3>1 DEF Ghosts
  <2>4. CASE restore_directory_attributes
    <3>1. \/ UNCHANGED ghost
          \/ Fault /\ ghost' = Faulted
          \/ Fault /\ ghost' = [Faulted EXCEPT !.stuck = @ \cup {Dir}]
      BY <2>4 DEF restore_directory_attributes
    <3> QED  BY <1>6, <3>1 DEF Ghosts
  <2>5. CASE HelperKilled
    <3>1. /\ Fault
          /\ ghost' = [Faulted EXCEPT !.cut = @ \cup (table \cap {MountOf(helper.e, "launcher")}),
                                      !.stuck = @ \cup (IF HelperLocks THEN {Dir} ELSE {})]
      BY <2>5 DEF HelperKilled
    <3> QED  BY <1>6, <3>1 DEF Ghosts
  <2> QED  BY <2>1, <2>2, <2>3, <2>4, <2>5 DEF Helper
<1> QED  BY <1>2, <1>3, <1>4, <1>5, <1>7

LEMMA PeerHistory ==
    ASSUME TypeInv, PeerStep
    PROVE  /\ UNCHANGED <<pc, todo, owned, mappings, nextId, table, helper, bridge, pass, exists>>
           /\ ghost'.held = ghost.held /\ ghost'.orphans = ghost.orphans
           /\ ghost'.stray = ghost.stray /\ (ghost.overlap => ghost'.overlap)
           /\ ghost.cut = ghost'.cut /\ ghost.bare = ghost'.bare /\ ghost.stuck = ghost'.stuck
<1>1. ghost \in Ghosts
  BY DEF TypeInv, SystemTypes
<1>2. \/ UNCHANGED ghost
      \/ \E d \in FileParents : ghost' = [ghost EXCEPT !.overlap = @ \/ (HelperLocks /\ d = Dir)]
  BY DEF PeerStep
<1> QED  BY <1>1, <1>2 DEF PeerStep, Ghosts

\* The steps that need the helper's answer first, or do not concern it.
LEMMA HelperAlone ==
    ASSUME TypeInv, WorkInv,
           \/ Merge \/ MergeEntry \/ Stage \/ RunHelper \/ MountpointTaken \/ AttachSandbox
           \/ Launch \/ ShareDocument \/ ApplicationEnds
           \/ terminate_chroot_processes \/ PortalCleanup \/ UnmountNext \/ CleanResources
           \/ RemoveRoot \/ RemoveRecord \/ Finished
    PROVE  helper = Idle
<1>1. CASE Stage \/ RunHelper \/ MountpointTaken \/ Launch
  BY <1>1 DEF Stage, RunHelper, MountpointTaken, Launch
<1>2. CASE Merge \/ MergeEntry \/ AttachSandbox
  <2>1. Head(todo).op \notin Mounting
    BY <1>2 DEF Merge, MergeEntry, AttachSandbox, Mounting
  <2>2. helper \in HelperRun => helper.e.op \in Mounting
    BY MadeFacts, MountRequestFacts
  <2> QED  BY <2>1, <2>2 DEF WorkInv, TypeInv, HelperTypes
<1>3. CASE \/ ShareDocument \/ ApplicationEnds
           \/ terminate_chroot_processes \/ PortalCleanup \/ UnmountNext \/ CleanResources
           \/ RemoveRoot \/ RemoveRecord \/ Finished
  <2>1. pc # "mount"
    BY <1>3 DEF ShareDocument, ApplicationEnds, terminate_chroot_processes, PortalCleanup,
       UnmountNext, CleanResources, RemoveRoot, RemoveRecord, Finished
  <2> QED  BY <2>1 DEF WorkInv
<1> QED  BY <1>1, <1>2, <1>3

\* What the steps of a cleanup but the unmounts add to the history: a fault.
LEMMA CleanupHistory ==
    ASSUME TypeInv,
           terminate_chroot_processes \/ PortalCleanup \/ CleanResources \/ RemoveRoot \/ RemoveRecord
    PROVE  /\ ghost'.held = ghost.held /\ ghost'.orphans = ghost.orphans
           /\ ghost'.stray = ghost.stray /\ ghost'.overlap = ghost.overlap
           /\ ghost.cut = ghost'.cut /\ ghost.bare = ghost'.bare /\ ghost.stuck = ghost'.stuck
<1>1. ghost \in Ghosts
  BY DEF TypeInv, SystemTypes
<1>2. ghost' = ghost \/ (Fault /\ ghost' = Faulted)
  BY DEF terminate_chroot_processes, PortalCleanup, CleanResources, RemoveRoot, RemoveRecord
<1> QED  BY <1>1, <1>2, FaultFacts

LEMMA AttachHistory ==
    ASSUME TypeInv, AttachSandbox, Fault, NEW left,
           ghost' = [Faulted EXCEPT !.stray = @ \cup left]
    PROVE  /\ ghost'.held = ghost.held /\ ghost'.orphans = ghost.orphans
           /\ ghost'.stray = ghost.stray \cup left /\ ghost'.overlap = ghost.overlap
           /\ ghost.cut = ghost'.cut /\ ghost.bare = ghost'.bare /\ ghost.stuck = ghost'.stuck
<1>1. ghost \in Ghosts
  BY DEF TypeInv, SystemTypes
<1> QED  BY <1>1, FaultFacts DEF Ghosts

LEMMA UnmountHistory ==
    ASSUME TypeInv, UnmountNext
    PROVE  /\ ghost'.stray = ghost.stray /\ ghost'.overlap = ghost.overlap
           /\ ghost.cut = ghost'.cut /\ ghost.bare = ghost'.bare /\ ghost.stuck = ghost'.stuck
           /\ ghost.held \subseteq ghost'.held /\ ghost.orphans \subseteq ghost'.orphans
<1>1. ghost \in Ghosts
  BY DEF TypeInv, SystemTypes
<1>2. PICK m \in pass.left :
         LET at == {x \in table : x.path = m.path}
             users == UNION {Users(x) : x \in at}
         IN \/ UNCHANGED ghost
            \/ ghost' = [ghost EXCEPT !.faults = IF users = {} THEN @ + 1 ELSE @,
                                      !.orphans = @ \cup users]
            \/ ghost' = [ghost EXCEPT !.held = @ \cup at]
            \/ Fault /\ ghost' = [Faulted EXCEPT !.held = @ \cup at]
  BY DEF UnmountNext
<1> DEFINE at == {x \in table : x.path = m.path}
           users == UNION {Users(x) : x \in at}
<1>3. \/ UNCHANGED ghost
      \/ ghost' = [ghost EXCEPT !.faults = IF users = {} THEN @ + 1 ELSE @,
                                !.orphans = @ \cup users]
      \/ ghost' = [ghost EXCEPT !.held = @ \cup at]
      \/ Fault /\ ghost' = [Faulted EXCEPT !.held = @ \cup at]
  BY <1>2
<1> HIDE DEF at, users
<1> QED  BY <1>1, <1>3, FaultFacts DEF Ghosts

LEMMA WorkKept ==
    ASSUME TypeInv, WorkInv, HelperInv, [Next]_vars
    PROVE  WorkInv'
<1>1. CASE UNCHANGED vars \/ Finished
  BY <1>1 DEF Finished, vars, WorkInv
<1>2. CASE PeerStep
  BY <1>2, PeerHistory DEF WorkInv
<1>3. CASE Helper
  BY <1>3, HelperHistory DEF WorkInv
<1>4. CASE Report
  BY <1>4 DEF Report, WorkInv, GiveUp
<1>5. CASE RunHelper
  BY <1>5 DEF RunHelper, WorkInv
<1>6. CASE \/ Merge \/ MergeEntry \/ Stage \/ MountpointTaken \/ Launch \/ ShareDocument
           \/ ApplicationEnds
  <2>1. helper = Idle
    BY <1>6, HelperAlone
  <2> QED  BY <1>6, <2>1 DEF Merge, MergeEntry, Stage, MountpointTaken, Launch, ShareDocument,
              ApplicationEnds, GiveUp, WorkInv
<1>7. CASE AttachSandbox
  <2>1. helper = Idle
    BY <1>7, HelperAlone
  <2> QED  BY <1>7, <2>1 DEF AttachSandbox, GiveUp, WorkInv
<1>8. CASE \/ terminate_chroot_processes \/ PortalCleanup \/ UnmountNext \/ CleanResources
           \/ RemoveRoot \/ RemoveRecord
  <2>1. helper = Idle
    BY <1>8, HelperAlone
  <2> QED  BY <1>8, <2>1 DEF terminate_chroot_processes, PortalCleanup, UnmountNext,
              CleanResources, RemoveRoot, RemoveRecord, PassFails, WorkInv
<1>9. CASE BridgeEnds \/ BridgeReplaced
  BY <1>9, BridgeHistory DEF WorkInv
<1> QED  BY <1>1, <1>2, <1>3, <1>4, <1>5, <1>6, <1>7, <1>8, <1>9 DEF Next

-----------------------------------------------------------------------------
(***************************************************************************)
(* The mount table.                                                        *)
(***************************************************************************)
\* Only the helper and the bridge mount anything.
LEMMA TableSteps ==
    ASSUME TypeInv, HelperInv, [Next]_vars
    PROVE  \/ table' \subseteq table
           \/ /\ Helper /\ helper \in HelperRun /\ Free(helper.e.target)
              /\ table' = table \cup {Made} /\ UNCHANGED ghost
              /\ helper'.pc # "error"
           \/ /\ AttachSandbox \/ ShareDocument
              /\ \E G \in SUBSET GrantMounts : table' = table \cup G
<1>1. CASE \/ Merge \/ MergeEntry \/ Stage \/ RunHelper \/ MountpointTaken \/ Report
           \/ Launch \/ ApplicationEnds \/ PeerStep \/ terminate_chroot_processes
           \/ CleanResources \/ RemoveRoot \/ RemoveRecord \/ Finished \/ UNCHANGED vars
  BY <1>1 DEF Merge, MergeEntry, Stage, RunHelper, MountpointTaken, Report, Launch,
     ApplicationEnds, PeerStep, terminate_chroot_processes, CleanResources, RemoveRoot,
     RemoveRecord, Finished, vars
<1>2. CASE PortalCleanup
  BY <1>2 DEF PortalCleanup
<1>3. CASE UnmountNext
  BY <1>3 DEF UnmountNext
<1>4. CASE ShareDocument
  <2>1. PICK m \in GrantMounts : table' = table \ {m} \/ table' = table \cup {m}
    BY <1>4 DEF ShareDocument
  <2>2. {m} \in SUBSET GrantMounts
    OBVIOUS
  <2> QED  BY <1>4, <2>1, <2>2
<1>5. CASE AttachSandbox
  <2>1. \A left \in {{}} \cup {{m} : m \in GrantMounts} : left \in SUBSET GrantMounts
    OBVIOUS
  <2> QED  BY <1>5, <2>1 DEF AttachSandbox
<1>6. CASE Helper
  <2>1. helper \in HelperRun /\ helper # Idle
    BY <1>6, HelperHistory
  <2>2. CASE table' = table \cup {Made} /\ helper.pc \in {"mount", "nmount"} /\ UNCHANGED ghost
             /\ helper'.pc # "error"
    BY <1>6, <2>1, <2>2 DEF HelperInv
  <2>3. CASE nmount \/ nmount_regular_file_nullfs
    BY <2>1, <2>2, <2>3 DEF nmount, nmount_regular_file_nullfs, Made, HelperStep, HelperRun
  <2>4. CASE adjust_tmpfs \/ directory_attributes \/ protect_regular_file_parent
             \/ restore_directory_attributes \/ rollback_regular_file_mount \/ HelperKilled
    BY <2>4 DEF adjust_tmpfs, directory_attributes, protect_regular_file_parent,
       restore_directory_attributes, rollback_regular_file_mount, HelperKilled
  <2> QED  BY <1>6, <2>3, <2>4 DEF Helper
<1>7. CASE BridgeEnds \/ BridgeReplaced
  BY <1>7, BridgeHistory
<1> QED  BY <1>1, <1>2, <1>3, <1>4, <1>5, <1>6, <1>7 DEF Next

\* A grant is mounted where the launcher mounts nothing.
LEMMA GrantPath ==
    ASSUME MountInv, NEW g \in Grants, NEW m \in table, m.path = g
    PROVE  m = GrantMount(g)
<1>1. ~ SoundPlace(g, m.ro)
  BY PlanAssumption DEF SoundPlace
<1>2. PICK h \in Grants : m = GrantMount(h)
  BY <1>1 DEF MountInv
<1> QED  BY <1>2 DEF GrantMount

\* What MountInv says of the table.
TableSound(T) ==
    /\ \A m \in T : IF m.by = "launcher"
                    THEN SoundPlace(m.path, m.ro) /\ SoundSource(m.path, m.source)
                    ELSE \E g \in Grants : m = GrantMount(g)
    /\ \A m, n \in T : m.path = n.path => m = n

LEMMA TableKept ==
    ASSUME TypeInv, MountInv, HelperInv, [Next]_vars
    PROVE  TableSound(table')
<1>0. TableSound(table)
  BY DEF MountInv, TableSound
<1>1. CASE table' \subseteq table
  BY <1>0, <1>1 DEF TableSound
<1>2. CASE helper \in HelperRun /\ Free(helper.e.target) /\ table' = table \cup {Made}
  BY <1>0, <1>2, MadeFacts DEF TableSound, Free
<1>3. ASSUME NEW G \in SUBSET GrantMounts, table' = table \cup G
      PROVE  TableSound(table')
  <2>1. \A m \in G : m.by = "bridge" /\ \E g \in Grants : m = GrantMount(g) /\ m.path = g
    BY GrantMountsTyped DEF GrantMount
  <2>2. \A g \in Grants, m \in table : m.path = g => m = GrantMount(g)
    BY GrantPath
  <2>3. ASSUME NEW m \in table'
        PROVE  IF m.by = "launcher"
               THEN SoundPlace(m.path, m.ro) /\ SoundSource(m.path, m.source)
               ELSE \E g \in Grants : m = GrantMount(g)
    BY <1>0, <1>3, <2>1 DEF TableSound
  <2>4. ASSUME NEW m \in table', NEW n \in table', m.path = n.path  PROVE m = n
    BY <1>0, <1>3, <2>1, <2>2, <2>4 DEF TableSound
  <2> QED  BY <2>3, <2>4 DEF TableSound
<1> QED  BY <1>1, <1>2, <1>3, TableSteps

LEMMA MountKept ==
    ASSUME TypeInv, WorkInv, MountInv, HelperInv, PassInv, [Next]_vars
    PROVE  MountInv'
<1>1. TableSound(table')
  BY TableKept
<1>2. /\ \A o \in owned' : SoundPlace(o.path, o.ro)
      /\ \A x \in mappings' : SoundMapping(x.source, x.target)
  <2>1. CASE UNCHANGED <<owned, mappings>>
    BY <2>1 DEF MountInv
  <2>2. CASE Report
    <3>1. CASE UNCHANGED <<owned, mappings>>
      BY <2>1, <3>1
    <3>2. CASE /\ owned' = owned \cup {[path |-> helper.e.target, ro |-> helper.e.ro]}
               /\ mappings' = IF helper.e.op = "nullfs"
                   THEN mappings \cup {[source |-> helper.e.origin, target |-> helper.e.target]}
                   ELSE mappings
      <4>1. helper \in HelperRun
        BY <2>2, HelperFacts DEF Report, TypeInv, HelperTypes
      <4>2. /\ SoundPlace(helper.e.target, helper.e.ro)
            /\ helper.e.op = "nullfs" => SoundMapping(helper.e.origin, helper.e.target)
        BY <4>1, MadeFacts, MountRequestFacts
      <4> QED  BY <3>2, <4>2 DEF MountInv
    <3> QED  BY <2>2, <3>1, <3>2 DEF Report
  <2>3. CASE CleanResources
    BY <2>3 DEF CleanResources, PassInv, MountInv
  <2>4. CASE Helper
    BY <2>1, <2>4, HelperHistory
  <2>5. CASE \/ Merge \/ MergeEntry \/ Stage \/ RunHelper \/ MountpointTaken \/ AttachSandbox
             \/ Launch \/ ShareDocument \/ ApplicationEnds \/ BridgeEnds \/ BridgeReplaced
             \/ PeerStep \/ terminate_chroot_processes \/ PortalCleanup \/ UnmountNext \/ RemoveRoot
             \/ RemoveRecord \/ Finished \/ UNCHANGED vars
    BY <2>1, <2>5 DEF Merge, MergeEntry, Stage, RunHelper, MountpointTaken, AttachSandbox,
       Launch, ShareDocument, ApplicationEnds, BridgeEnds, BridgeReplaced, PeerStep,
       terminate_chroot_processes, PortalCleanup, UnmountNext, RemoveRoot, RemoveRecord, Finished, vars
  <2> QED  BY <2>2, <2>3, <2>4, <2>5 DEF Next
<1> QED  BY <1>1, <1>2 DEF MountInv, TableSound

\* The mount of a helper is the only one at its target.
LEMMA MadeAlone ==
    ASSUME MountInv, helper \in HelperRun, Made \in table, NEW m \in table,
           m.path = helper.e.target
    PROVE  m = Made
BY MadeFacts DEF MountInv

LEMMA HelperKept ==
    ASSUME TypeInv, WorkInv, MountInv, HelperInv, [Next]_vars
    PROVE  HelperInv'
<1>1. CASE UNCHANGED vars \/ Finished
  BY <1>1 DEF Finished, vars, HelperInv, Made, Free
<1>2. CASE PeerStep
  BY <1>2, PeerHistory DEF HelperInv, Made, Free
<1>3. CASE Report
  BY <1>3 DEF Report, HelperInv
<1>4. CASE RunHelper
  <2>1. Head(todo) \in MountRequest
    BY <1>4, HeadTail, RequestKinds DEF RunHelper, TypeInv, LauncherTypes
  <2> QED  BY <1>4, <2>1, MountRequestFacts DEF RunHelper, HelperInv, Made, Free
<1>5. CASE \/ Merge \/ MergeEntry \/ Stage \/ MountpointTaken \/ AttachSandbox
           \/ Launch \/ ShareDocument \/ ApplicationEnds
           \/ terminate_chroot_processes \/ PortalCleanup \/ UnmountNext \/ CleanResources
           \/ RemoveRoot \/ RemoveRecord
  <2>1. helper' = Idle
    BY <1>5, HelperAlone DEF Merge, MergeEntry, Stage, MountpointTaken, AttachSandbox,
       Launch, ShareDocument, ApplicationEnds, terminate_chroot_processes, PortalCleanup,
       UnmountNext, CleanResources, RemoveRoot, RemoveRecord
  <2> QED  BY <2>1 DEF HelperInv
<1>6. CASE Helper
  <2>1. /\ helper \in HelperRun /\ helper # Idle /\ helper' \in HelperRun /\ helper' # Idle
        /\ helper'.e = helper.e /\ Made' = Made /\ ghost \in Ghosts
        /\ ghost.cut \subseteq ghost'.cut /\ ghost.bare \subseteq ghost'.bare
        /\ Made.path = helper.e.target
    BY <1>6, HelperHistory, MadeFacts DEF Made, TypeInv, SystemTypes
  <2>2. \A m \in table : Made \in table /\ m.path = helper.e.target => m = Made
    BY <2>1, MadeAlone
  <2>3. CASE nmount
    BY <2>1, <2>3 DEF nmount, HelperInv, HelperStep, HelperRun, Made, Free
  <2>4. CASE adjust_tmpfs
    <3>1. CASE ghost' = [Faulted EXCEPT !.bare = @ \cup {Made}] /\ Fault
               /\ helper' = [helper EXCEPT !.pc = "error"] /\ UNCHANGED table
      <4>1. Made \in ghost'.bare
        BY <2>1, <3>1, FaultFacts DEF Ghosts
      <4> QED  BY <2>1, <2>2, <2>4, <3>1, <4>1 DEF adjust_tmpfs, HelperInv, HelperRun
    <3>2. CASE helper' = [helper EXCEPT !.pc = "ok"] /\ UNCHANGED <<table, ghost>>
      BY <2>1, <2>4, <3>2 DEF adjust_tmpfs, HelperInv, HelperRun
    <3> QED  BY <2>4, <3>1, <3>2 DEF adjust_tmpfs, HelperStep, Made
  <2>5. CASE directory_attributes
    BY <2>1, <2>5 DEF directory_attributes, HelperInv, HelperStep, HelperRun, Free
  <2>6. CASE protect_regular_file_parent
    BY <2>1, <2>6 DEF protect_regular_file_parent, HelperInv, HelperStep, HelperRun, Free
  <2>7. CASE nmount_regular_file_nullfs
    BY <2>1, <2>7 DEF nmount_regular_file_nullfs, HelperInv, HelperStep, HelperRun, Made, Free
  <2>8. CASE restore_directory_attributes
    BY <2>1, <2>8 DEF restore_directory_attributes, HelperInv, HelperStep, HelperRun, Verdict, Free
  <2>9. CASE rollback_regular_file_mount
    <3>1. table' = table \ {Made} => \A m \in table' : m.path # helper.e.target
      BY <2>1, <2>2, <2>9 DEF rollback_regular_file_mount, HelperInv
    <3>2. /\ helper.pc = "rollback" /\ helper.locked /\ helper.e.file /\ helper.mounted
          /\ Made \in table
      BY <2>1, <2>9 DEF rollback_regular_file_mount, HelperInv
    <3>3. CASE table' = table \ {Made}
               /\ helper' = [helper EXCEPT !.pc = "rechown", !.mounted = FALSE, !.rolled = "done"]
      <4>1. helper'.pc = "rechown" /\ ~ helper'.mounted /\ helper'.locked /\ helper'.e.file
        BY <2>1, <3>2, <3>3 DEF HelperRun
      <4> QED  BY <2>1, <3>1, <3>3, <4>1 DEF HelperInv, Free
    <3>4. CASE UNCHANGED table /\ helper' = [helper EXCEPT !.pc = "rechown", !.rolled = "failed"]
      <4>1. helper'.pc = "rechown" /\ helper'.mounted /\ helper'.locked /\ helper'.e.file
        BY <2>1, <3>2, <3>4 DEF HelperRun
      <4> QED  BY <2>1, <3>2, <3>4, <4>1 DEF HelperInv
    <3> QED  BY <2>9, <3>3, <3>4 DEF rollback_regular_file_mount, HelperStep, Made
  <2>10. CASE HelperKilled
    <3>1. Fault /\ ghost' = [Faulted EXCEPT !.cut = @ \cup (table \cap {Made}),
                                            !.stuck = @ \cup (IF HelperLocks THEN {Dir} ELSE {})]
      BY <2>10 DEF HelperKilled, Made
    <3>2. table \cap {Made} \subseteq ghost'.cut
      BY <2>1, <3>1, FaultFacts DEF Ghosts
    <3>3. \A m \in table : m.path = helper.e.target => m = Made
      <4>1. helper.pc # "error"
        BY <2>10 DEF HelperKilled
      <4>2. Free(helper.e.target) \/ Made \in table
        BY <2>1, <4>1 DEF HelperInv, HelperRun, HelperPCs
      <4> QED  BY <2>2, <4>2 DEF Free
    <3>4. helper'.pc = "error" /\ UNCHANGED table
      BY <2>1, <2>10 DEF HelperKilled, HelperStep, HelperRun
    <3> QED  BY <2>1, <3>2, <3>3, <3>4 DEF HelperInv
  <2> QED  BY <1>6, <2>3, <2>4, <2>5, <2>6, <2>7, <2>8, <2>9, <2>10 DEF Helper
<1>7. CASE BridgeEnds \/ BridgeReplaced
  <2>1. helper \in HelperRun => Made.by = "launcher"
    BY MadeFacts
  <2>2. helper # Idle => (Made \in table => Made \in table')
    BY <1>7, <2>1, BridgeHistory DEF TypeInv, HelperTypes
  <2>3. UNCHANGED helper /\ Made' = Made /\ table' \subseteq table
        /\ ghost'.cut = ghost.cut /\ ghost'.bare = ghost.bare
    BY <1>7, BridgeHistory DEF Made
  <2> QED  BY <2>2, <2>3 DEF HelperInv, Free
<1> QED  BY <1>1, <1>2, <1>3, <1>4, <1>5, <1>6, <1>7 DEF Next

\* A mount that nobody knows of any more stays so.
LEMMA LooseKept ==
    ASSUME TypeInv, WorkInv, HelperInv, [Next]_vars
    PROVE  /\ ghost.cut \subseteq ghost'.cut /\ ghost.bare \subseteq ghost'.bare
           /\ ghost.stray \subseteq ghost'.stray
           /\ ghost.held \subseteq ghost'.held /\ ghost.orphans \subseteq ghost'.orphans
           /\ UnmountNext \/ ghost'.orphans = ghost.orphans
<1>1. CASE Helper
  BY <1>1, HelperHistory
<1>2. CASE PeerStep
  BY <1>2, PeerHistory
<1>3. CASE AttachSandbox
  <2>1. CASE UNCHANGED ghost
    BY <2>1
  <2>2. ASSUME Fault, NEW left, ghost' = [Faulted EXCEPT !.stray = @ \cup left]
        PROVE  /\ ghost'.held = ghost.held /\ ghost'.orphans = ghost.orphans
               /\ ghost'.cut = ghost.cut /\ ghost'.bare = ghost.bare
               /\ ghost.stray \subseteq ghost'.stray
    BY <1>3, <2>2, AttachHistory
  <2> QED  BY <1>3, <2>1, <2>2 DEF AttachSandbox
<1>4. CASE UnmountNext
  BY <1>4, UnmountHistory
<1>5. CASE terminate_chroot_processes \/ PortalCleanup \/ CleanResources \/ RemoveRoot \/ RemoveRecord
  BY <1>5, CleanupHistory
<1>6. CASE \/ Merge \/ MergeEntry \/ Stage \/ RunHelper \/ MountpointTaken \/ Report
           \/ Launch \/ ShareDocument \/ ApplicationEnds \/ Finished \/ UNCHANGED vars
  BY <1>6 DEF Merge, MergeEntry, Stage, RunHelper, MountpointTaken, Report, Launch,
     ShareDocument, ApplicationEnds, Finished, vars
<1>7. CASE BridgeEnds \/ BridgeReplaced
  BY <1>7, BridgeHistory
<1> QED  BY <1>1, <1>2, <1>3, <1>4, <1>5, <1>6, <1>7 DEF Next

LEMMA BridgeKept ==
    ASSUME TypeInv, HelperInv, BridgeInv, [Next]_vars
    PROVE  BridgeInv'
<1>0. bridge \in Bridges
  BY DEF TypeInv, SystemTypes
<1>1. CASE UNCHANGED bridge
  BY <1>1 DEF BridgeInv
<1>2. CASE AttachSandbox \/ ShareDocument \/ BridgeEnds \/ BridgeReplaced
  BY <1>0, <1>2 DEF AttachSandbox, ShareDocument, BridgeEnds, BridgeReplaced, BridgeInv, Bridges
<1>3. CASE PortalCleanup
  <2>1. ASSUME NEW stopped, NEW rest,
               bridge' = [up |-> ~ stopped, registered |-> FALSE,
                          targets |-> IF stopped THEN {} ELSE rest, proxy |-> FALSE]
        PROVE  ~ bridge'.registered
    BY <2>1
  <2>2. ASSUME NEW left, bridge' = [bridge EXCEPT !.targets = @ \ (Detachable \ left),
                                                  !.registered = @ /\ left # {}]
        PROVE  bridge'.proxy = bridge.proxy /\ (bridge'.registered => bridge.registered)
    BY <1>0, <2>2 DEF Bridges
  <2> QED  BY <1>1, <1>3, <2>1, <2>2 DEF PortalCleanup, BridgeInv
<1>4. CASE Helper
  BY <1>1, <1>4, HelperHistory
<1>5. CASE \/ Merge \/ MergeEntry \/ Stage \/ RunHelper \/ MountpointTaken \/ Report
           \/ Launch \/ ApplicationEnds \/ PeerStep \/ terminate_chroot_processes
           \/ UnmountNext \/ CleanResources \/ RemoveRoot \/ RemoveRecord \/ Finished
           \/ UNCHANGED vars
  BY <1>1, <1>5 DEF Merge, MergeEntry, Stage, RunHelper, MountpointTaken, Report, Launch,
     ApplicationEnds, PeerStep, terminate_chroot_processes, UnmountNext, CleanResources,
     RemoveRoot, RemoveRecord, Finished, vars
<1> QED  BY <1>2, <1>3, <1>4, <1>5 DEF Next

LEMMA KnownKept ==
    ASSUME TypeInv, WorkInv, MountInv, HelperInv, KnownInv, PassInv, [Next]_vars
    PROVE  KnownInv'
<1>0. HelperInv' /\ ghost.cut \subseteq ghost'.cut /\ ghost.bare \subseteq ghost'.bare
      /\ ghost.stray \subseteq ghost'.stray
  BY HelperKept, LooseKept
<1>1. CASE UNCHANGED vars \/ Finished
  BY <1>1 DEF Finished, vars, KnownInv
<1>2. CASE PeerStep
  BY <1>2, PeerHistory DEF KnownInv
<1>3. CASE Report
  <2>1. helper # Idle
    BY <1>3 DEF Report, Idle
  <2>2. UNCHANGED <<table, bridge, ghost>>
    BY <1>3 DEF Report
  <2>3. CASE helper.pc = "error" /\ UNCHANGED owned
    BY <2>2, <2>3 DEF KnownInv
  <2>4. CASE owned' = owned \cup {[path |-> helper.e.target, ro |-> helper.e.ro]}
    <3> DEFINE o == [path |-> helper.e.target, ro |-> helper.e.ro]
    <3>1. owned \subseteq owned' /\ o \in owned' /\ o.path = helper.e.target
      BY <2>4
    <3> HIDE DEF o
    <3> QED  BY <2>2, <3>1 DEF KnownInv
  <2> QED  BY <1>3, <2>3, <2>4 DEF Report
<1>4. CASE Merge \/ MergeEntry \/ Stage \/ RunHelper \/ MountpointTaken \/ Launch \/ ApplicationEnds
  <2>1. helper = Idle /\ UNCHANGED <<table, owned, bridge, ghost>>
    BY <1>4, HelperAlone DEF Merge, MergeEntry, Stage, RunHelper, MountpointTaken, Launch,
       ApplicationEnds
  <2> QED  BY <2>1 DEF KnownInv
<1>5. CASE AttachSandbox
  <2>1. helper = Idle /\ UNCHANGED <<owned, helper>> /\ bridge \in Bridges
    BY <1>5, HelperAlone DEF AttachSandbox, TypeInv, SystemTypes
  <2>2. CASE /\ table' = table \cup GrantMounts
             /\ bridge' = [bridge EXCEPT !.registered = TRUE, !.targets = GrantMounts]
             /\ UNCHANGED ghost
    <3>1. bridge'.registered /\ bridge'.targets = GrantMounts
      BY <2>1, <2>2 DEF Bridges
    <3>2. \A m \in table' : m.by # "launcher" => m \in GrantMounts
      BY <2>2 DEF MountInv, GrantMounts
    <3>3. \A m \in table' : m.by = "launcher" => m \in table
      BY <2>2, GrantMountsTyped
    <3> QED  BY <1>0, <2>1, <3>1, <3>2, <3>3 DEF KnownInv
  <2>3. ASSUME Fault, NEW left \in SUBSET GrantMounts, table' = table \cup left,
               bridge' = [bridge EXCEPT !.targets = @ \cup left],
               ghost' = [Faulted EXCEPT !.stray = @ \cup left]
        PROVE  KnownInv'
    <3>1. left \subseteq ghost'.stray
      BY <1>5, <2>3, AttachHistory
    <3>2. bridge'.registered = bridge.registered /\ bridge.targets \subseteq bridge'.targets
      BY <2>1, <2>3 DEF Bridges
    <3>3. \A m \in left : m.by # "launcher"
      BY <2>3, GrantMountsTyped
    <3> QED  BY <1>0, <2>1, <2>3, <3>1, <3>2, <3>3 DEF KnownInv
  <2>4. CASE UNCHANGED <<table, bridge, ghost>>
    BY <2>1, <2>4 DEF KnownInv
  <2>5. \A left \in {{}} \cup {{m} : m \in GrantMounts} : left \in SUBSET GrantMounts
    OBVIOUS
  <2> QED  BY <1>5, <2>2, <2>3, <2>4, <2>5 DEF AttachSandbox
<1>6. CASE ShareDocument
  <2>1. bridge.registered /\ UNCHANGED <<owned, helper, ghost>> /\ bridge \in Bridges
    BY <1>6 DEF ShareDocument, TypeInv, SystemTypes
  <2>2. PICK g \in GrantMounts :
           \/ table' = table \ {g} /\ bridge' = [bridge EXCEPT !.targets = @ \ {g}]
           \/ table' = table \cup {g} /\ bridge' = [bridge EXCEPT !.targets = @ \cup {g}]
    BY <1>6 DEF ShareDocument
  <2>3. bridge'.registered /\ \A m \in table' : m \in bridge.targets \/ m = g => m \in bridge'.targets
    BY <2>1, <2>2 DEF Bridges
  <2>4. g.by = "bridge" /\ \A m \in table' : m \in table \/ m = g
    BY <2>2, GrantMountsTyped
  <2> QED  BY <2>1, <2>3, <2>4 DEF KnownInv
<1>7. CASE Helper
  <2>1. /\ helper # Idle /\ helper' # Idle /\ helper'.e = helper.e /\ helper \in HelperRun
        /\ UNCHANGED <<owned, bridge>>
    BY <1>7, HelperHistory
  <2>2. ASSUME NEW m \in table', m.by = "launcher"
        PROVE  \/ \E o \in owned' : o.path = m.path
               \/ helper' # Idle /\ helper'.pc # "error" /\ helper'.e.target = m.path
               \/ m \in ghost'.cut \cup ghost'.bare
    <3>1. CASE m.path = helper.e.target
      BY <1>0, <2>1, <3>1 DEF HelperInv
    <3>2. CASE m \in table /\ m.path # helper.e.target
      BY <1>0, <2>1, <2>2, <3>2 DEF KnownInv
    <3>3. m \in table \/ m = Made
      BY <1>7, <2>1, <2>2, TableSteps, HelperAlone
    <3> QED  BY <2>1, <3>1, <3>2, <3>3, MadeFacts
  <2>3. ASSUME NEW m \in table', m.by # "launcher"
        PROVE  m \in ghost'.stray \/ (bridge'.registered /\ m \in bridge'.targets)
    <3>1. m \in table
      BY <1>7, <2>1, <2>3, TableSteps, HelperAlone, MadeFacts
    <3> QED  BY <1>0, <2>1, <2>3, <3>1 DEF KnownInv
  <2> QED  BY <2>2, <2>3 DEF KnownInv
<1>8. CASE terminate_chroot_processes \/ UnmountNext \/ RemoveRoot \/ RemoveRecord
  <2>1. helper = Idle /\ UNCHANGED <<owned, bridge, helper>> /\ table' \subseteq table
    BY <1>8, HelperAlone DEF terminate_chroot_processes, UnmountNext, RemoveRoot, RemoveRecord
  <2> QED  BY <1>0, <2>1 DEF KnownInv
<1>9. CASE PortalCleanup
  <2>1. helper = Idle /\ UNCHANGED <<owned, helper>> /\ table' \subseteq table /\ bridge \in Bridges
    BY <1>9, HelperAlone DEF PortalCleanup, TypeInv, SystemTypes
  <2>2. ASSUME NEW m \in table', m.by # "launcher"
        PROVE  m \in ghost'.stray \/ (bridge'.registered /\ m \in bridge'.targets)
    <3>1. m \in ghost.stray \/ (bridge.registered /\ m \in bridge.targets)
      BY <2>1, <2>2 DEF KnownInv
    <3>2. CASE UNCHANGED bridge
      BY <1>0, <3>1, <3>2
    <3>3. ASSUME NEW rest \in SUBSET (bridge.targets \ Detachable),
                 table' = table \ (bridge.targets \ rest)
          PROVE  m \in ghost'.stray
      BY <1>0, <2>2, <3>1, <3>3 DEF Detachable
    <3>4. ASSUME NEW left \in SUBSET Detachable, table' = table \ (Detachable \ left),
                 bridge' = [bridge EXCEPT !.targets = @ \ (Detachable \ left),
                                          !.registered = @ /\ left # {}]
          PROVE  m \in ghost'.stray \/ (bridge'.registered /\ m \in bridge'.targets)
      <4>1. /\ bridge'.targets = bridge.targets \ (Detachable \ left)
            /\ bridge'.registered <=> bridge.registered /\ left # {}
        BY <2>1, <3>4 DEF Bridges
      <4> QED  BY <1>0, <2>2, <3>1, <3>4, <4>1 DEF Detachable
    <3> QED  BY <1>9, <3>2, <3>3, <3>4 DEF PortalCleanup
  <2> QED  BY <1>0, <2>1, <2>2 DEF KnownInv
<1>10. CASE CleanResources
  <2>1. /\ helper = Idle /\ UNCHANGED <<bridge, helper, table>> /\ owned' = pass.kept
        /\ pass.left = {} /\ pc = "unmount"
    BY <1>10, HelperAlone DEF CleanResources
  <2>2. \A o \in owned : o \in owned' \/ Free(o.path)
    BY <2>1 DEF PassInv
  <2> QED  BY <1>0, <2>1, <2>2 DEF KnownInv, Free
<1>11. CASE BridgeEnds \/ BridgeReplaced
  <2>1. /\ UNCHANGED <<owned, helper>> /\ table' \subseteq table
        /\ \A m \in table' : m \in bridge.targets /\ bridge.registered =>
              m \in ghost'.stray \/ (bridge'.registered /\ m \in bridge'.targets)
    BY <1>11, BridgeHistory
  <2> QED  BY <1>0, <2>1 DEF KnownInv
<1> QED  BY <1>1, <1>2, <1>3, <1>4, <1>5, <1>6, <1>7, <1>8, <1>9, <1>10, <1>11 DEF Next

LEMMA GiveUpPass ==
    ASSUME GiveUp
    PROVE  /\ pc' = "cleanup" /\ ~ pass'.errors /\ ~ pass'.portal
           /\ pass'.left = {} /\ pass'.kept = {}
BY NoPassTyped DEF GiveUp

LEMMA PassFailsPass ==
    ASSUME PassFails, pass.left = {}
    PROVE  /\ pc' \in {"cleanup", "abandoned"} /\ pass'.left = {}
           /\ pc' = "cleanup" => ~ pass'.errors /\ ~ pass'.portal /\ pass'.kept = {}
BY NoPassTyped DEF PassFails

LEMMA PortalPass ==
    ASSUME TypeInv, PassInv, BridgeInv, PortalCleanup
    PROVE  /\ pc' = "unmount" /\ pass'.left = owned /\ pass'.kept = {} /\ UNCHANGED owned
           /\ pass'.portal => pass'.errors
           /\ bridge'.registered => pass'.portal
<1>1. pass \in Passes /\ pass.kept = {} /\ ~ pass.portal /\ ~ pass.errors
  BY DEF TypeInv, LauncherTypes, PassInv, PortalCleanup
<1>2. CASE ~ bridge'.registered /\ pass' = [pass EXCEPT !.left = owned]
  BY <1>1, <1>2 DEF PortalCleanup, Passes
<1>3. CASE pass' = [pass EXCEPT !.left = owned, !.errors = TRUE, !.portal = TRUE]
  BY <1>1, <1>3 DEF PortalCleanup, Passes
<1>4. ASSUME NEW stopped, NEW rest,
             bridge' = [up |-> ~ stopped, registered |-> FALSE,
                        targets |-> IF stopped THEN {} ELSE rest, proxy |-> FALSE]
      PROVE  ~ bridge'.registered
  BY <1>4
<1>5. \/ ~ bridge.proxy /\ UNCHANGED bridge /\ pass' = [pass EXCEPT !.left = owned]
      \/ ~ bridge'.registered /\ pass' = [pass EXCEPT !.left = owned]
      \/ pass' = [pass EXCEPT !.left = owned, !.errors = TRUE, !.portal = TRUE]
  BY <1>4 DEF PortalCleanup
<1>6. CASE ~ bridge.proxy /\ UNCHANGED bridge /\ pass' = [pass EXCEPT !.left = owned]
  <2>1. ~ bridge'.registered
    BY <1>6 DEF BridgeInv
  <2> QED  BY <1>2, <1>6, <2>1
<1> QED  BY <1>2, <1>3, <1>5, <1>6

\* One unmount: kept, because of the portal or with the mount still there, or gone.
LEMMA UnmountPass ==
    ASSUME TypeInv, UnmountNext
    PROVE  \E m \in pass.left :
           LET at == {x \in table : x.path = m.path}
           IN /\ pass'.left = pass.left \ {m} /\ pass'.portal = pass.portal
              /\ \/ /\ pass'.kept = pass.kept \cup {m} /\ pass'.errors /\ table' = table
                    /\ SkipDocDir(m) \/ at \subseteq ghost'.held
                 \/ /\ pass'.kept = pass.kept /\ pass'.errors = pass.errors
                    /\ table' = table \ at
<1>1. pass \in Passes /\ ghost \in Ghosts
  BY DEF TypeInv, LauncherTypes, SystemTypes
<1>2. PICK m \in pass.left :
         LET at == {x \in table : x.path = m.path}
         IN \/ /\ SkipDocDir(m) /\ pass' = Kept(m) /\ UNCHANGED table
            \/ /\ table' = table \ at /\ pass' = Detached(m)
            \/ /\ \/ ghost' = [ghost EXCEPT !.held = @ \cup at]
                  \/ Fault /\ ghost' = [Faulted EXCEPT !.held = @ \cup at]
               /\ pass' = Kept(m) /\ UNCHANGED table
  BY DEF UnmountNext
<1> DEFINE at == {x \in table : x.path = m.path}
<1>3. \/ /\ SkipDocDir(m) /\ pass' = Kept(m) /\ UNCHANGED table
      \/ /\ table' = table \ at /\ pass' = Detached(m)
      \/ /\ \/ ghost' = [ghost EXCEPT !.held = @ \cup at]
            \/ Fault /\ ghost' = [Faulted EXCEPT !.held = @ \cup at]
         /\ pass' = Kept(m) /\ UNCHANGED table
  BY <1>2
<1>4. /\ Kept(m).left = pass.left \ {m} /\ Kept(m).portal = pass.portal
      /\ Kept(m).kept = pass.kept \cup {m} /\ Kept(m).errors
      /\ Detached(m).left = pass.left \ {m} /\ Detached(m).portal = pass.portal
      /\ Detached(m).kept = pass.kept /\ Detached(m).errors = pass.errors
  BY <1>1 DEF Kept, Detached, Passes
<1> SUFFICES /\ pass'.left = pass.left \ {m} /\ pass'.portal = pass.portal
             /\ \/ /\ pass'.kept = pass.kept \cup {m} /\ pass'.errors /\ table' = table
                   /\ SkipDocDir(m) \/ at \subseteq ghost'.held
                \/ /\ pass'.kept = pass.kept /\ pass'.errors = pass.errors
                   /\ table' = table \ at
  OBVIOUS
<1> HIDE DEF at
<1>5. \/ ghost' = [ghost EXCEPT !.held = @ \cup at]
      \/ Fault /\ ghost' = [Faulted EXCEPT !.held = @ \cup at]
      => at \subseteq ghost'.held
  BY <1>1, FaultFacts DEF Ghosts
<1> QED  BY <1>3, <1>4, <1>5

LEMMA PassKept ==
    ASSUME TypeInv, WorkInv, HelperInv, BridgeInv, PassInv, [Next]_vars
    PROVE  PassInv'
<1>1. CASE UNCHANGED vars \/ Finished
  BY <1>1 DEF Finished, vars, PassInv, Free
<1>2. CASE PeerStep
  BY <1>2, PeerHistory DEF PassInv, Free
<1>3. CASE Helper
  <2>1. pc = "mount" /\ UNCHANGED <<pc, pass>>
    BY <1>3, HelperHistory DEF WorkInv
  <2> QED  BY <2>1 DEF PassInv
<1>4. CASE Merge \/ MergeEntry \/ Stage \/ RunHelper \/ Launch \/ ShareDocument
  BY <1>4 DEF Merge, MergeEntry, Stage, RunHelper, Launch, ShareDocument, PassInv
<1>5. CASE MountpointTaken \/ Report \/ AttachSandbox
  <2>1. CASE GiveUp
    BY <2>1, GiveUpPass DEF PassInv
  <2>2. CASE pc = "mount" /\ UNCHANGED <<pc, pass>>
    BY <2>2 DEF PassInv
  <2> QED  BY <1>5, <2>1, <2>2 DEF MountpointTaken, Report, AttachSandbox
<1>6. CASE ApplicationEnds
  BY <1>6, NoPassTyped DEF ApplicationEnds, PassInv
<1>7. CASE terminate_chroot_processes
  BY <1>7, PassFailsPass DEF terminate_chroot_processes, PassInv
<1>8. CASE PortalCleanup
  BY <1>8, PortalPass DEF PassInv
<1>9. CASE UnmountNext
  <2>1. PICK m \in pass.left :
           /\ pass'.left = pass.left \ {m} /\ pass'.portal = pass.portal
           /\ \/ /\ pass'.kept = pass.kept \cup {m} /\ pass'.errors /\ table' = table
                 /\ SkipDocDir(m) \/ {x \in table : x.path = m.path} \subseteq ghost'.held
              \/ /\ pass'.kept = pass.kept /\ pass'.errors = pass.errors
                 /\ table' = table \ {x \in table : x.path = m.path}
    BY <1>9, UnmountPass
  <2>2. pc = "unmount" /\ pc' = "unmount" /\ UNCHANGED <<owned, bridge, exists>>
    BY <1>9 DEF UnmountNext
  <2>3. ghost.held \subseteq ghost'.held /\ table' \subseteq table
    BY <1>9, <2>1, UnmountHistory
  <2>4. /\ pass'.kept # {} \/ pass'.portal => pass'.errors
        /\ bridge'.registered => pass'.portal
        /\ pass'.left \subseteq owned' /\ pass'.kept \subseteq owned'
    BY <2>1, <2>2 DEF PassInv
  <2>5. ASSUME NEW o \in owned', o \notin pass'.left, o \notin pass'.kept
        PROVE  \A x \in table' : x.path # o.path
    <3>1. CASE o = m
      BY <2>1, <2>5, <3>1
    <3>2. CASE o # m
      BY <2>1, <2>2, <2>3, <2>5, <3>2 DEF PassInv, Free
    <3> QED  BY <3>1, <3>2
  <2>6. ASSUME NEW o \in pass'.kept, NEW x \in table', x.path = o.path
        PROVE  x \in ghost'.held \/ (pass'.portal /\ o.path = DocDir)
    <3>1. CASE o \in pass.kept
      BY <2>1, <2>2, <2>3, <2>6, <3>1 DEF PassInv
    <3>2. CASE o = m /\ o \notin pass.kept
      BY <2>1, <2>6, <3>2 DEF SkipDocDir
    <3> QED  BY <2>1, <2>6, <3>1, <3>2
  <2> QED  BY <2>2, <2>4, <2>5, <2>6 DEF PassInv, Free
<1>10. CASE CleanResources
  <2>1. pass \in Passes
    BY DEF TypeInv, LauncherTypes
  <2>2. /\ pass'.kept = pass.kept /\ pass'.left = pass.left /\ pass'.portal = pass.portal
        /\ pass.errors => pass'.errors
    BY <1>10, <2>1 DEF CleanResources, Passes
  <2> QED  BY <1>10, <2>2 DEF CleanResources, PassInv
<1>11. CASE RemoveRoot
  <2>1. CASE PassFails
    BY <1>11, <2>1, PassFailsPass DEF RemoveRoot, PassInv
  <2>2. CASE exists' = [exists EXCEPT !.root = FALSE] /\ pc' = "record" /\ UNCHANGED pass
    <3>1. ~ exists'.root
      BY <2>2 DEF TypeInv, SystemTypes
    <3> QED  BY <1>11, <2>2, <3>1 DEF RemoveRoot, PassInv
  <2> QED  BY <1>11, <2>1, <2>2 DEF RemoveRoot
<1>12. CASE RemoveRecord
  BY <1>12, PassFailsPass DEF RemoveRecord, PassInv
<1>13. CASE BridgeEnds \/ BridgeReplaced
  BY <1>13, BridgeHistory DEF PassInv, Free
<1> QED  BY <1>1, <1>2, <1>3, <1>4, <1>5, <1>6, <1>7, <1>8, <1>9, <1>10, <1>11, <1>12, <1>13 DEF Next

-----------------------------------------------------------------------------
(***************************************************************************)
(* The teardown.                                                           *)
(***************************************************************************)
\* Whoever uses a mount as the document directory sits on it.
LEMMA DocDirUse ==
    ASSUME NEW m, NEW u, m.path \in Place, u.path = DocDir, SoundSource(u.path, u.source),
           Needs(u, m)
    PROVE  IsStrictPrefix(m.path, DocDir)
<1>1. m.path \in Path /\ Len(m.path) \in Nat /\ Len(m.path) > 0 /\ m.path[1] # Host
  BY PlaceFacts
<1>2. ASSUME IsPrefix(m.path, u.source)  PROVE FALSE
  <2>1. u.source = <<>> \/ u.source \in HostPath
    BY DEF SoundSource
  <2>2. u.source \in Path
    <3>1. <<>> \in Path
      BY DEF Path
    <3> QED  BY <2>1, <3>1, HostFacts
  <2>3. Len(m.path) <= Len(u.source) /\ \A i \in 1..Len(m.path) : m.path[i] = u.source[i]
    BY <1>1, <1>2, <2>2, PrefixIff
  <2>4. CASE u.source = <<>>
    BY <1>1, <2>3, <2>4
  <2>5. CASE u.source \in HostPath
    BY <1>1, <2>3, <2>5, HostFacts
  <2> QED  BY <2>1, <2>4, <2>5
<1> QED  BY <1>2 DEF Needs

\* What a mount loses by force: not the one below it, but for the exceptions.
LEMMA ForcedUsers ==
    ASSUME TypeInv, WorkInv, MountInv, KnownInv, PassInv, pc = "unmount",
           NEW m \in pass.left, m.ro, ~ SkipDocDir(m),
           \A n \in pass.left : ~ owned_mount_teardown_order(n, m),
           NEW u \in table, Needs(u, m)
    PROVE  Loose(u) \/ u \in ghost.held
<1>1. m \in owned /\ SoundPlace(m.path, m.ro) /\ m.path \in Place /\ helper = Idle
  BY DEF PassInv, MountInv, SoundPlace, WorkInv
<1>2. CASE u.by = "launcher"
  <2>1. /\ SoundPlace(u.path, u.ro) /\ SoundSource(u.path, u.source) /\ u.path \in Place
        /\ u.source \in Path
    BY <1>2 DEF MountInv, SoundPlace, TypeInv, SystemTypes, Mount
  <2>2. owned_mount_teardown_order(u, m)
    BY <1>1, <2>1, UsersFirst
  <2>3. CASE u \in ghost.cut \cup ghost.bare
    BY <2>3 DEF Loose
  <2>4. ASSUME NEW o \in owned, o.path = u.path
        PROVE  u \in ghost.held
    <3>1. o \notin pass.left
      BY <2>2, <2>4 DEF owned_mount_teardown_order
    <3>2. o \in pass.kept
      BY <2>4, <3>1 DEF PassInv, Free
    <3>3. CASE u.path = DocDir
      BY <1>1, <2>1, <3>3, DocDirUse DEF SoundPlace
    <3> QED  BY <2>4, <3>2, <3>3 DEF PassInv
  <2> QED  BY <1>1, <1>2, <2>3, <2>4 DEF KnownInv
<1>3. CASE u.by # "launcher"
  <2>1. PICK g \in Grants : u = GrantMount(g)
    BY <1>3 DEF MountInv
  <2>2. m.path = DocDir
    <3>1. m.path = DocDir \/ ~ m.ro
      BY <1>1, <2>1, GrantFacts
    <3> QED  BY <3>1
  <2>3. ~ bridge.registered
    BY <2>2 DEF SkipDocDir, PassInv
  <2> QED  BY <1>3, <2>1, <2>3 DEF KnownInv, Loose, GrantMount
<1> QED  BY <1>2, <1>3

LEMMA OrphansKept ==
    ASSUME TypeInv, WorkInv, MountInv, HelperInv, KnownInv, PassInv, NoOrphans, [Next]_vars
    PROVE  NoOrphans'
<1>1. /\ ghost.cut \subseteq ghost'.cut /\ ghost.bare \subseteq ghost'.bare
      /\ ghost.stray \subseteq ghost'.stray
      /\ ghost.held \subseteq ghost'.held
      /\ UnmountNext \/ ghost'.orphans = ghost.orphans
  BY LooseKept
<1>2. ASSUME NEW u, Loose(u) \/ u \in ghost.held  PROVE Loose(u)' \/ u \in ghost'.held
  BY <1>1, <1>2 DEF Loose
<1>3. CASE ghost'.orphans = ghost.orphans
  BY <1>2, <1>3 DEF NoOrphans
<1>4. CASE UnmountNext
  <2>0. ghost \in Ghosts /\ pc = "unmount"
    BY <1>4 DEF TypeInv, SystemTypes, UnmountNext
  <2>1. PICK m \in pass.left :
           LET at == {x \in table : x.path = m.path}
               users == UNION {Users(x) : x \in at}
           IN /\ \A n \in pass.left : ~ owned_mount_teardown_order(n, m)
              /\ \/ UNCHANGED ghost
                 \/ /\ m.ro /\ ~ SkipDocDir(m)
                    /\ ghost' = [ghost EXCEPT !.faults = IF users = {} THEN @ + 1 ELSE @,
                                              !.orphans = @ \cup users]
                 \/ ghost' = [ghost EXCEPT !.held = @ \cup at]
                 \/ Fault /\ ghost' = [Faulted EXCEPT !.held = @ \cup at]
    BY <1>4 DEF UnmountNext
  <2> DEFINE at == {x \in table : x.path = m.path}
             users == UNION {Users(x) : x \in at}
  <2>2. \/ UNCHANGED ghost
        \/ /\ m.ro /\ ~ SkipDocDir(m)
           /\ ghost' = [ghost EXCEPT !.faults = IF users = {} THEN @ + 1 ELSE @,
                                     !.orphans = @ \cup users]
        \/ ghost' = [ghost EXCEPT !.held = @ \cup at]
        \/ Fault /\ ghost' = [Faulted EXCEPT !.held = @ \cup at]
    BY <2>1
  <2>3. \A u \in users : u \in table /\ Needs(u, m)
    BY DEF Users, Needs
  <2> HIDE DEF at, users
  <2>4. CASE ghost'.orphans = ghost.orphans
    BY <1>3, <2>4
  <2>5. CASE m.ro /\ ~ SkipDocDir(m) /\ ghost'.orphans = ghost.orphans \cup users
    <3>1. \A u \in users : Loose(u) \/ u \in ghost.held
      BY <2>0, <2>1, <2>3, <2>5, ForcedUsers
    <3> QED  BY <1>2, <2>5, <3>1 DEF NoOrphans
  <2>6. ghost'.orphans = ghost.orphans
        \/ (m.ro /\ ~ SkipDocDir(m) /\ ghost'.orphans = ghost.orphans \cup users)
    BY <2>0, <2>2, FaultFacts DEF Ghosts
  <2> QED  BY <2>4, <2>5, <2>6
<1> QED  BY <1>1, <1>3, <1>4

\* Once something of the instance is gone, nothing is mounted any more.
LEMMA GoneShrinks ==
    ASSUME TypeInv, WorkInv, HelperInv, [Next]_vars,
           ~ exists.root \/ ~ exists.generated \/ pc \notin {"mount", "running"}
    PROVE  table' \subseteq table
<1>1. pc \notin {"mount", "running"}
  BY DEF WorkInv
<1>2. ~ Helper
  BY <1>1, HelperHistory DEF WorkInv
<1>3. ~ AttachSandbox /\ ~ ShareDocument
  BY <1>1 DEF AttachSandbox, ShareDocument
<1> QED  BY <1>2, <1>3, TableSteps

\* All unmounts were tried and none was kept: what is left is loose.
LEMMA NothingKept ==
    ASSUME TypeInv, WorkInv, KnownInv, PassInv, pc = "unmount", pass.left = {}, pass.kept = {},
           NEW m \in table
    PROVE  /\ m.by = "launcher" => Loose(m)
           /\ ~ bridge.registered => Loose(m)
<1>1. helper = Idle
  BY DEF WorkInv
<1>2. \A o \in owned : o.path # m.path
  BY DEF PassInv, Free
<1>3. m.by \in {"launcher", "bridge"}
  BY DEF TypeInv, SystemTypes, Mount
<1> QED  BY <1>1, <1>2, <1>3 DEF KnownInv, Loose

LEMMA GeneratedShown ==
    ASSUME NEW g
    PROVE  ~ IsPrefix(Generated, GrantMount(g).source)
<1>1. Generated \in Path /\ Len(Generated) > 0 /\ Len(Generated) \in Nat
  BY PlanAssumption, HostFacts
<1>2. <<>> \in Path /\ Len(<<>>) = 0 /\ GrantMount(g).source = <<>>
  BY DEF Path, GrantMount
<1> QED  BY <1>1, <1>2, PrefixIff

LEMMA RemovalKept ==
    ASSUME TypeInv, WorkInv, MountInv, HelperInv, KnownInv, PassInv, RemovedLast, [Next]_vars
    PROVE  RemovedLast'
<1>1. /\ ghost.cut \subseteq ghost'.cut /\ ghost.bare \subseteq ghost'.bare
      /\ ghost.stray \subseteq ghost'.stray
      /\ ghost.orphans \subseteq ghost'.orphans
  BY LooseKept
<1>2. ASSUME NEW u, Loose(u)  PROVE Loose(u)'
  BY <1>1, <1>2 DEF Loose
<1>3. ~ exists.root \/ ~ exists.generated \/ pc \notin {"mount", "running"} => table' \subseteq table
  BY GoneShrinks
<1>4. CASE UNCHANGED exists /\ pc' # "remove"
  BY <1>1, <1>2, <1>3, <1>4 DEF RemovedLast
<1>5. CASE UNCHANGED <<exists, pc, pass>>
  BY <1>1, <1>2, <1>3, <1>5 DEF RemovedLast, RemoveAllowed
<1>6. CASE CleanResources
  <2>1. pc = "unmount" /\ pc' = "remove" /\ pass.left = {} /\ UNCHANGED table
    BY <1>6 DEF CleanResources
  <2>2. pass \in Passes
    BY DEF TypeInv, LauncherTypes
  <2>3. ~ pass'.errors => ~ pass.errors
    BY <1>6, <2>2 DEF CleanResources, Passes
  <2>4. ~ pass.errors => pass.kept = {} /\ ~ bridge.registered
    BY <2>1 DEF PassInv
  <2>5. ~ pass'.errors => \A m \in table' : Loose(m)'
    BY <1>2, <2>1, <2>3, <2>4, NothingKept
  <2>6. /\ exists'.root = exists.root /\ exists'.record = exists.record
        /\ exists'.generated = exists.generated \/ pass.kept = {}
    BY <1>6 DEF CleanResources, SourcesUnused, TypeInv, SystemTypes
  <2>7. ASSUME ~ exists'.generated, NEW m \in table', IsPrefix(Generated, m.source)
        PROVE  Loose(m)'
    <3>1. CASE ~ exists.generated
      BY <1>2, <2>1, <2>7, <3>1 DEF RemovedLast
    <3>2. CASE pass.kept = {}
      <4>1. m.by = "launcher"
        BY <2>1, <2>7, GeneratedShown DEF MountInv
      <4> QED  BY <1>2, <2>1, <3>2, <4>1, NothingKept
    <3> QED  BY <2>6, <2>7, <3>1, <3>2
  <2> QED  BY <1>1, <1>2, <2>1, <2>5, <2>6, <2>7 DEF RemovedLast, RemoveAllowed
<1>7. CASE RemoveRoot
  <2>1. CASE PassFails /\ UNCHANGED exists
    BY <1>4, <2>1 DEF PassFails
  <2>2. CASE /\ RemoveAllowed /\ table \ ghost.orphans = {} /\ pc' = "record"
             /\ exists' = [exists EXCEPT !.root = FALSE]
    <3>1. pc = "remove" /\ UNCHANGED table
      BY <1>7 DEF RemoveRoot
    <3>2. ~ exists'.root /\ exists'.generated = exists.generated
      BY <2>2 DEF TypeInv, SystemTypes
    <3>3. \A m \in table' : Loose(m)' /\ m \in ghost'.orphans
      BY <1>1, <1>2, <2>2, <3>1 DEF RemovedLast
    <3> QED  BY <2>2, <3>2, <3>3 DEF RemovedLast
  <2> QED  BY <1>7, <2>1, <2>2 DEF RemoveRoot
<1>8. CASE RemoveRecord
  <2>1. CASE PassFails /\ UNCHANGED exists
    BY <1>4, <2>1 DEF PassFails
  <2>2. CASE exists' = [exists EXCEPT !.record = FALSE] /\ pc' = "done"
    <3>1. ~ exists.root /\ UNCHANGED table
      BY <1>8 DEF RemoveRecord, PassInv
    <3>2. exists'.root = exists.root /\ exists'.generated = exists.generated
      BY <2>2 DEF TypeInv, SystemTypes
    <3> QED  BY <1>1, <1>2, <2>2, <3>1, <3>2 DEF RemovedLast
  <2> QED  BY <1>8, <2>1, <2>2 DEF RemoveRecord
<1>9. CASE \/ Merge \/ MergeEntry \/ Stage \/ RunHelper \/ ShareDocument \/ PeerStep
           \/ Finished \/ UNCHANGED vars
  BY <1>5, <1>9 DEF Merge, MergeEntry, Stage, RunHelper, ShareDocument, PeerStep, Finished, vars
<1>10. CASE Helper
  BY <1>5, <1>10, HelperHistory
<1>11. CASE \/ MountpointTaken \/ Report \/ AttachSandbox \/ Launch \/ ApplicationEnds
            \/ terminate_chroot_processes \/ PortalCleanup \/ UnmountNext
  <2>1. UNCHANGED exists /\ pc' # "remove"
    BY <1>11 DEF MountpointTaken, Report, AttachSandbox, Launch, ApplicationEnds,
       terminate_chroot_processes, PortalCleanup, UnmountNext, PassFails, GiveUp
  <2> QED  BY <1>4, <2>1
<1>12. CASE BridgeEnds \/ BridgeReplaced
  BY <1>5, <1>12, BridgeHistory
<1> QED  BY <1>6, <1>7, <1>8, <1>9, <1>10, <1>11, <1>12 DEF Next

-----------------------------------------------------------------------------
(***************************************************************************)
(* The attributes of the directories that hold file mounts.                *)
(***************************************************************************)
LEMMA HelperAttrKept ==
    ASSUME TypeInv, HelperInv, AttrInv, Helper
    PROVE  AttrInv'
<1>1. /\ helper \in HelperRun /\ helper' \in HelperRun /\ helper'.e = helper.e /\ UNCHANGED peer
      /\ (ghost.overlap => ghost'.overlap) /\ ghost.stuck \subseteq ghost'.stuck
      /\ ghost \in Ghosts /\ attrs \in [FileParents -> Attrs] /\ Dir' = Dir
      /\ (PeerLocks' <=> PeerLocks)
      /\ helper # Idle
  BY HelperHistory DEF TypeInv, SystemTypes, HelperTypes, Dir, PeerLocks
<1>2. helper.pc \in {"attrs", "chown", "chmod", "nmount", "rechown", "rechmod", "rollback"} =>
         Dir \in FileParents
  BY <1>1, DirTyped DEF TypeInv
<1> SUFFICES ASSUME ~ ghost'.overlap  PROVE AttrInv'
  BY DEF AttrInv
<1>3. ~ ghost.overlap
  BY <1>1
<1>4. CASE UNCHANGED attrs /\ (HelperLocks' => HelperLocks)
           /\ (HelperLocks /\ ~ HelperLocks' => Dir \in ghost'.stuck \/ attrs[Dir] = Caller)
           /\ (HelperLocks' => helper'.saved = helper.saved
                               /\ helper'.pc # "chown" /\ helper'.pc # "rechmod")
  BY <1>1, <1>3, <1>4 DEF AttrInv
<1>5. CASE nmount \/ adjust_tmpfs
  <2>1. ~ HelperLocks /\ ~ HelperLocks' /\ UNCHANGED attrs
    BY <1>1, <1>5 DEF nmount, adjust_tmpfs, HelperStep, HelperLocks, HelperRun
  <2> QED  BY <1>4, <2>1
<1>6. CASE directory_attributes
  <2>1. ~ HelperLocks /\ UNCHANGED attrs /\ Dir \in FileParents
    BY <1>2, <1>6 DEF directory_attributes, HelperLocks
  <2>2. CASE ghost' = [ghost EXCEPT !.overlap = @ \/ (PeerLocks /\ peer.dir = Dir)]
             /\ helper' = [helper EXCEPT !.pc = "chown", !.saved = attrs[Dir], !.locked = TRUE]
    <3>1. ~ (PeerLocks /\ peer.dir = Dir) /\ ghost'.stuck = ghost.stuck
      BY <1>1, <2>2 DEF Ghosts
    <3>2. helper'.saved = attrs[Dir] /\ helper'.pc = "chown" /\ HelperLocks'
      BY <1>1, <2>2 DEF HelperRun, HelperLocks
    <3> QED  BY <1>1, <1>3, <2>1, <3>1, <3>2 DEF AttrInv
  <2>3. CASE helper' = [helper EXCEPT !.pc = "nmount"] \/ helper' = [helper EXCEPT !.pc = "error"]
    <3>1. ~ HelperLocks'
      BY <1>1, <1>6, <2>3 DEF HelperRun, HelperLocks, HelperInv, directory_attributes
    <3> QED  BY <1>4, <2>1, <3>1
  <2> QED  BY <1>6, <2>2, <2>3 DEF directory_attributes, HelperStep
<1>7. ASSUME NEW a \in Attrs, Dir \in FileParents, HelperLocks, HelperLocks' \/ a = Caller,
             attrs'[Dir] = a, \A c \in FileParents \ {Dir} : attrs'[c] = attrs[c],
             ghost'.stuck = ghost.stuck,
             HelperLocks' => /\ helper'.saved = helper.saved /\ helper'.pc # "chown"
                             /\ helper'.pc = "rechmod" => a.owner = helper.saved.owner
      PROVE  AttrInv'
  <2>1. PeerLocks => peer.dir \in FileParents /\ peer.dir # Dir
    BY <1>3, <1>7 DEF AttrInv, PeerLocks, TypeInv, HelperTypes, Idle, PeerRun
  <2>2. HelperLocks' /\ PeerLocks' => Dir' # peer'.dir
    BY <1>1, <2>1
  <2>3. HelperLocks' /\ Dir' \notin ghost'.stuck =>
          /\ helper'.saved = Caller
          /\ helper'.pc # "chown"
          /\ helper'.pc = "rechmod" => attrs'[Dir'].owner = "caller"
    BY <1>1, <1>3, <1>7 DEF AttrInv, Caller
  <2>4. PeerLocks' /\ peer'.dir \notin ghost'.stuck =>
          /\ peer'.saved = Caller
          /\ peer'.pc = "rechmod" => attrs'[peer'.dir].owner = "caller"
    BY <1>1, <1>3, <1>7, <2>1 DEF AttrInv
  <2>5. \A d \in FileParents :
          d \in ghost'.stuck \/ (HelperLocks' /\ Dir' = d) \/ (PeerLocks' /\ peer'.dir = d)
          \/ attrs'[d] = Caller
    BY <1>1, <1>3, <1>7 DEF AttrInv
  <2> QED  BY <2>2, <2>3, <2>4, <2>5 DEF AttrInv
<1>8. CASE protect_regular_file_parent
  <2>1. HelperLocks /\ Dir \in FileParents /\ attrs[Dir] \in Attrs /\ helper.locked
    BY <1>1, <1>2, <1>8 DEF protect_regular_file_parent, HelperLocks, HelperInv
  <2>2. CASE attrs' = WithOwner(Dir, "root") /\ helper' = [helper EXCEPT !.pc = "chmod"]
             /\ UNCHANGED ghost
    <3>1. HelperLocks' /\ helper'.saved = helper.saved /\ helper'.pc = "chmod"
      BY <1>1, <2>1, <2>2 DEF HelperLocks, HelperRun
    <3>2. [owner |-> "root", w |-> attrs[Dir].w] \in Attrs
      BY <2>1 DEF Attrs
    <3> QED  BY <1>1, <1>7, <2>1, <2>2, <3>1, <3>2, AttrChanges
  <2>3. CASE attrs' = WithMode(Dir, FALSE) /\ helper' = [helper EXCEPT !.pc = "nmount"]
             /\ UNCHANGED ghost
    <3>1. HelperLocks' /\ helper'.saved = helper.saved /\ helper'.pc = "nmount"
      BY <1>1, <2>1, <2>3 DEF HelperLocks, HelperRun
    <3>2. [owner |-> attrs[Dir].owner, w |-> FALSE] \in Attrs
      BY <2>1 DEF Attrs
    <3> QED  BY <1>1, <1>7, <2>1, <2>3, <3>1, <3>2, AttrChanges
  <2>4. CASE UNCHANGED attrs
             /\ helper' = [helper EXCEPT !.pc = IF helper.pc = "chown" THEN "error" ELSE "rechown"]
    <3>1. CASE helper.pc = "chown"
      <4>1. ~ HelperLocks'
        BY <1>1, <2>4, <3>1 DEF HelperLocks, HelperRun
      <4>2. Dir \in ghost'.stuck \/ attrs[Dir] = Caller
        BY <1>1, <1>3, <2>1, <3>1 DEF AttrInv
      <4> QED  BY <1>4, <2>4, <4>1, <4>2
    <3>2. CASE helper.pc # "chown"
      <4>1. HelperLocks' /\ helper'.saved = helper.saved /\ helper'.pc = "rechown"
        BY <1>1, <2>1, <2>4, <3>2 DEF HelperLocks, HelperRun
      <4> QED  BY <1>4, <2>1, <2>4, <4>1
    <3> QED  BY <3>1, <3>2
  <2> QED  BY <1>8, <2>2, <2>3, <2>4 DEF protect_regular_file_parent, HelperStep, WithOwner, WithMode
<1>9. CASE nmount_regular_file_nullfs \/ rollback_regular_file_mount
  <2>1. UNCHANGED attrs /\ (HelperLocks' <=> HelperLocks) /\ helper'.saved = helper.saved
        /\ helper'.pc # "chown" /\ helper'.pc # "rechmod"
    BY <1>1, <1>9 DEF nmount_regular_file_nullfs, rollback_regular_file_mount, HelperStep,
       HelperLocks, HelperRun
  <2> QED  BY <1>4, <2>1
<1>10. CASE restore_directory_attributes
  <2>1. HelperLocks /\ Dir \in FileParents /\ attrs[Dir] \in Attrs /\ helper.locked
        /\ helper.saved \in Attrs
    BY <1>1, <1>2, <1>10 DEF restore_directory_attributes, HelperLocks, HelperInv, HelperRun
  <2>2. helper.saved.owner \in {"caller", "root"} /\ helper.saved.w \in BOOLEAN
    BY <2>1 DEF Attrs
  <2>3. CASE attrs' = WithOwner(Dir, helper.saved.owner) /\ helper' = [helper EXCEPT !.pc = "rechmod"]
             /\ UNCHANGED ghost
    <3>1. HelperLocks' /\ helper'.saved = helper.saved /\ helper'.pc = "rechmod"
      BY <1>1, <2>1, <2>3 DEF HelperLocks, HelperRun
    <3>2. [owner |-> helper.saved.owner, w |-> attrs[Dir].w] \in Attrs
      BY <2>1 DEF Attrs
    <3>3. attrs \in [FileParents -> Attrs] /\ attrs' = WithOwner(Dir, helper.saved.owner)
      BY <1>1, <2>3
    <3>4. /\ attrs'[Dir] = [owner |-> helper.saved.owner, w |-> attrs[Dir].w]
          /\ \A c \in FileParents \ {Dir} : attrs'[c] = attrs[c]
      <4>1. \A o \in {"caller", "root"} :
               /\ WithOwner(Dir, o)[Dir] = [owner |-> o, w |-> attrs[Dir].w]
               /\ \A c \in FileParents \ {Dir} : WithOwner(Dir, o)[c] = attrs[c]
        BY <2>1, <3>3, AttrChanges
      <4> QED  BY <2>2, <3>3, <4>1
    <3> QED  BY <1>7, <2>1, <2>3, <3>1, <3>2, <3>4
  <2>4. CASE attrs' = WithMode(Dir, helper.saved.w) /\ helper' = Verdict(helper)
             /\ UNCHANGED ghost /\ helper.pc = "rechmod"
    <3>1. ~ HelperLocks'
      BY <1>1, <2>4 DEF HelperLocks, Verdict, HelperRun
    <3>2. /\ attrs'[Dir] = [owner |-> attrs[Dir].owner, w |-> helper.saved.w]
          /\ \A c \in FileParents \ {Dir} : attrs'[c] = attrs[c]
      BY <1>1, <2>1, <2>2, <2>4, AttrChanges, Zenon
    <3>3. Dir \in ghost.stuck \/ attrs'[Dir] = Caller
      BY <1>3, <2>1, <2>4, <3>2 DEF AttrInv, Caller
    <3>4. PeerLocks => peer.dir \in FileParents /\ peer.dir # Dir
      BY <1>3, <2>1 DEF AttrInv, PeerLocks, TypeInv, HelperTypes, Idle, PeerRun
    <3> QED  BY <1>1, <1>3, <2>4, <3>1, <3>2, <3>3, <3>4 DEF AttrInv
  <2>5. CASE UNCHANGED attrs /\ helper' = [helper EXCEPT !.pc = "rollback"]
    <3>1. HelperLocks' /\ helper'.saved = helper.saved /\ helper'.pc = "rollback"
      BY <1>1, <2>1, <2>5 DEF HelperLocks, HelperRun
    <3> QED  BY <1>4, <2>1, <2>5, <3>1
  <2>6. CASE UNCHANGED attrs /\ helper' = Verdict(helper) /\ Fault
             /\ ghost' = [Faulted EXCEPT !.stuck = @ \cup {Dir}]
    <3>1. ~ HelperLocks' /\ Dir \in ghost'.stuck
      BY <1>1, <2>6, FaultFacts DEF HelperLocks, Verdict, HelperRun, Ghosts
    <3> QED  BY <1>4, <2>6, <3>1
  <2> QED  BY <1>10, <2>3, <2>4, <2>5, <2>6
              DEF restore_directory_attributes, HelperStep, WithOwner, WithMode
<1>11. CASE HelperKilled
  <2>1. Fault /\ ghost' = [Faulted EXCEPT !.cut = @ \cup (table \cap {MountOf(helper.e, "launcher")}),
                                          !.stuck = @ \cup (IF HelperLocks THEN {Dir} ELSE {})]
    BY <1>11 DEF HelperKilled
  <2>2. HelperLocks => Dir \in ghost'.stuck
    BY <1>1, <2>1, FaultFacts DEF Ghosts
  <2>3. ~ HelperLocks' /\ UNCHANGED attrs
    BY <1>1, <1>11 DEF HelperKilled, HelperStep, HelperLocks, HelperRun
  <2> QED  BY <1>4, <2>2, <2>3
<1> QED  BY <1>5, <1>6, <1>8, <1>9, <1>10, <1>11 DEF Helper

LEMMA PeerAttrKept ==
    ASSUME TypeInv, HelperInv, AttrInv, PeerStep
    PROVE  AttrInv'
<1>1. /\ UNCHANGED helper /\ (ghost.overlap => ghost'.overlap) /\ ghost'.stuck = ghost.stuck
      /\ ghost \in Ghosts /\ attrs \in [FileParents -> Attrs] /\ Dir' = Dir
      /\ (HelperLocks' <=> HelperLocks) /\ (peer = Idle \/ peer \in PeerRun)
  BY PeerHistory DEF TypeInv, SystemTypes, HelperTypes, Dir, HelperLocks
<1> SUFFICES ASSUME ~ ghost'.overlap  PROVE AttrInv'
  BY DEF AttrInv
<1>2. ~ ghost.overlap
  BY <1>1
<1>3. HelperLocks => Dir \in FileParents
  <2>1. HelperLocks => helper \in HelperRun
    BY HelperFacts DEF HelperLocks, TypeInv, HelperTypes
  <2> QED  BY <2>1, DirTyped DEF HelperLocks, TypeInv
<1>4. ASSUME peer = Idle, NEW d \in FileParents, UNCHANGED attrs,
             peer' = [pc |-> "chown", dir |-> d, saved |-> attrs[d]],
             ghost' = [ghost EXCEPT !.overlap = @ \/ (HelperLocks /\ d = Dir)]
      PROVE  AttrInv'
  <2>1. ~ (HelperLocks /\ d = Dir) /\ ~ PeerLocks
    BY <1>1, <1>4 DEF Ghosts, PeerLocks, Idle
  <2>2. peer'.dir = d /\ peer'.saved = attrs[d] /\ peer'.pc = "chown" /\ PeerLocks'
    BY <1>4 DEF PeerLocks
  <2> QED  BY <1>1, <1>2, <1>4, <2>1, <2>2 DEF AttrInv
<1>5. ASSUME PeerLocks, NEW a \in Attrs, peer.dir \in FileParents, UNCHANGED ghost,
             attrs'[peer.dir] = a, \A c \in FileParents \ {peer.dir} : attrs'[c] = attrs[c],
             peer'.dir = peer.dir, peer'.saved = peer.saved,
             PeerLocks' \/ peer.dir \in ghost.stuck \/ a = Caller,
             peer'.pc = "rechmod" => a.owner = peer.saved.owner
      PROVE  AttrInv'
  <2>1. HelperLocks => Dir # peer.dir /\ Dir \in FileParents
    BY <1>2, <1>3, <1>5 DEF AttrInv
  <2>2. HelperLocks' /\ PeerLocks' => Dir' # peer'.dir
    BY <1>1, <1>5, <2>1
  <2>3. HelperLocks' /\ Dir' \notin ghost'.stuck =>
          /\ helper'.saved = Caller
          /\ helper'.pc = "chown" => attrs'[Dir'] = Caller
          /\ helper'.pc = "rechmod" => attrs'[Dir'].owner = "caller"
    BY <1>1, <1>2, <1>5, <2>1 DEF AttrInv
  <2>4. PeerLocks' /\ peer'.dir \notin ghost'.stuck =>
          /\ peer'.saved = Caller
          /\ peer'.pc = "rechmod" => attrs'[peer'.dir].owner = "caller"
    BY <1>1, <1>2, <1>5 DEF AttrInv, Caller
  <2>5. \A d \in FileParents :
          d \in ghost'.stuck \/ (HelperLocks' /\ Dir' = d) \/ (PeerLocks' /\ peer'.dir = d)
          \/ attrs'[d] = Caller
    BY <1>1, <1>2, <1>5 DEF AttrInv
  <2> QED  BY <2>2, <2>3, <2>4, <2>5 DEF AttrInv
<1>6. CASE peer \in PeerRun
  <2>1. /\ peer.dir \in FileParents /\ attrs[peer.dir] \in Attrs /\ peer.saved \in Attrs
        /\ peer.saved.owner \in {"caller", "root"} /\ peer.saved.w \in BOOLEAN
        /\ attrs[peer.dir].owner \in {"caller", "root"} /\ attrs[peer.dir].w \in BOOLEAN
    BY <1>1, <1>6 DEF PeerRun, Attrs
  <2>2. \A o \in {"caller", "root"}, b \in BOOLEAN : [owner |-> o, w |-> b] \in Attrs
    BY DEF Attrs
  <2>3. CASE peer.pc = "chown" /\ attrs' = WithOwner(peer.dir, "root")
             /\ peer' = [peer EXCEPT !.pc = "chmod"] /\ UNCHANGED ghost
    <3>1. /\ peer'.dir = peer.dir /\ peer'.saved = peer.saved /\ peer'.pc = "chmod"
          /\ PeerLocks /\ PeerLocks'
      BY <1>6, <2>3 DEF PeerRun, PeerLocks
    <3>2. /\ attrs'[peer.dir] = [owner |-> "root", w |-> attrs[peer.dir].w]
          /\ \A c \in FileParents \ {peer.dir} : attrs'[c] = attrs[c]
      BY <1>1, <2>1, <2>3, AttrChanges
    <3>3. [owner |-> "root", w |-> attrs[peer.dir].w] \in Attrs
      BY <2>1, <2>2
    <3> QED  BY <1>5, <2>1, <2>3, <3>1, <3>2, <3>3
  <2>4. CASE peer.pc = "chmod" /\ attrs' = WithMode(peer.dir, FALSE)
             /\ peer' = [peer EXCEPT !.pc = "rechown"] /\ UNCHANGED ghost
    <3>1. /\ peer'.dir = peer.dir /\ peer'.saved = peer.saved /\ peer'.pc = "rechown"
          /\ PeerLocks /\ PeerLocks'
      BY <1>6, <2>4 DEF PeerRun, PeerLocks
    <3>2. /\ attrs'[peer.dir] = [owner |-> attrs[peer.dir].owner, w |-> FALSE]
          /\ \A c \in FileParents \ {peer.dir} : attrs'[c] = attrs[c]
      BY <1>1, <2>1, <2>4, AttrChanges
    <3>3. [owner |-> attrs[peer.dir].owner, w |-> FALSE] \in Attrs
      BY <2>1, <2>2
    <3> QED  BY <1>5, <2>1, <2>4, <3>1, <3>2, <3>3
  <2>5. CASE peer.pc = "rechown" /\ attrs' = WithOwner(peer.dir, peer.saved.owner)
             /\ peer' = [peer EXCEPT !.pc = "rechmod"] /\ UNCHANGED ghost
    <3>1. /\ peer'.dir = peer.dir /\ peer'.saved = peer.saved /\ peer'.pc = "rechmod"
          /\ PeerLocks /\ PeerLocks'
      BY <1>6, <2>5 DEF PeerRun, PeerLocks
    <3>2. /\ attrs'[peer.dir] = [owner |-> peer.saved.owner, w |-> attrs[peer.dir].w]
          /\ \A c \in FileParents \ {peer.dir} : attrs'[c] = attrs[c]
      BY <1>1, <2>1, <2>5, AttrChanges, Zenon
    <3>3. [owner |-> peer.saved.owner, w |-> attrs[peer.dir].w] \in Attrs
      BY <2>1, <2>2
    <3> QED  BY <1>5, <2>1, <2>5, <3>1, <3>2, <3>3
  <2>6. CASE peer.pc = "rechmod" /\ attrs' = WithMode(peer.dir, peer.saved.w)
             /\ peer' = [peer EXCEPT !.pc = "over"] /\ UNCHANGED ghost
    <3>1. /\ peer'.dir = peer.dir /\ peer'.saved = peer.saved /\ peer'.pc = "over" /\ PeerLocks
      BY <1>6, <2>6 DEF PeerRun, PeerLocks
    <3>2. /\ attrs'[peer.dir] = [owner |-> attrs[peer.dir].owner, w |-> peer.saved.w]
          /\ \A c \in FileParents \ {peer.dir} : attrs'[c] = attrs[c]
      BY <1>1, <2>1, <2>6, AttrChanges, Zenon
    <3>3. [owner |-> attrs[peer.dir].owner, w |-> peer.saved.w] \in Attrs
      BY <2>1, <2>2
    <3>4. peer.dir \in ghost.stuck \/ [owner |-> attrs[peer.dir].owner, w |-> peer.saved.w] = Caller
      BY <1>2, <2>6, <3>1 DEF AttrInv, Caller
    <3> QED  BY <1>5, <2>1, <2>6, <3>1, <3>2, <3>3, <3>4
  <2>7. peer # Idle
    BY <1>6 DEF PeerRun, Idle
  <2> QED  BY <2>3, <2>4, <2>5, <2>6, <2>7 DEF PeerStep, WithOwner, WithMode
<1>7. CASE peer = Idle
  BY <1>4, <1>7 DEF PeerStep, Idle
<1> QED  BY <1>1, <1>6, <1>7

LEMMA AttrKept ==
    ASSUME TypeInv, WorkInv, HelperInv, AttrInv, [Next]_vars
    PROVE  AttrInv'
<1>1. CASE UNCHANGED <<helper, peer, attrs>> /\ ghost'.overlap = ghost.overlap
           /\ ghost'.stuck = ghost.stuck
  BY <1>1 DEF AttrInv, HelperLocks, PeerLocks, Dir
<1>2. CASE Helper \/ PeerStep
  BY <1>2, HelperAttrKept, PeerAttrKept
<1>3. CASE RunHelper \/ Report
  <2>1. ~ HelperLocks /\ ~ HelperLocks' /\ UNCHANGED <<peer, attrs, ghost>>
    BY <1>3 DEF RunHelper, Report, HelperLocks, Idle
  <2> QED  BY <2>1 DEF AttrInv, PeerLocks
<1>4. CASE \/ Merge \/ MergeEntry \/ Stage \/ MountpointTaken \/ Launch \/ ShareDocument
           \/ ApplicationEnds \/ Finished \/ UNCHANGED vars
  BY <1>1, <1>4 DEF Merge, MergeEntry, Stage, MountpointTaken, Launch, ShareDocument,
     ApplicationEnds, Finished, vars
<1>5. CASE AttachSandbox
  <2>1. CASE UNCHANGED ghost
    BY <1>1, <1>5, <2>1 DEF AttachSandbox
  <2>2. ASSUME Fault, NEW left, ghost' = [Faulted EXCEPT !.stray = @ \cup left]
        PROVE  AttrInv'
    <3>1. ghost'.overlap = ghost.overlap /\ ghost'.stuck = ghost.stuck
      BY <1>5, <2>2, AttachHistory
    <3> QED  BY <1>1, <1>5, <3>1 DEF AttachSandbox
  <2> QED  BY <1>5, <2>1, <2>2 DEF AttachSandbox
<1>6. CASE terminate_chroot_processes \/ PortalCleanup \/ CleanResources \/ RemoveRoot \/ RemoveRecord
  <2>1. UNCHANGED <<helper, peer, attrs>>
    BY <1>6 DEF terminate_chroot_processes, PortalCleanup, CleanResources, RemoveRoot, RemoveRecord
  <2> QED  BY <1>1, <1>6, <2>1, CleanupHistory
<1>7. CASE UnmountNext
  <2>1. UNCHANGED <<helper, peer, attrs>>
    BY <1>7 DEF UnmountNext
  <2> QED  BY <1>1, <1>7, <2>1, UnmountHistory
<1>8. CASE BridgeEnds \/ BridgeReplaced
  BY <1>1, <1>8, BridgeHistory
<1> QED  BY <1>2, <1>3, <1>4, <1>5, <1>6, <1>7, <1>8 DEF Next

-----------------------------------------------------------------------------
(***************************************************************************)
(* The invariant, and what follows from it.                                *)
(***************************************************************************)
LEMMA InitInv == Init => IInv
<1> SUFFICES ASSUME Init PROVE IInv
  OBVIOUS
<1>1. LauncherTypes
  <2>1. todo \in Seq(Request)
    BY PlanRequests DEF Init
  <2> QED  BY <2>1, NoPassTyped DEF Init, LauncherTypes, Phases
<1>2. SystemTypes
  <2>1. ghost \in Ghosts
    <3>1. {} \in SUBSET Mount /\ {} \in SUBSET FileParents /\ 0 \in 0..MaxFaults
      BY PlanAssumption
    <3> QED  BY <3>1 DEF Init, Ghosts
  <2>2. bridge \in Bridges
    BY DEF Init, Bridges
  <2> QED  BY <2>1, <2>2 DEF Init, SystemTypes
<1>3. HelperTypes
  BY DEF Init, HelperTypes, Attrs, Caller
<1>4. WorkInv /\ MountInv /\ HelperInv /\ KnownInv /\ BridgeInv
  BY DEF Init, WorkInv, MountInv, HelperInv, KnownInv, BridgeInv
<1>5. PassInv
  BY NoPassTyped DEF Init, PassInv
<1>6. AttrInv
  BY DEF Init, AttrInv, HelperLocks, PeerLocks, Idle
<1>7. NoOrphans /\ RemovedLast
  BY DEF Init, NoOrphans, RemovedLast
<1> QED  BY <1>1, <1>2, <1>3, <1>4, <1>5, <1>6, <1>7 DEF IInv, TypeInv

LEMMA StepInv == IInv /\ [Next]_vars => IInv'
<1> SUFFICES ASSUME IInv, [Next]_vars PROVE IInv'
  OBVIOUS
<1>1. /\ TypeInv /\ WorkInv /\ MountInv /\ HelperInv /\ BridgeInv /\ KnownInv /\ PassInv /\ AttrInv
      /\ NoOrphans /\ RemovedLast
  BY DEF IInv
<1>2. TypeInv'
  BY <1>1, LauncherTyped, SystemTyped, HelperTyped DEF TypeInv
<1> QED  BY <1>1, <1>2, WorkKept, MountKept, HelperKept, BridgeKept, KnownKept, PassKept,
            AttrKept, OrphansKept, RemovalKept DEF IInv

\* Invariance: in every state of every launch the helper works for the request at
\* the head of prepare's list, every mount has someone who will unmount it, a pass
\* of cleanup has accounted for what it tried, and the attributes of a directory
\* are those its helpers have set.
THEOREM Invariance == Spec => []IInv
BY InitInv, StepInv, PTL DEF Spec

LEMMA TypesFollow == IInv => TypeOK
<1> SUFFICES ASSUME IInv PROVE TypeOK
  OBVIOUS
<1>1. pc \in Phases /\ nextId \in Nat /\ ghost.faults \in 0..MaxFaults
  BY DEF IInv, TypeInv, LauncherTypes, SystemTypes, Ghosts
<1>2. helper.pc \in HelperPCs \cup {"idle"} /\ attrs \in [FileParents -> Attrs]
      /\ peer.pc \in {"idle", "chown", "chmod", "rechown", "rechmod", "over"}
  BY DEF IInv, TypeInv, HelperTypes, HelperRun, PeerRun, Idle
<1>3. \A m \in table : m.op \in {"nullfs", "tmpfs", "special"} /\ m.by \in {"launcher", "bridge"}
  BY DEF IInv, TypeInv, SystemTypes, Mount, Mounting
<1>4. \A m, n \in table : m.path = n.path => m = n
  BY DEF IInv, MountInv
<1> QED  BY <1>1, <1>2, <1>3, <1>4 DEF TypeOK, Phases, HelperPCs, Attrs

\* TypeCorrect: the variables keep their types, and no two mounts share a mountpoint
\* (ensure_mountpoint_free, and the grants of the document directory).
THEOREM TypeCorrect == Spec => []TypeOK
BY Invariance, TypesFollow, PTL

LEMMA TrackedFollows == IInv => Tracked
BY DEF IInv, KnownInv, Tracked, Known

\* MountsTracked: whatever combination of mount, restoration and rollback of a
\* file mount fails, a mount of the launcher is in owned_mounts, or its helper has
\* not reported yet (finish_regular_file_mount, run_command); or its helper was
\* killed after the mount, or it is a tmpfs that adjust_tmpfs failed on.
THEOREM MountsTracked == Spec => []Tracked
BY Invariance, TrackedFollows, PTL

LEMMA OrderFollows == IInv => OrderSound
<1> SUFFICES ASSUME IInv, NEW a \in pass.left, NEW b \in pass.left, NEW m \in table,
                    NEW n \in table, m.path = a.path, n.path = b.path, Needs(n, m)
             PROVE  owned_mount_teardown_order(b, a)
  BY DEF OrderSound
<1>1. a \in owned /\ b \in owned
  BY DEF IInv, PassInv
<1>2. SoundPlace(a.path, a.ro) /\ SoundPlace(b.path, b.ro)
  BY <1>1 DEF IInv, MountInv
<1>3. SoundSource(n.path, n.source) /\ n.source \in Path
  <2>1. n.by = "launcher"
    <3>1. ASSUME NEW g \in Grants, n = GrantMount(g)  PROVE FALSE
      BY <1>2, <3>1, PlanAssumption DEF GrantMount, SoundPlace
    <3> QED  BY <3>1 DEF IInv, MountInv
  <2> QED  BY <2>1 DEF IInv, MountInv, TypeInv, SystemTypes, Mount
<1>4. owned_mount_teardown_order(n, m)
  BY <1>2, <1>3, UsersFirst DEF SoundPlace
<1> QED  BY <1>4 DEF owned_mount_teardown_order

\* TeardownIsSound: the order of owned_mount_teardown_order, by depth and name alone,
\* takes down what sits on a mount or shows its files before the mount itself, and
\* a forced unmount takes the ground only from a mount that was tried before it or
\* is loose: of a killed helper, a tmpfs with adjust_tmpfs's error, left by a failed
\* attach, or of a bridge that ended; never from a grant of the bridge that answers
\* RemoveSandbox.
THEOREM TeardownIsSound == Spec => []TeardownSound
<1>1. IInv => TeardownSound
  BY OrderFollows DEF IInv, TeardownSound
<1> QED  BY <1>1, Invariance, PTL

\* RootGoesLast: cleanup removes the root only when nothing is mounted in it, the run
\* record after the root, the generated trees when no mount shows them; but for
\* loose mounts, which nobody who takes mounts down knew of.  After the removal only
\* loose ones that lost the mount below them are left.
THEOREM RootGoesLast == Spec => []RemovedLast
<1>1. IInv => RemovedLast
  BY DEF IInv
<1> QED  BY <1>1, Invariance, PTL

\* AttributesRestored: protect_regular_file_parent is undone on every path of the
\* helper: owner and mode of a directory are the caller's again once no helper is at
\* work in it, unless that restoration failed, its helper was killed or two
\* overlapped.
THEOREM AttributesRestored == Spec => []ParentsRestored
<1>1. IInv => ParentsRestored
  BY DEF IInv, AttrInv, ParentsRestored
<1> QED  BY <1>1, Invariance, PTL
===============================================================================

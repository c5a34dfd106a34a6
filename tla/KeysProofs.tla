----------------------------- MODULE KeysProofs -----------------------------
(***************************************************************************)
(* What holds of the key files and their copy in memory for every number   *)
(* of keys, directories, services and rotating threads.  The first part is *)
(* about the pairs and leaves the types of `previous`, `listed` and        *)
(* `archive` open; the second is about these, in directories where nothing *)
(* went wrong.                                                             *)
(***************************************************************************)
EXTENDS Keys, SequenceTheorems, FiniteSetTheorems, TLAPS

MaybeKey == Key \cup {None}

IsFiles(f) ==
  /\ f \in [private: MaybeKey, public: MaybeKey, kid: MaybeKey, certificate: MaybeKey,
            listed: {f.listed}, archive: {f.archive}]
  /\ None \notin {f.private, f.public, f.kid} => f.certificate # None

(* The files of a directory that a service was made for.                   *)
HasFiles(f) == {f.private, f.public, f.kid, f.certificate} \subseteq Key

IsCrypto(s) ==
  s \in [dir: Dir, private: Key, public: Key, kid: Key, certificate: Key,
         previous: {s.previous}, limit: {s.limit}]

At == {"idle", "archive", "retire", "prune", "public", "kid", "loadPrivate", "loadPublic",
       "adopt", "certify", "list"}

IsRotation(r) ==
  /\ r \in [at: At, on: {r.on}, old: {r.old}, new: MaybeKey, alone: BOOLEAN]
  /\ r.at \in At \ {"idle", "archive", "retire", "prune"} => r.new \in Key

Shapes ==
  /\ keysDir \in Dir
  /\ disk = [d \in Dir |-> disk[d]] /\ \A d \in Dir : IsFiles(disk[d])
  /\ service = [s \in Service |-> service[s]]
  /\ current \in Service /\ IsCrypto(service[current])
  /\ HasFiles(disk[service[current].dir])
  /\ rotation = [t \in Thread |-> rotation[t]]
  /\ \A t \in Thread :
       /\ IsRotation(rotation[t])
       /\ Rotating(t) =>
            rotation[t].on \in Service /\ IsCrypto(On(t)) /\ HasFiles(disk[On(t).dir])
  /\ flaw = [d \in Dir |-> flaw[d]]
  /\ drawn \subseteq Key

(* A thread rotates in a directory.                                        *)
In(t, d) == Rotating(t) /\ On(t).dir = d

(* Two rotations of a directory know of each other, and so do a rotation   *)
(* and the loading of the files.                                           *)
AloneIsAlone ==
  \A t \in Thread : Rotating(t) =>
    /\ ~rotation[t].alone => {"pair", "certificate"} \subseteq flaw[On(t).dir]
    /\ rotation[t].alone =>
         /\ \A u \in Thread : In(u, On(t).dir) => u = t
         /\ service[current].dir = On(t).dir => current = rotation[t].on

FilesPair(d) == disk[d].private = disk[d].public /\ disk[d].public = disk[d].kid
ServicePair(s) ==
  service[s].private = service[s].public /\ service[s].public = service[s].kid
FilesFit(d) == disk[d].certificate = disk[d].private
ServiceFits(s) == service[s].certificate = service[s].private

(* What the files of d and the service s hold when nobody rotates there,   *)
(* as far as nothing went wrong.                                           *)
Settled(d, s) ==
  /\ "pair" \notin flaw[d] => FilesPair(d) /\ (service[s].dir = d => ServicePair(s))
  /\ flaw[d] \cap {"pair", "certificate"} = {} =>
       FilesFit(d) /\ (service[s].dir = d => ServiceFits(s))

(* How far a rotation that is alone has got: its key reaches the files one *)
(* by one, and then the service.                                           *)
Reached(t, stages) == rotation[t].at \in stages

Progress(t) ==
  LET d == On(t).dir
      n == rotation[t].new
  IN  /\ Reached(t, {"archive", "retire", "prune"}) => Settled(d, rotation[t].on)
      /\ ~Reached(t, {"archive", "retire", "prune"}) => disk[d].private = n
      /\ ~Reached(t, {"archive", "retire", "prune", "public"}) => disk[d].public = n
      /\ Reached(t, {"loadPrivate", "loadPublic", "adopt", "certify", "list"}) =>
           disk[d].kid = n
      /\ Reached(t, {"loadPublic", "adopt", "certify", "list"}) => On(t).private = n
      /\ Reached(t, {"adopt", "certify", "list"}) => On(t).public = n
      /\ Reached(t, {"certify", "list"}) => On(t).kid = n
      /\ Reached(t, {"list"}) => disk[d].certificate = n /\ On(t).certificate = n

AloneProgresses == \A t \in Thread : Rotating(t) /\ rotation[t].alone => Progress(t)

Quiet == \A d \in Dir : (\A t \in Thread : ~In(t, d)) => Settled(d, current)

KeysInv == Shapes /\ AloneIsAlone /\ AloneProgresses /\ Quiet

-----------------------------------------------------------------------------
(* The invariant holds at the start.                                       *)
LEMMA InvInit == KeysInit => KeysInv
<1> SUFFICES ASSUME KeysInit PROVE KeysInv
  OBVIOUS
<1>1. PICK d \in Dir, s \in Service, k \in Key :
        LET files == Generated(NoFiles, k)
        IN  /\ keysDir = d
            /\ disk = [e \in Dir |-> IF e = d THEN files ELSE NoFiles]
            /\ service = [o \in Service |-> IF o = s THEN Loaded(d, files, Configured) ELSE None]
            /\ current = s
            /\ rotation = [t \in Thread |-> Idle]
            /\ drawn = {k}
            /\ flaw = [e \in Dir |-> {}]
  BY DEF KeysInit
<1> DEFINE files == Generated(NoFiles, k)
<1>2. files = [private |-> k, public |-> k, kid |-> k, certificate |-> k,
               listed |-> << >>, archive |-> [j \in Key |-> None]]
  BY DEF NoFiles, Generated
<1>3. service[current] =
        [dir |-> d, private |-> k, public |-> k, kid |-> k, certificate |-> k,
         previous |-> PreviousOf(files), limit |-> Configured]
  BY <1>1, <1>2 DEF Loaded
<1>4. IsCrypto(service[current])
  BY <1>3 DEF IsCrypto
<1>5. \A e \in Dir : IsFiles(disk[e]) /\ FilesPair(e) /\ FilesFit(e)
  BY <1>1, <1>2 DEF IsFiles, FilesPair, FilesFit, MaybeKey, NoFiles
<1>6. \A t \in Thread : ~Rotating(t) /\ IsRotation(rotation[t])
  BY <1>1 DEF Idle, IsRotation, Rotating, At, MaybeKey
<1>7. Shapes
  <2>1. HasFiles(disk[service[current].dir])
    BY <1>1, <1>2, <1>3 DEF HasFiles
  <2> QED BY <1>1, <1>4, <1>5, <1>6, <2>1 DEF Shapes
<1>8. Quiet
  BY <1>3, <1>5 DEF Quiet, Settled, ServicePair, ServiceFits
<1> QED BY <1>6, <1>7, <1>8 DEF KeysInv, AloneIsAlone, AloneProgresses

(* A step of a rotation that stays under way: it writes one file of its    *)
(* directory, or one attribute of its service, or both.                    *)
LEMMA RotationStep ==
  ASSUME KeysInv, NEW t \in Thread, Rotating(t),
         rotation' = [rotation EXCEPT ![t] = rotation'[t]],
         disk' = [disk EXCEPT ![On(t).dir] = disk'[On(t).dir]],
         service' = [service EXCEPT ![rotation[t].on] = service'[rotation[t].on]],
         IsRotation(rotation'[t]), rotation'[t].at # "idle",
         rotation'[t].on = rotation[t].on, rotation'[t].alone = rotation[t].alone,
         IsFiles(disk'[On(t).dir]), HasFiles(disk'[On(t).dir]),
         IsCrypto(service'[rotation[t].on]),
         service'[rotation[t].on].dir = On(t).dir,
         UNCHANGED <<keysDir, current, flaw>>, drawn' \subseteq Key,
         rotation[t].alone => Progress(t)'
  PROVE  KeysInv'
<1> DEFINE d == On(t).dir
           o == rotation[t].on
<1> USE DEF KeysInv
<1>1. /\ d \in Dir /\ o \in Service
      /\ \A e \in Dir : e # d => disk'[e] = disk[e]
      /\ \A p \in Service : p # o => service'[p] = service[p]
      /\ \A u \in Thread : u # t => rotation'[u] = rotation[u]
  BY Zenon DEF Shapes, IsCrypto, On
<1>2. \A p \in Service : service'[p].dir = service[p].dir
  BY <1>1 DEF On
<1>3. \A u \in Thread : /\ Rotating(u)' <=> Rotating(u)
                        /\ rotation'[u].on = rotation[u].on
                        /\ rotation'[u].alone = rotation[u].alone
  BY <1>1 DEF Rotating
<1>4. \A u \in Thread : Rotating(u) => On(u)'.dir = On(u).dir
  BY <1>2, <1>3, Zenon DEF On, Shapes
<1>5. \A u \in Thread : \A e : In(u, e)' <=> In(u, e)
  BY <1>3, <1>4 DEF In
<1>6. Shapes'
  <2>1. IsCrypto(service[current])' /\ \A u \in Thread : Rotating(u)' => IsCrypto(On(u))'
    <3>1. current \in Service /\ IsCrypto(service[current])
      BY DEF Shapes
    <3>2. IsCrypto(service'[current])
      BY <3>1, <1>1 DEF IsCrypto
    <3>3. ASSUME NEW u \in Thread, Rotating(u)' PROVE IsCrypto(On(u))'
      <4>1. rotation[u].on \in Service /\ IsCrypto(On(u))
        BY <3>3, <1>3 DEF Shapes
      <4>2. On(u)' = service'[rotation[u].on] /\ On(u) = service[rotation[u].on]
        BY <1>3 DEF On
      <4> QED BY <4>1, <4>2, <1>1 DEF IsCrypto
    <3> QED BY <3>2, <3>3
  <2>2. \A u \in Thread : IsRotation(rotation[u])'
    BY <1>1 DEF Shapes, IsRotation
  <2>3. \A e \in Dir : IsFiles(disk[e])'
    BY <1>1 DEF Shapes, IsFiles
  <2>4. \A u \in Thread : Rotating(u)' => rotation'[u].on \in Service
    BY <1>3 DEF Shapes
  <2>5. HasFiles(disk[service[current].dir])' /\ \A u \in Thread : Rotating(u)' => HasFiles(disk[On(u).dir])'
    <3>1. \A e \in Dir : HasFiles(disk[e]) => HasFiles(disk'[e])
      BY <1>1 DEF HasFiles
    <3>2. service[current].dir \in Dir /\ \A u \in Thread : Rotating(u) => On(u).dir \in Dir
      BY DEF Shapes, IsCrypto
    <3>3. current \in Service /\ service'[current].dir = service[current].dir
      BY <1>2 DEF Shapes
    <3> QED BY <1>3, <1>4, <3>1, <3>2, <3>3 DEF Shapes, HasFiles
  <2> QED BY <2>1, <2>2, <2>3, <2>4, <2>5 DEF Shapes
<1>7. AloneIsAlone'
  BY <1>2, <1>3, <1>4, <1>5 DEF AloneIsAlone, Shapes
<1>8. ASSUME NEW u \in Thread, Rotating(u)', rotation'[u].alone PROVE Progress(u)'
  <2>1. CASE u = t
    BY <2>1, <1>3, <1>8
  <2>2. CASE u # t
    <3>1. Rotating(u) /\ rotation[u].alone /\ Progress(u)
      BY <1>3, <1>8 DEF AloneProgresses
    <3>2. On(u).dir # d /\ rotation[u].on # o
      BY <3>1, <2>2 DEF AloneIsAlone, In, On
    <3>3. rotation[u].on \in Service /\ On(u).dir \in Dir
      BY <3>1 DEF Shapes, IsCrypto
    <3>4. /\ rotation'[u] = rotation[u] /\ On(u)' = On(u)
          /\ disk'[On(u).dir] = disk[On(u).dir]
          /\ service'[rotation[u].on] = service[rotation[u].on]
      BY <1>1, <2>2, <3>2, <3>3, Zenon DEF On
    <3> QED BY <3>1, <3>4 DEF Progress, Reached, Settled, FilesPair, ServicePair, FilesFit,
                              ServiceFits
  <2> QED BY <2>1, <2>2
<1>9. ASSUME NEW e \in Dir, \A u \in Thread : ~In(u, e)' PROVE Settled(e, current)'
  <2>1. (\A u \in Thread : ~In(u, e)) /\ e # d
    BY <1>5, <1>9 DEF In
  <2>2. Settled(e, current)
    BY <2>1 DEF Quiet
  <2>3. service[current].dir = e => current # o
    BY <2>1 DEF On
  <2>4. /\ disk'[e] = disk[e] /\ service'[current].dir = service[current].dir
        /\ service[current].dir = e => service'[current] = service[current]
    BY <1>1, <1>2, <2>1, <2>3 DEF Shapes
  <2> QED BY <2>2, <2>4 DEF Settled, FilesPair, ServicePair, FilesFit, ServiceFits
<1>10. AloneProgresses' /\ Quiet'
  BY <1>8, <1>9 DEF AloneProgresses, Quiet
<1> QED BY <1>6, <1>7, <1>10

(* The steps of rotate_keys.                                               *)
LEMMA StepsKeepInv ==
  ASSUME KeysInv, NEW t \in Thread,
         \/ ArchivePublic(t) \/ Retire(t) \/ Prune(t)
         \/ \E k \in Key : WritePrivate(t, k)
         \/ WritePublic(t) \/ WriteKid(t) \/ LoadPrivate(t) \/ LoadPublic(t)
         \/ Adopt(t) \/ Certify(t)
  PROVE  KeysInv'
<1> DEFINE o == rotation[t].on
           d == On(t).dir
<1>1. /\ Rotating(t) /\ IsRotation(rotation[t]) /\ o \in Service /\ IsCrypto(On(t))
      /\ d \in Dir /\ IsFiles(disk[d]) /\ HasFiles(disk[d]) /\ rotation[t].at # "list"
      /\ IsCrypto(service[o]) /\ service[o].dir = d
  BY Zenon DEF On, KeysInv, Shapes, IsCrypto, Rotating, Step, ArchivePublic, Retire, Prune,
         WritePrivate, WritePublic, WriteKid, LoadPrivate, LoadPublic, Adopt, Certify
<1>2. /\ disk = [disk EXCEPT ![d] = disk[d]]
      /\ service = [service EXCEPT ![o] = service[o]]
      /\ rotation = [rotation EXCEPT ![t] = rotation[t]]
      /\ disk = [e \in Dir |-> disk[e]] /\ service = [p \in Service |-> service[p]]
      /\ rotation = [u \in Thread |-> rotation[u]]
  BY DEF KeysInv, Shapes
<1>3. rotation[t].alone => Progress(t)
  BY <1>1 DEF KeysInv, AloneProgresses
<1>4. CASE ArchivePublic(t)
  <2> DEFINE r == [rotation[t] EXCEPT !.at = "retire"]
             f == [disk[d] EXCEPT !.archive[rotation[t].old] = On(t).public]
             s == service[o]
  <2>1. /\ rotation' = [rotation EXCEPT ![t] = r] /\ rotation[t].at = "archive"
        /\ disk' = [disk EXCEPT ![d] = f]
        /\ service' = [service EXCEPT ![o] = s]
        /\ UNCHANGED <<keysDir, current, flaw>> /\ drawn' \subseteq Key
    BY <1>1, <1>2, <1>4, Zenon DEF ArchivePublic, Step, On, runtime, history, KeysInv, Shapes
  <2>2. /\ IsRotation(r) /\ r.at = "retire" /\ r.on = o /\ r.alone = rotation[t].alone
        /\ r.new = rotation[t].new
    BY <1>1, <1>4, <2>1 DEF IsRotation, At, MaybeKey
  <2>3. /\ f.private = disk[d].private /\ f.public = disk[d].public
        /\ f.kid = disk[d].kid /\ f.certificate = disk[d].certificate
        /\ IsFiles(f) /\ HasFiles(f)
    BY <1>1, <1>4, <2>1, KeysAssumption, Zenon
       DEF IsFiles, HasFiles, MaybeKey, IsRotation, IsCrypto, On, At
  <2>4. /\ IsCrypto(s) /\ s.dir = d
        /\ s.private = service[o].private /\ s.public = service[o].public
        /\ s.kid = service[o].kid /\ s.certificate = service[o].certificate
    BY <1>1, <1>4, <2>1, Zenon DEF IsCrypto, IsRotation, HasFiles, On, At
  <2>5. /\ rotation'[t] = r /\ disk'[d] = f /\ service'[o] = s /\ On(t)' = s
        /\ rotation' = [rotation EXCEPT ![t] = rotation'[t]]
        /\ disk' = [disk EXCEPT ![d] = disk'[d]]
        /\ service' = [service EXCEPT ![o] = service'[o]]
    BY <1>1, <1>2, <2>1, <2>2, Zenon DEF On
  <2> HIDE DEF r, f, s
  <2>6. rotation[t].alone => Progress(t)'
    BY <1>1, <1>3, <2>1, <2>2, <2>3, <2>4, <2>5
       DEF Progress, Reached, Settled, FilesPair, ServicePair, FilesFit, ServiceFits
  <2> QED BY <1>1, <2>1, <2>2, <2>3, <2>4, <2>5, <2>6, RotationStep, Zenon
<1>5. CASE Retire(t)
  <2> DEFINE r == [rotation[t] EXCEPT !.at = "prune"]
             f == disk[d]
             s == [service[o] EXCEPT !.previous = <<[kid |-> rotation[t].old, key |-> On(t).public]>> \o @]
  <2>1. /\ rotation' = [rotation EXCEPT ![t] = r] /\ rotation[t].at = "retire"
        /\ disk' = [disk EXCEPT ![d] = f]
        /\ service' = [service EXCEPT ![o] = s]
        /\ UNCHANGED <<keysDir, current, flaw>> /\ drawn' \subseteq Key
    BY <1>1, <1>2, <1>5, Zenon DEF Retire, Step, On, runtime, history, KeysInv, Shapes
  <2>2. /\ IsRotation(r) /\ r.at = "prune" /\ r.on = o /\ r.alone = rotation[t].alone
        /\ r.new = rotation[t].new
    BY <1>1, <1>5, <2>1 DEF IsRotation, At, MaybeKey
  <2>3. /\ f.private = disk[d].private /\ f.public = disk[d].public
        /\ f.kid = disk[d].kid /\ f.certificate = disk[d].certificate
        /\ IsFiles(f) /\ HasFiles(f)
    BY <1>1, <1>5, <2>1, KeysAssumption, Zenon
       DEF IsFiles, HasFiles, MaybeKey, IsRotation, IsCrypto, On, At
  <2>4. /\ IsCrypto(s) /\ s.dir = d
        /\ s.private = service[o].private /\ s.public = service[o].public
        /\ s.kid = service[o].kid /\ s.certificate = service[o].certificate
    BY <1>1, <1>5, <2>1, Zenon DEF IsCrypto, IsRotation, HasFiles, On, At
  <2>5. /\ rotation'[t] = r /\ disk'[d] = f /\ service'[o] = s /\ On(t)' = s
        /\ rotation' = [rotation EXCEPT ![t] = rotation'[t]]
        /\ disk' = [disk EXCEPT ![d] = disk'[d]]
        /\ service' = [service EXCEPT ![o] = service'[o]]
    BY <1>1, <1>2, <2>1, <2>2, Zenon DEF On
  <2> HIDE DEF r, f, s
  <2>6. rotation[t].alone => Progress(t)'
    BY <1>1, <1>3, <2>1, <2>2, <2>3, <2>4, <2>5
       DEF Progress, Reached, Settled, FilesPair, ServicePair, FilesFit, ServiceFits
  <2> QED BY <1>1, <2>1, <2>2, <2>3, <2>4, <2>5, <2>6, RotationStep, Zenon
<1>6. CASE Prune(t)
  <2> DEFINE r == rotation[t]
             f == [disk[d] EXCEPT !.archive[On(t).previous[Len(On(t).previous)].kid] = None]
             s == [service[o] EXCEPT !.previous = SubSeq(@, 1, Len(On(t).previous) - 1)]
  <2>1. /\ rotation' = [rotation EXCEPT ![t] = r] /\ rotation[t].at = "prune"
        /\ disk' = [disk EXCEPT ![d] = f]
        /\ service' = [service EXCEPT ![o] = s]
        /\ UNCHANGED <<keysDir, current, flaw>> /\ drawn' \subseteq Key
    BY <1>1, <1>2, <1>6, Zenon DEF Prune, Step, On, runtime, history, KeysInv, Shapes
  <2>2. /\ IsRotation(r) /\ r.at = "prune" /\ r.on = o /\ r.alone = rotation[t].alone
        /\ r.new = rotation[t].new
    BY <1>1, <1>6, <2>1 DEF IsRotation, At, MaybeKey
  <2>3. /\ f.private = disk[d].private /\ f.public = disk[d].public
        /\ f.kid = disk[d].kid /\ f.certificate = disk[d].certificate
        /\ IsFiles(f) /\ HasFiles(f)
    BY <1>1, <1>6, <2>1, KeysAssumption, Zenon
       DEF IsFiles, HasFiles, MaybeKey, IsRotation, IsCrypto, On, At
  <2>4. /\ IsCrypto(s) /\ s.dir = d
        /\ s.private = service[o].private /\ s.public = service[o].public
        /\ s.kid = service[o].kid /\ s.certificate = service[o].certificate
    BY <1>1, <1>6, <2>1, Zenon DEF IsCrypto, IsRotation, HasFiles, On, At
  <2>5. /\ rotation'[t] = r /\ disk'[d] = f /\ service'[o] = s /\ On(t)' = s
        /\ rotation' = [rotation EXCEPT ![t] = rotation'[t]]
        /\ disk' = [disk EXCEPT ![d] = disk'[d]]
        /\ service' = [service EXCEPT ![o] = service'[o]]
    BY <1>1, <1>2, <2>1, <2>2, Zenon DEF On
  <2> HIDE DEF r, f, s
  <2>6. rotation[t].alone => Progress(t)'
    BY <1>1, <1>3, <2>1, <2>2, <2>3, <2>4, <2>5
       DEF Progress, Reached, Settled, FilesPair, ServicePair, FilesFit, ServiceFits
  <2> QED BY <1>1, <2>1, <2>2, <2>3, <2>4, <2>5, <2>6, RotationStep, Zenon
<1>7. ASSUME NEW k \in Key, WritePrivate(t, k) PROVE KeysInv'
  <2> DEFINE r == [rotation[t] EXCEPT !.at = "public", !.new = k]
             f == [disk[d] EXCEPT !.private = k]
             s == service[o]
  <2>1. /\ rotation' = [rotation EXCEPT ![t] = r] /\ rotation[t].at = "prune"
        /\ disk' = [disk EXCEPT ![d] = f]
        /\ service' = [service EXCEPT ![o] = s]
        /\ UNCHANGED <<keysDir, current, flaw>> /\ drawn' \subseteq Key
    BY <1>1, <1>2, <1>7, Zenon DEF WritePrivate, Step, On, runtime, history, KeysInv, Shapes
  <2>2. /\ IsRotation(r) /\ r.at = "public" /\ r.on = o /\ r.alone = rotation[t].alone
        /\ r.new = k
    BY <1>1, <1>7, <2>1, Zenon DEF IsRotation, At, MaybeKey
  <2>3. /\ f.private = k /\ f.public = disk[d].public
        /\ f.kid = disk[d].kid /\ f.certificate = disk[d].certificate
        /\ IsFiles(f) /\ HasFiles(f)
    BY <1>1, <1>7, <2>1, KeysAssumption, Zenon
       DEF IsFiles, HasFiles, MaybeKey, IsRotation, IsCrypto, On, At
  <2>4. /\ IsCrypto(s) /\ s.dir = d
        /\ s.private = service[o].private /\ s.public = service[o].public
        /\ s.kid = service[o].kid /\ s.certificate = service[o].certificate
    BY <1>1, <1>7, <2>1, Zenon DEF IsCrypto, IsRotation, HasFiles, On, At
  <2>5. /\ rotation'[t] = r /\ disk'[d] = f /\ service'[o] = s /\ On(t)' = s
        /\ rotation' = [rotation EXCEPT ![t] = rotation'[t]]
        /\ disk' = [disk EXCEPT ![d] = disk'[d]]
        /\ service' = [service EXCEPT ![o] = service'[o]]
    BY <1>1, <1>2, <2>1, <2>2, Zenon DEF On
  <2> HIDE DEF r, f, s
  <2>6. rotation[t].alone => Progress(t)'
    BY <1>1, <1>3, <2>1, <2>2, <2>3, <2>4, <2>5
       DEF Progress, Reached, Settled, FilesPair, ServicePair, FilesFit, ServiceFits
  <2> QED BY <1>1, <2>1, <2>2, <2>3, <2>4, <2>5, <2>6, RotationStep, Zenon
<1>8. CASE WritePublic(t)
  <2> DEFINE r == [rotation[t] EXCEPT !.at = "kid"]
             f == [disk[d] EXCEPT !.public = rotation[t].new]
             s == service[o]
  <2>1. /\ rotation' = [rotation EXCEPT ![t] = r] /\ rotation[t].at = "public"
        /\ disk' = [disk EXCEPT ![d] = f]
        /\ service' = [service EXCEPT ![o] = s]
        /\ UNCHANGED <<keysDir, current, flaw>> /\ drawn' \subseteq Key
    BY <1>1, <1>2, <1>8, Zenon DEF WritePublic, Step, On, runtime, history, KeysInv, Shapes
  <2>2. /\ IsRotation(r) /\ r.at = "kid" /\ r.on = o /\ r.alone = rotation[t].alone
        /\ r.new = rotation[t].new
    BY <1>1, <1>8, <2>1 DEF IsRotation, At, MaybeKey
  <2>3. /\ f.private = disk[d].private /\ f.public = rotation[t].new
        /\ f.kid = disk[d].kid /\ f.certificate = disk[d].certificate
        /\ IsFiles(f) /\ HasFiles(f)
    BY <1>1, <1>8, <2>1, KeysAssumption, Zenon
       DEF IsFiles, HasFiles, MaybeKey, IsRotation, IsCrypto, On, At
  <2>4. /\ IsCrypto(s) /\ s.dir = d
        /\ s.private = service[o].private /\ s.public = service[o].public
        /\ s.kid = service[o].kid /\ s.certificate = service[o].certificate
    BY <1>1, <1>8, <2>1, Zenon DEF IsCrypto, IsRotation, HasFiles, On, At
  <2>5. /\ rotation'[t] = r /\ disk'[d] = f /\ service'[o] = s /\ On(t)' = s
        /\ rotation' = [rotation EXCEPT ![t] = rotation'[t]]
        /\ disk' = [disk EXCEPT ![d] = disk'[d]]
        /\ service' = [service EXCEPT ![o] = service'[o]]
    BY <1>1, <1>2, <2>1, <2>2, Zenon DEF On
  <2> HIDE DEF r, f, s
  <2>6. rotation[t].alone => Progress(t)'
    BY <1>1, <1>3, <2>1, <2>2, <2>3, <2>4, <2>5
       DEF Progress, Reached, Settled, FilesPair, ServicePair, FilesFit, ServiceFits
  <2> QED BY <1>1, <2>1, <2>2, <2>3, <2>4, <2>5, <2>6, RotationStep, Zenon
<1>9. CASE WriteKid(t)
  <2> DEFINE r == [rotation[t] EXCEPT !.at = "loadPrivate"]
             f == [disk[d] EXCEPT !.kid = rotation[t].new]
             s == service[o]
  <2>1. /\ rotation' = [rotation EXCEPT ![t] = r] /\ rotation[t].at = "kid"
        /\ disk' = [disk EXCEPT ![d] = f]
        /\ service' = [service EXCEPT ![o] = s]
        /\ UNCHANGED <<keysDir, current, flaw>> /\ drawn' \subseteq Key
    BY <1>1, <1>2, <1>9, Zenon DEF WriteKid, Step, On, runtime, history, KeysInv, Shapes
  <2>2. /\ IsRotation(r) /\ r.at = "loadPrivate" /\ r.on = o /\ r.alone = rotation[t].alone
        /\ r.new = rotation[t].new
    BY <1>1, <1>9, <2>1 DEF IsRotation, At, MaybeKey
  <2>3. /\ f.private = disk[d].private /\ f.public = disk[d].public
        /\ f.kid = rotation[t].new /\ f.certificate = disk[d].certificate
        /\ IsFiles(f) /\ HasFiles(f)
    BY <1>1, <1>9, <2>1, KeysAssumption, Zenon
       DEF IsFiles, HasFiles, MaybeKey, IsRotation, IsCrypto, On, At
  <2>4. /\ IsCrypto(s) /\ s.dir = d
        /\ s.private = service[o].private /\ s.public = service[o].public
        /\ s.kid = service[o].kid /\ s.certificate = service[o].certificate
    BY <1>1, <1>9, <2>1, Zenon DEF IsCrypto, IsRotation, HasFiles, On, At
  <2>5. /\ rotation'[t] = r /\ disk'[d] = f /\ service'[o] = s /\ On(t)' = s
        /\ rotation' = [rotation EXCEPT ![t] = rotation'[t]]
        /\ disk' = [disk EXCEPT ![d] = disk'[d]]
        /\ service' = [service EXCEPT ![o] = service'[o]]
    BY <1>1, <1>2, <2>1, <2>2, Zenon DEF On
  <2> HIDE DEF r, f, s
  <2>6. rotation[t].alone => Progress(t)'
    BY <1>1, <1>3, <2>1, <2>2, <2>3, <2>4, <2>5
       DEF Progress, Reached, Settled, FilesPair, ServicePair, FilesFit, ServiceFits
  <2> QED BY <1>1, <2>1, <2>2, <2>3, <2>4, <2>5, <2>6, RotationStep, Zenon
<1>10. CASE LoadPrivate(t)
  <2> DEFINE r == [rotation[t] EXCEPT !.at = "loadPublic"]
             f == disk[d]
             s == [service[o] EXCEPT !.private = disk[d].private]
  <2>1. /\ rotation' = [rotation EXCEPT ![t] = r] /\ rotation[t].at = "loadPrivate"
        /\ disk' = [disk EXCEPT ![d] = f]
        /\ service' = [service EXCEPT ![o] = s]
        /\ UNCHANGED <<keysDir, current, flaw>> /\ drawn' \subseteq Key
    BY <1>1, <1>2, <1>10, Zenon DEF LoadPrivate, Step, On, runtime, history, KeysInv, Shapes
  <2>2. /\ IsRotation(r) /\ r.at = "loadPublic" /\ r.on = o /\ r.alone = rotation[t].alone
        /\ r.new = rotation[t].new
    BY <1>1, <1>10, <2>1 DEF IsRotation, At, MaybeKey
  <2>3. /\ f.private = disk[d].private /\ f.public = disk[d].public
        /\ f.kid = disk[d].kid /\ f.certificate = disk[d].certificate
        /\ IsFiles(f) /\ HasFiles(f)
    BY <1>1, <1>10, <2>1, KeysAssumption, Zenon
       DEF IsFiles, HasFiles, MaybeKey, IsRotation, IsCrypto, On, At
  <2>4. /\ IsCrypto(s) /\ s.dir = d
        /\ s.private = disk[d].private /\ s.public = service[o].public
        /\ s.kid = service[o].kid /\ s.certificate = service[o].certificate
    BY <1>1, <1>10, <2>1, Zenon DEF IsCrypto, IsRotation, HasFiles, On, At
  <2>5. /\ rotation'[t] = r /\ disk'[d] = f /\ service'[o] = s /\ On(t)' = s
        /\ rotation' = [rotation EXCEPT ![t] = rotation'[t]]
        /\ disk' = [disk EXCEPT ![d] = disk'[d]]
        /\ service' = [service EXCEPT ![o] = service'[o]]
    BY <1>1, <1>2, <2>1, <2>2, Zenon DEF On
  <2> HIDE DEF r, f, s
  <2>6. rotation[t].alone => Progress(t)'
    BY <1>1, <1>3, <2>1, <2>2, <2>3, <2>4, <2>5
       DEF Progress, Reached, Settled, FilesPair, ServicePair, FilesFit, ServiceFits
  <2> QED BY <1>1, <2>1, <2>2, <2>3, <2>4, <2>5, <2>6, RotationStep, Zenon
<1>11. CASE LoadPublic(t)
  <2> DEFINE r == [rotation[t] EXCEPT !.at = "adopt"]
             f == disk[d]
             s == [service[o] EXCEPT !.public = disk[d].public]
  <2>1. /\ rotation' = [rotation EXCEPT ![t] = r] /\ rotation[t].at = "loadPublic"
        /\ disk' = [disk EXCEPT ![d] = f]
        /\ service' = [service EXCEPT ![o] = s]
        /\ UNCHANGED <<keysDir, current, flaw>> /\ drawn' \subseteq Key
    BY <1>1, <1>2, <1>11, Zenon DEF LoadPublic, Step, On, runtime, history, KeysInv, Shapes
  <2>2. /\ IsRotation(r) /\ r.at = "adopt" /\ r.on = o /\ r.alone = rotation[t].alone
        /\ r.new = rotation[t].new
    BY <1>1, <1>11, <2>1 DEF IsRotation, At, MaybeKey
  <2>3. /\ f.private = disk[d].private /\ f.public = disk[d].public
        /\ f.kid = disk[d].kid /\ f.certificate = disk[d].certificate
        /\ IsFiles(f) /\ HasFiles(f)
    BY <1>1, <1>11, <2>1, KeysAssumption, Zenon
       DEF IsFiles, HasFiles, MaybeKey, IsRotation, IsCrypto, On, At
  <2>4. /\ IsCrypto(s) /\ s.dir = d
        /\ s.private = On(t).private /\ s.public = disk[d].public
        /\ s.kid = On(t).kid /\ s.certificate = On(t).certificate
    BY <1>1, <1>11, <2>1, Zenon DEF IsCrypto, IsRotation, HasFiles, On, At
  <2>5. /\ rotation'[t] = r /\ disk'[d] = f /\ service'[o] = s /\ On(t)' = s
        /\ rotation' = [rotation EXCEPT ![t] = rotation'[t]]
        /\ disk' = [disk EXCEPT ![d] = disk'[d]]
        /\ service' = [service EXCEPT ![o] = service'[o]]
    BY <1>1, <1>2, <2>1, <2>2, Zenon DEF On
  <2> HIDE DEF r, f, s
  <2>6. rotation[t].alone => Progress(t)'
    BY <1>1, <1>3, <2>1, <2>2, <2>3, <2>4, <2>5
       DEF Progress, Reached, Settled, FilesPair, ServicePair, FilesFit, ServiceFits
  <2> QED BY <1>1, <2>1, <2>2, <2>3, <2>4, <2>5, <2>6, RotationStep, Zenon
<1>12. CASE Adopt(t)
  <2> DEFINE r == [rotation[t] EXCEPT !.at = "certify"]
             f == disk[d]
             s == [service[o] EXCEPT !.kid = rotation[t].new]
  <2>1. /\ rotation' = [rotation EXCEPT ![t] = r] /\ rotation[t].at = "adopt"
        /\ disk' = [disk EXCEPT ![d] = f]
        /\ service' = [service EXCEPT ![o] = s]
        /\ UNCHANGED <<keysDir, current, flaw>> /\ drawn' \subseteq Key
    BY <1>1, <1>2, <1>12, Zenon DEF Adopt, Step, On, runtime, history, KeysInv, Shapes
  <2>2. /\ IsRotation(r) /\ r.at = "certify" /\ r.on = o /\ r.alone = rotation[t].alone
        /\ r.new = rotation[t].new
    BY <1>1, <1>12, <2>1 DEF IsRotation, At, MaybeKey
  <2>3. /\ f.private = disk[d].private /\ f.public = disk[d].public
        /\ f.kid = disk[d].kid /\ f.certificate = disk[d].certificate
        /\ IsFiles(f) /\ HasFiles(f)
    BY <1>1, <1>12, <2>1, KeysAssumption, Zenon
       DEF IsFiles, HasFiles, MaybeKey, IsRotation, IsCrypto, On, At
  <2>4. /\ IsCrypto(s) /\ s.dir = d
        /\ s.private = On(t).private /\ s.public = On(t).public
        /\ s.kid = rotation[t].new /\ s.certificate = On(t).certificate
    BY <1>1, <1>12, <2>1 DEF IsCrypto, IsRotation, HasFiles, On, At
  <2>5. /\ rotation'[t] = r /\ disk'[d] = f /\ service'[o] = s /\ On(t)' = s
        /\ rotation' = [rotation EXCEPT ![t] = rotation'[t]]
        /\ disk' = [disk EXCEPT ![d] = disk'[d]]
        /\ service' = [service EXCEPT ![o] = service'[o]]
    BY <1>1, <1>2, <2>1, <2>2, Zenon DEF On
  <2> HIDE DEF r, f, s
  <2>6. rotation[t].alone => Progress(t)'
    BY <1>1, <1>3, <2>1, <2>2, <2>3, <2>4, <2>5
       DEF Progress, Reached, Settled, FilesPair, ServicePair, FilesFit, ServiceFits
  <2> QED BY <1>1, <2>1, <2>2, <2>3, <2>4, <2>5, <2>6, RotationStep, Zenon
<1>13. CASE Certify(t)
  <2> DEFINE r == [rotation[t] EXCEPT !.at = "list"]
             f == [disk[d] EXCEPT !.certificate = On(t).public]
             s == [service[o] EXCEPT !.certificate = On(t).public]
  <2>1. /\ rotation' = [rotation EXCEPT ![t] = r] /\ rotation[t].at = "certify"
        /\ disk' = [disk EXCEPT ![d] = f]
        /\ service' = [service EXCEPT ![o] = s]
        /\ UNCHANGED <<keysDir, current, flaw>> /\ drawn' \subseteq Key
    BY <1>1, <1>2, <1>13, Zenon DEF Certify, Step, On, runtime, history, KeysInv, Shapes
  <2>2. /\ IsRotation(r) /\ r.at = "list" /\ r.on = o /\ r.alone = rotation[t].alone
        /\ r.new = rotation[t].new
    BY <1>1, <1>13, <2>1 DEF IsRotation, At, MaybeKey
  <2>3. /\ f.private = disk[d].private /\ f.public = disk[d].public
        /\ f.kid = disk[d].kid /\ f.certificate = On(t).public
        /\ IsFiles(f) /\ HasFiles(f)
    BY <1>1, <1>13, <2>1, KeysAssumption, Zenon
       DEF IsFiles, HasFiles, MaybeKey, IsRotation, IsCrypto, On, At
  <2>4. /\ IsCrypto(s) /\ s.dir = d
        /\ s.private = On(t).private /\ s.public = On(t).public
        /\ s.kid = On(t).kid /\ s.certificate = On(t).public
    BY <1>1, <1>13, <2>1, Zenon DEF IsCrypto, IsRotation, HasFiles, On, At
  <2>5. /\ rotation'[t] = r /\ disk'[d] = f /\ service'[o] = s /\ On(t)' = s
        /\ rotation' = [rotation EXCEPT ![t] = rotation'[t]]
        /\ disk' = [disk EXCEPT ![d] = disk'[d]]
        /\ service' = [service EXCEPT ![o] = service'[o]]
    BY <1>1, <1>2, <2>1, <2>2, Zenon DEF On
  <2> HIDE DEF r, f, s
  <2>6. rotation[t].alone => Progress(t)'
    BY <1>1, <1>3, <2>1, <2>2, <2>3, <2>4, <2>5
       DEF Progress, Reached, Settled, FilesPair, ServicePair, FilesFit, ServiceFits
  <2> QED BY <1>1, <2>1, <2>2, <2>3, <2>4, <2>5, <2>6, RotationStep, Zenon
<1> QED BY <1>4, <1>5, <1>6, <1>7, <1>8, <1>9, <1>10, <1>11, <1>12, <1>13

(* The end of a rotation.                                                  *)
LEMMA SaveListKeepsInv ==
  ASSUME KeysInv, NEW t \in Thread, SaveList(t)
  PROVE  KeysInv'
<1> DEFINE o == rotation[t].on
           d == On(t).dir
<1>1. /\ Rotating(t) /\ rotation[t].at = "list" /\ o \in Service /\ IsCrypto(On(t))
      /\ d \in Dir /\ IsFiles(disk[d]) /\ HasFiles(disk[d])
  BY Zenon DEF On, KeysInv, Shapes, IsCrypto, Rotating, SaveList
<1>2. /\ disk' = [disk EXCEPT ![d].listed = Listed(t)]
      /\ flaw' = [flaw EXCEPT ![d] =
                    IF rotation[t].alone THEN @ \ {"pair", "certificate"} ELSE @]
      /\ rotation' = [rotation EXCEPT ![t] = Idle]
      /\ UNCHANGED <<keysDir, current, signer, token, service, drawn>>
  BY DEF SaveList, runtime
<1>3. \A e \in Dir : /\ disk'[e].private = disk[e].private /\ disk'[e].public = disk[e].public
                     /\ disk'[e].kid = disk[e].kid
                     /\ disk'[e].certificate = disk[e].certificate
                     /\ IsFiles(disk'[e])
  BY <1>1, <1>2 DEF KeysInv, Shapes, IsFiles
<1>4. /\ \A e \in Dir : e # d => flaw'[e] = flaw[e]
      /\ rotation[t].alone \/ flaw' = flaw
  BY <1>1, <1>2 DEF KeysInv, Shapes
<1>5. /\ ~Rotating(t)' /\ IsRotation(rotation[t])'
      /\ \A u \in Thread : u # t => rotation'[u] = rotation[u]
  BY <1>2 DEF KeysInv, Shapes, Rotating, Idle, IsRotation, At, MaybeKey
<1>6. \A u \in Thread : u # t =>
        (Rotating(u)' <=> Rotating(u)) /\ On(u)' = On(u) /\ \A e : In(u, e)' <=> In(u, e)
  BY <1>2, <1>5 DEF Rotating, On, In
<1>7. Shapes'
  <2>1. \A e \in Dir : HasFiles(disk[e]) => HasFiles(disk'[e])
    BY <1>3 DEF HasFiles
  <2>2. IsCrypto(service[current])' /\ HasFiles(disk[service[current].dir])'
    BY <1>2, <2>1 DEF KeysInv, Shapes, IsCrypto
  <2>3. ASSUME NEW u \in Thread
        PROVE  /\ IsRotation(rotation[u])'
               /\ Rotating(u)' => /\ rotation'[u].on \in Service /\ IsCrypto(On(u))'
                                  /\ HasFiles(disk[On(u).dir])'
    <3>1. CASE u = t
      BY <1>5, <3>1
    <3>2. CASE u # t
      <4>1. /\ IsRotation(rotation[u])
            /\ Rotating(u) => rotation[u].on \in Service /\ IsCrypto(On(u))
                                /\ HasFiles(disk[On(u).dir]) /\ On(u).dir \in Dir
        BY DEF KeysInv, Shapes, IsCrypto
      <4> QED BY <4>1, <1>5, <1>6, <2>1, <3>2 DEF IsRotation, IsCrypto
    <3> QED BY <3>1, <3>2
  <2> QED BY <1>2, <1>3, <2>2, <2>3 DEF KeysInv, Shapes
<1>8. AloneIsAlone'
  <2> SUFFICES ASSUME NEW u \in Thread, Rotating(u)'
               PROVE  /\ ~rotation'[u].alone => {"pair", "certificate"} \subseteq flaw'[On(u)'.dir]
                      /\ rotation'[u].alone =>
                           /\ \A v \in Thread : In(v, On(u).dir)' => v = u
                           /\ service'[current'].dir = On(u)'.dir => current' = rotation'[u].on
    BY DEF AloneIsAlone
  <2>1. u # t /\ Rotating(u) /\ rotation'[u] = rotation[u] /\ On(u)' = On(u) /\ On(u).dir \in Dir
    BY <1>5, <1>6 DEF KeysInv, Shapes, IsCrypto
  <2>2. rotation[t].alone => On(u).dir # d
    BY <1>1, <2>1 DEF KeysInv, AloneIsAlone, In
  <2>3. flaw'[On(u).dir] = flaw[On(u).dir]
    BY <1>4, <2>1, <2>2
  <2>4. rotation[u].alone => \A v \in Thread : In(v, On(u).dir)' => v = u
    BY <1>5, <1>6, <2>1 DEF KeysInv, AloneIsAlone, In
  <2>5. On(u)'.dir = On(u).dir
    BY <2>1
  <2>6. rotation'[u].alone => \A v \in Thread : In(v, On(u).dir)' => v = u
    BY <1>5, <1>6, <2>1, <2>4 DEF In
  <2> QED BY <1>2, <2>1, <2>3, <2>6 DEF KeysInv, AloneIsAlone
<1>9. ASSUME NEW u \in Thread, Rotating(u)', rotation'[u].alone PROVE Progress(u)'
  <2>1. u # t /\ Rotating(u) /\ rotation'[u] = rotation[u] /\ On(u)' = On(u) /\ On(u).dir \in Dir
    BY <1>5, <1>6, <1>9 DEF KeysInv, Shapes, IsCrypto
  <2>2. On(u).dir # d /\ Progress(u)
    BY <1>1, <1>9, <2>1 DEF KeysInv, AloneIsAlone, AloneProgresses, In
  <2>3. flaw'[On(u).dir] = flaw[On(u).dir]
    BY <1>4, <2>1, <2>2
  <2> QED BY <1>2, <1>3, <2>1, <2>2, <2>3
          DEF Progress, Reached, Settled, FilesPair, ServicePair, FilesFit, ServiceFits
<1>10. ASSUME NEW e \in Dir, \A u \in Thread : ~In(u, e)' PROVE Settled(e, current)'
  <2>1. CASE e # d
    <3>1. \A u \in Thread : ~In(u, e)
      BY <1>6, <1>10, <2>1 DEF In
    <3>2. Settled(e, current) /\ flaw'[e] = flaw[e]
      BY <1>4, <2>1, <3>1 DEF KeysInv, Quiet
    <3> QED BY <1>2, <1>3, <3>2 DEF Settled, FilesPair, ServicePair, FilesFit, ServiceFits
  <2>2. CASE e = d /\ rotation[t].alone
    <3>1. Progress(t) /\ (service[current].dir = d => current = o)
      BY <1>1, <2>2 DEF KeysInv, AloneIsAlone, AloneProgresses
    <3> DEFINE n == rotation[t].new
    <3>2. /\ disk[d].private = n /\ disk[d].public = n /\ disk[d].kid = n
          /\ disk[d].certificate = n
          /\ On(t).private = n /\ On(t).public = n /\ On(t).kid = n /\ On(t).certificate = n
      BY <1>1, <3>1 DEF Progress, Reached
    <3>3. /\ FilesPair(d) /\ FilesFit(d)
          /\ service[current].dir = d => ServicePair(current) /\ ServiceFits(current)
      BY <3>1, <3>2 DEF FilesPair, FilesFit, ServicePair, ServiceFits, On
    <3>4. /\ FilesPair(e)' /\ FilesFit(e)'
          /\ (service[current].dir = e => ServicePair(current) /\ ServiceFits(current))'
      BY <1>2, <1>3, <2>2, <3>3 DEF FilesPair, ServicePair, FilesFit, ServiceFits
    <3> QED BY <3>4 DEF Settled
  <2>3. CASE e = d /\ ~rotation[t].alone
    <3>1. {"pair", "certificate"} \subseteq flaw'[e]
      BY <1>1, <1>4, <2>3 DEF KeysInv, AloneIsAlone
    <3>2. "pair" \in flaw'[e] /\ flaw'[e] \cap {"pair", "certificate"} # {}
      BY <3>1
    <3> QED BY <3>2 DEF Settled
  <2> QED BY <2>1, <2>2, <2>3
<1> QED BY <1>7, <1>8, <1>9, <1>10 DEF KeysInv, AloneProgresses, Quiet

-----------------------------------------------------------------------------
(* Loading a directory: what _ensure_keys leaves, and the service of it.   *)
LEMMA EnsuredFiles ==
  ASSUME KeysInv, NEW d \in Dir, NEW k \in Drawable(d)
  PROVE  /\ k \in Key /\ IsFiles(Ensured(d, k)) /\ HasFiles(Ensured(d, k))
         /\ \/ Ensured(d, k) = disk[d]
            \/ Ensured(d, k) = Generated(disk[d], k)
<1>1. IsFiles(disk[d])
  BY DEF KeysInv, Shapes
<1>2. CASE Incomplete(d)
  <2>1. k \in Key /\ Ensured(d, k) = Generated(disk[d], k)
    BY <1>2 DEF Drawable, Ensured
  <2>2. IsFiles(Generated(disk[d], k)) /\ HasFiles(Generated(disk[d], k))
    BY <2>1, <1>1, KeysAssumption DEF Generated, IsFiles, HasFiles, MaybeKey
  <2> QED BY <2>1, <2>2
<1>3. CASE ~Incomplete(d)
  <2>1. k = disk[d].kid /\ Ensured(d, k) = disk[d]
    BY <1>3 DEF Drawable, Ensured
  <2>2. HasFiles(disk[d])
    BY <1>1, <1>3 DEF Incomplete, IsFiles, HasFiles, MaybeKey
  <2>3. disk[d].kid \in Key
    BY <2>2 DEF HasFiles
  <2> QED BY <1>1, <2>1, <2>2, <2>3
<1> QED BY <1>2, <1>3

(* A service has what the files it is made of have.                        *)
LEMMA LoadedService ==
  ASSUME NEW d \in Dir, NEW f, IsFiles(f), HasFiles(f), NEW limit
  PROVE  LET s == Loaded(d, f, limit)
         IN  /\ IsCrypto(s) /\ s.dir = d
             /\ s.private = f.private /\ s.public = f.public
             /\ s.kid = f.kid /\ s.certificate = f.certificate
BY DEF Loaded, IsCrypto, IsFiles, HasFiles

(* A directory in which nothing was cut short but a rotation, at a place   *)
(* where the files belong together, still has files that belong together.  *)
LEMMA InterruptedFiles ==
  ASSUME KeysInv, NEW d \in Dir
  PROVE  /\ "pair" \notin flaw[d] \cup Interrupted(d) => FilesPair(d)
         /\ (flaw[d] \cup Interrupted(d)) \cap {"pair", "certificate"} = {} => FilesFit(d)
<1>1. CASE \A t \in Thread : ~In(t, d)
  BY <1>1 DEF KeysInv, Quiet, Settled
<1>2. ASSUME NEW t \in Thread, In(t, d)
      PROVE  /\ "pair" \notin flaw[d] \cup Interrupted(d) => FilesPair(d)
             /\ (flaw[d] \cup Interrupted(d)) \cap {"pair", "certificate"} = {} => FilesFit(d)
  <2>1. Rotating(t) /\ On(t).dir = d /\ rotation[t].at \in At \ {"idle"}
    BY <1>2 DEF In, KeysInv, Shapes, IsRotation, Rotating
  <2>2. t \in Under(d)
    BY <2>1 DEF Under, On
  <2>3. rotation[t].at \in {"public", "kid"} => "pair" \in Interrupted(d)
    BY <2>2 DEF Interrupted, AfterPrivate
  <2>4. rotation[t].at \in {"loadPrivate", "loadPublic", "adopt", "certify"} =>
          "certificate" \in Interrupted(d)
    BY <2>2 DEF Interrupted, AfterPrivate, AfterKid
  <2>5. ~rotation[t].alone => "pair" \in flaw[d]
    BY <2>1 DEF KeysInv, AloneIsAlone
  <2>6. rotation[t].alone => Progress(t)
    BY <2>1 DEF KeysInv, AloneProgresses
  <2>7. CASE rotation[t].alone /\ rotation[t].at \in {"archive", "retire", "prune"}
    BY <2>1, <2>6, <2>7 DEF Progress, Reached, Settled
  <2>8. CASE rotation[t].alone /\ rotation[t].at \in {"loadPrivate", "loadPublic", "adopt", "certify"}
    <3>1. FilesPair(d)
      BY <2>1, <2>6, <2>8 DEF Progress, Reached, FilesPair
    <3> QED BY <2>4, <2>8, <3>1
  <2>9. CASE rotation[t].alone /\ rotation[t].at = "list"
    BY <2>1, <2>6, <2>9 DEF Progress, Reached, FilesPair, FilesFit
  <2> QED BY <2>1, <2>3, <2>5, <2>7, <2>8, <2>9 DEF At
<1> QED BY <1>1, <1>2

(* A new process, with whatever the old one left.                          *)
LEMMA RestartKeepsInv ==
  ASSUME KeysInv, Restart
  PROVE  KeysInv'
<1>1. PICK k \in Drawable(keysDir) :
        /\ disk' = [disk EXCEPT ![keysDir] = Ensured(keysDir, k)]
        /\ service' = [o \in Service |->
             IF o = current THEN Loaded(keysDir, Ensured(keysDir, k), Configured) ELSE None]
        /\ drawn' = drawn \cup {k}
        /\ rotation' = [t \in Thread |-> Idle]
        /\ flaw' = [d \in Dir |-> flaw[d] \cup Interrupted(d)]
        /\ UNCHANGED <<keysDir, current>>
  BY DEF Restart
<1> DEFINE files == Ensured(keysDir, k)
<1>2. keysDir \in Dir /\ current \in Service /\ \A d \in Dir : IsFiles(disk[d])
  BY DEF KeysInv, Shapes
<1>3. /\ k \in Key /\ IsFiles(files) /\ HasFiles(files)
      /\ files = disk[keysDir] \/ files = Generated(disk[keysDir], k)
  BY <1>2, EnsuredFiles
<1>4. /\ disk'[keysDir] = files
      /\ \A d \in Dir : d # keysDir => disk'[d] = disk[d]
      /\ service'[current'] = Loaded(keysDir, files, Configured)
  BY <1>1, <1>2 DEF KeysInv, Shapes
<1> HIDE DEF files
<1>5. /\ IsCrypto(service'[current']) /\ service'[current'].dir = keysDir
      /\ service'[current'].private = files.private /\ service'[current'].public = files.public
      /\ service'[current'].kid = files.kid
      /\ service'[current'].certificate = files.certificate
  BY <1>2, <1>3, <1>4, LoadedService
<1>6. \A t \in Thread : IsRotation(rotation[t])' /\ ~Rotating(t)'
  BY <1>1 DEF Idle, IsRotation, Rotating, At, MaybeKey
<1>7. Shapes'
  <2>1. \A d \in Dir : IsFiles(disk'[d])
    BY <1>2, <1>3, <1>4
  <2>2. HasFiles(disk[service[current].dir])'
    BY <1>3, <1>4, <1>5
  <2>3. IsCrypto(service[current])' /\ drawn' \subseteq Key
    BY <1>1, <1>3, <1>5 DEF KeysInv, Shapes
  <2> QED BY <1>1, <1>2, <1>6, <2>1, <2>2, <2>3 DEF KeysInv, Shapes
<1>8. ASSUME NEW d \in Dir PROVE Settled(d, current)'
  <2>1. /\ "pair" \notin flaw'[d] => FilesPair(d)
        /\ flaw'[d] \cap {"pair", "certificate"} = {} => FilesFit(d)
    BY <1>1, InterruptedFiles
  <2>2. CASE d # keysDir
    BY <1>4, <1>5, <2>1, <2>2 DEF Settled, FilesPair, FilesFit
  <2>3. CASE d = keysDir /\ files = disk[keysDir]
    BY <1>4, <1>5, <2>1, <2>3
       DEF Settled, FilesPair, FilesFit, ServicePair, ServiceFits
  <2>4. CASE d = keysDir /\ files = Generated(disk[keysDir], k)
    <3>1. files.private = k /\ files.public = k /\ files.kid = k /\ files.certificate = k
      BY <2>4 DEF Generated
    <3> QED BY <1>4, <1>5, <2>4, <3>1
            DEF Settled, FilesPair, FilesFit, ServicePair, ServiceFits
  <2> QED BY <1>3, <2>2, <2>3, <2>4
<1> QED BY <1>6, <1>7, <1>8 DEF KeysInv, AloneIsAlone, AloneProgresses, Quiet

(* Those who rotate in d are told of the newcomer, and d is flawed by it.  *)
LEMMA OverlapMarks ==
  ASSUME KeysInv, NEW d \in Dir, flaw' = FlawIfOverlapped(d)
  PROVE  /\ flaw' = [e \in Dir |-> flaw'[e]]
         /\ \A e \in Dir : e # d => flaw'[e] = flaw[e]
         /\ \A u \in Thread : In(u, d) => {"pair", "certificate"} \subseteq flaw'[d]
         /\ (\A u \in Thread : ~In(u, d)) => flaw' = flaw /\ Under(d) = {}
         /\ \A u \in Thread :
              LET r == Overlapped(d, Under(d))[u]
              IN  /\ IsRotation(r)
                  /\ r.at = rotation[u].at /\ r.on = rotation[u].on
                  /\ r.new = rotation[u].new
                  /\ In(u, d) => ~r.alone
                  /\ ~In(u, d) => r = rotation[u]
<1>1. \A u \in Thread : In(u, d) <=> u \in Under(d)
  BY DEF In, Under, On
<1>2. flaw = [e \in Dir |-> flaw[e]]
  BY DEF KeysInv, Shapes
<1>3. CASE \A u \in Thread : ~In(u, d)
  <2>1. Under(d) = {}
    BY <1>1, <1>3 DEF Under
  <2>2. flaw' = flaw
    BY <1>2, <2>1 DEF FlawIfOverlapped
  <2>3. \A u \in Thread : Overlapped(d, Under(d))[u] = rotation[u] /\ IsRotation(rotation[u])
    BY <2>1 DEF Overlapped, KeysInv, Shapes
  <2> QED BY <1>2, <1>3, <2>1, <2>2, <2>3
<1>4. ASSUME NEW v \in Thread, In(v, d)
      PROVE  /\ flaw' = [flaw EXCEPT ![d] = @ \cup {"list", "pair", "certificate"}]
             /\ \A u \in Thread :
                  Overlapped(d, Under(d))[u] =
                    IF In(u, d) THEN [rotation[u] EXCEPT !.alone = FALSE] ELSE rotation[u]
  <2>1. Under(d) # {}
    BY <1>1, <1>4
  <2> QED BY <1>1, <2>1 DEF FlawIfOverlapped, Overlapped
<1>5. \A u \in Thread :
        LET r == [rotation[u] EXCEPT !.alone = FALSE]
        IN  /\ IsRotation(r) /\ IsRotation(rotation[u]) /\ ~r.alone
            /\ r.at = rotation[u].at /\ r.on = rotation[u].on /\ r.new = rotation[u].new
  BY DEF KeysInv, Shapes, IsRotation
<1>6. ASSUME NEW v \in Thread, In(v, d)
      PROVE  /\ flaw' = [e \in Dir |-> flaw'[e]]
             /\ \A e \in Dir : e # d => flaw'[e] = flaw[e]
             /\ {"pair", "certificate"} \subseteq flaw'[d]
  BY <1>2, <1>4, <1>6
<1> QED BY <1>3, <1>4, <1>5, <1>6

(* A rotation begins; with another under way, both are marked.             *)
LEMMA RotateKeepsInv ==
  ASSUME KeysInv, NEW t \in Thread, Rotate(t)
  PROVE  KeysInv'
<1>0. PICK d \in Dir : d = service[current].dir
  BY DEF KeysInv, Shapes, IsCrypto
<1> DEFINE r == [at |-> "archive", on |-> current, old |-> service[current].kid,
                 new |-> None, alone |-> Under(d) = {}]
<1>1. /\ ~Rotating(t) /\ d = keysDir
      /\ rotation' = [Overlapped(d, Under(d)) EXCEPT ![t] = r]
      /\ flaw' = FlawIfOverlapped(d)
      /\ UNCHANGED <<keysDir, current, disk, service, drawn>>
  BY <1>0 DEF Rotate, runtime
<1>2. current \in Service /\ IsCrypto(service[current]) /\ HasFiles(disk[d])
  BY <1>0 DEF KeysInv, Shapes
<1>3. /\ rotation' = [u \in Thread |-> rotation'[u]] /\ rotation'[t] = r
      /\ \A u \in Thread : u # t => rotation'[u] = Overlapped(d, Under(d))[u]
  BY <1>0, <1>1 DEF Overlapped
<1>4. /\ flaw' = [e \in Dir |-> flaw'[e]]
      /\ \A e \in Dir : e # d => flaw'[e] = flaw[e]
      /\ \A u \in Thread : In(u, d) => {"pair", "certificate"} \subseteq flaw'[d]
      /\ (\A u \in Thread : ~In(u, d)) => flaw' = flaw /\ Under(d) = {}
      /\ \A u \in Thread : u # t =>
           /\ IsRotation(rotation'[u])
           /\ rotation'[u].at = rotation[u].at /\ rotation'[u].on = rotation[u].on
           /\ rotation'[u].new = rotation[u].new
           /\ In(u, d) => ~rotation'[u].alone
           /\ ~In(u, d) => rotation'[u] = rotation[u]
  BY <1>0, <1>1, <1>2, <1>3, OverlapMarks
<1>5. /\ IsRotation(r) /\ r.at = "archive" /\ r.on = current
      /\ r.alone <=> \A u \in Thread : ~In(u, d)
  <2>1. Under(d) = {} <=> \A u \in Thread : ~In(u, d)
    BY DEF Under, In, On
  <2> QED BY <2>1 DEF IsRotation, At, MaybeKey
<1> HIDE DEF r
<1>6. /\ Rotating(t)' /\ On(t)' = service[current] /\ In(t, d)'
      /\ \A u \in Thread : u # t => /\ Rotating(u)' <=> Rotating(u)
                                    /\ On(u)' = On(u)
                                    /\ \A e : In(u, e)' <=> In(u, e)
  <2>1. Rotating(t)' /\ On(t)' = service[current]
    BY <1>0, <1>1, <1>3, <1>5 DEF Rotating, On
  <2>2. In(t, d)'
    BY <1>0, <2>1 DEF In
  <2>3. \A u \in Thread : u # t => (Rotating(u)' <=> Rotating(u)) /\ On(u)' = On(u)
    BY <1>0, <1>1, <1>4 DEF Rotating, On
  <2> QED BY <2>1, <2>2, <2>3 DEF In
<1>7. Shapes'
  <2>1. \A u \in Thread : IsRotation(rotation[u])'
    BY <1>3, <1>4, <1>5
  <2>2. ASSUME NEW u \in Thread, Rotating(u)'
        PROVE  /\ rotation'[u].on \in Service /\ IsCrypto(On(u))'
               /\ HasFiles(disk[On(u).dir])'
    <3>1. CASE u = t
      BY <1>0, <1>1, <1>2, <1>3, <1>5, <1>6, <3>1
    <3>2. CASE u # t
      <4>1. Rotating(u) /\ rotation'[u].on = rotation[u].on /\ On(u)' = On(u) /\ disk' = disk
        BY <1>1, <1>4, <1>6, <2>2, <3>2
      <4>2. rotation[u].on \in Service /\ IsCrypto(On(u)) /\ HasFiles(disk[On(u).dir])
        BY <4>1 DEF KeysInv, Shapes
      <4> QED BY <4>1, <4>2
    <3> QED BY <3>1, <3>2
  <2>3. IsCrypto(service[current])' /\ HasFiles(disk[service[current].dir])'
    BY <1>0, <1>1, <1>2
  <2>4. \A e \in Dir : IsFiles(disk[e])'
    BY <1>0, <1>1 DEF KeysInv, Shapes, IsFiles
  <2> QED BY <1>0, <1>1, <1>3, <1>4, <2>1, <2>2, <2>3, <2>4 DEF KeysInv, Shapes
<1>8. AloneIsAlone'
  <2> SUFFICES ASSUME NEW u \in Thread, Rotating(u)'
               PROVE  /\ ~rotation'[u].alone => {"pair", "certificate"} \subseteq flaw'[On(u)'.dir]
                      /\ rotation'[u].alone =>
                           /\ \A v \in Thread : In(v, On(u).dir)' => v = u
                           /\ service'[current'].dir = On(u)'.dir => current' = rotation'[u].on
    BY DEF AloneIsAlone
  <2>1. CASE u = t
    <3>1. On(u)'.dir = d
      BY <1>0, <1>6, <2>1
    <3>2. r.alone => \A v \in Thread : In(v, d)' => v = t
      BY <1>5, <1>6
    <3> QED BY <1>0, <1>1, <1>3, <1>4, <1>5, <2>1, <3>1, <3>2
  <2>2. CASE u # t
    <3>1. Rotating(u) /\ On(u)' = On(u) /\ On(u).dir \in Dir
      BY <1>0, <1>6, <2>2 DEF KeysInv, Shapes, IsCrypto
    <3>2. CASE In(u, d)
      <4>1. On(u).dir = d /\ ~rotation'[u].alone /\ {"pair", "certificate"} \subseteq flaw'[d]
        BY <1>4, <2>2, <3>2 DEF In
      <4> QED BY <3>1, <4>1
    <3>3. CASE ~In(u, d)
      <4>1. On(u).dir # d /\ rotation'[u] = rotation[u] /\ flaw'[On(u).dir] = flaw[On(u).dir]
        BY <1>4, <2>2, <3>1, <3>3 DEF In
      <4>2. ~In(t, On(u).dir)'
        BY <1>0, <1>6, <3>1, <4>1 DEF In
      <4>3. \A v \in Thread : In(v, On(u).dir)' => In(v, On(u).dir)
        BY <1>0, <1>6, <4>2
      <4> QED BY <1>0, <1>1, <3>1, <4>1, <4>3 DEF KeysInv, AloneIsAlone
    <3> QED BY <3>2, <3>3
  <2> QED BY <2>1, <2>2
<1>9. ASSUME NEW u \in Thread, Rotating(u)', rotation'[u].alone PROVE Progress(u)'
  <2>1. CASE u = t
    <3>1. \A v \in Thread : ~In(v, d)
      BY <1>3, <1>5, <1>9, <2>1
    <3>2. Settled(d, current) /\ flaw' = flaw
      BY <1>0, <1>2, <1>4, <3>1 DEF KeysInv, Quiet
    <3>3. Settled(d, current)'
      BY <1>0, <1>1, <3>2 DEF Settled, FilesPair, FilesFit, ServicePair, ServiceFits
    <3>4. rotation'[u].at = "archive" /\ rotation'[u].on = current' /\ On(u)'.dir = d
      BY <1>0, <1>1, <1>3, <1>5, <1>6, <2>1
    <3> QED BY <3>3, <3>4, <1>1 DEF Progress, Reached, Settled, FilesPair, FilesFit,
                                    ServicePair, ServiceFits
  <2>2. CASE u # t
    <3>1. ~In(u, d) /\ rotation'[u] = rotation[u] /\ Rotating(u) /\ On(u)' = On(u)
      BY <1>4, <1>6, <1>9, <2>2
    <3>2. On(u).dir \in Dir /\ On(u).dir # d /\ flaw'[On(u).dir] = flaw[On(u).dir]
      BY <1>4, <3>1 DEF In, KeysInv, Shapes, IsCrypto
    <3>3. Progress(u)
      BY <1>9, <3>1 DEF KeysInv, AloneProgresses
    <3> QED BY <1>0, <1>1, <3>1, <3>2, <3>3 DEF Progress, Reached, Settled, FilesPair, FilesFit,
                                          ServicePair, ServiceFits
  <2> QED BY <2>1, <2>2
<1>10. ASSUME NEW e \in Dir, \A u \in Thread : ~In(u, e)' PROVE Settled(e, current)'
  <2>1. e # d /\ ~In(t, e)
    BY <1>0, <1>1, <1>6, <1>10 DEF In
  <2>2. \A u \in Thread : ~In(u, e)
    BY <1>0, <1>6, <1>10, <2>1
  <2>3. Settled(e, current) /\ flaw'[e] = flaw[e]
    BY <1>4, <2>1, <2>2 DEF KeysInv, Quiet
  <2> QED BY <1>0, <1>1, <2>3 DEF Settled, FilesPair, FilesFit, ServicePair, ServiceFits
<1> QED BY <1>7, <1>8, <1>9, <1>10 DEF KeysInv, AloneProgresses, Quiet

(* keys_dir has changed and a service is made for the new directory.       *)
LEMMA GetCryptoServiceKeepsInv ==
  ASSUME KeysInv, GetCryptoService
  PROVE  KeysInv'
<1>1. PICK s \in Service, k \in Drawable(keysDir) :
        /\ s # current /\ ~Held(s)
        /\ disk' = [disk EXCEPT ![keysDir] = Ensured(keysDir, k)]
        /\ service' = [o \in Service |->
             IF o = s THEN Loaded(keysDir, Ensured(keysDir, k), Default)
             ELSE IF Held(o) THEN service[o] ELSE None]
        /\ current' = s
        /\ drawn' = drawn \cup {k}
  BY DEF GetCryptoService
<1>2. /\ rotation' = Overlapped(keysDir, Under(keysDir))
      /\ flaw' = FlawIfOverlapped(keysDir)
      /\ keysDir' = keysDir /\ service[current].dir # keysDir
  BY DEF GetCryptoService
<1> DEFINE files == Ensured(keysDir, k)
<1>3. keysDir \in Dir /\ \A e \in Dir : IsFiles(disk[e])
  BY DEF KeysInv, Shapes
<1>4. /\ k \in Key /\ IsFiles(files) /\ HasFiles(files)
      /\ files = disk[keysDir] \/ files = Generated(disk[keysDir], k)
  BY <1>3, EnsuredFiles
<1>5. /\ disk'[keysDir] = files
      /\ \A e \in Dir : e # keysDir => disk'[e] = disk[e]
      /\ service'[current'] = Loaded(keysDir, files, Default)
  BY <1>1, <1>3 DEF KeysInv, Shapes
<1> HIDE DEF files
<1>6. /\ IsCrypto(service'[current']) /\ service'[current'].dir = keysDir
      /\ service'[current'].private = files.private /\ service'[current'].public = files.public
      /\ service'[current'].kid = files.kid
      /\ service'[current'].certificate = files.certificate
  BY <1>3, <1>4, <1>5, LoadedService
<1>7. /\ flaw' = [e \in Dir |-> flaw'[e]]
      /\ \A e \in Dir : e # keysDir => flaw'[e] = flaw[e]
      /\ \A u \in Thread : In(u, keysDir) => {"pair", "certificate"} \subseteq flaw'[keysDir]
      /\ (\A u \in Thread : ~In(u, keysDir)) => flaw' = flaw
      /\ \A u \in Thread :
           /\ IsRotation(rotation'[u])
           /\ rotation'[u].at = rotation[u].at /\ rotation'[u].on = rotation[u].on
           /\ rotation'[u].new = rotation[u].new
           /\ In(u, keysDir) => ~rotation'[u].alone
           /\ ~In(u, keysDir) => rotation'[u] = rotation[u]
  BY <1>2, <1>3, OverlapMarks
<1>8. \A u \in Thread : Rotating(u) =>
        /\ rotation[u].on \in Service /\ rotation[u].on # s
        /\ service'[rotation[u].on] = service[rotation[u].on]
  BY <1>1 DEF Held, KeysInv, Shapes
<1>9. \A u \in Thread : /\ Rotating(u)' <=> Rotating(u)
                        /\ Rotating(u) => On(u)' = On(u)
                        /\ \A e : In(u, e)' <=> In(u, e)
  BY <1>7, <1>8 DEF Rotating, On, In
<1>10. Shapes'
  <2>1. \A e \in Dir : IsFiles(disk'[e]) /\ (HasFiles(disk[e]) => HasFiles(disk'[e]))
    BY <1>3, <1>4, <1>5
  <2>2. IsCrypto(service[current])' /\ HasFiles(disk[service[current].dir])'
    BY <1>4, <1>5, <1>6
  <2>3. ASSUME NEW u \in Thread, Rotating(u)'
        PROVE  /\ rotation'[u].on \in Service /\ IsCrypto(On(u))'
               /\ HasFiles(disk[On(u).dir])'
    <3>1. Rotating(u) /\ rotation'[u].on = rotation[u].on /\ On(u)' = On(u)
      BY <1>7, <1>9, <2>3
    <3>2. /\ rotation[u].on \in Service /\ IsCrypto(On(u)) /\ HasFiles(disk[On(u).dir])
          /\ On(u).dir \in Dir
      BY <3>1 DEF KeysInv, Shapes, IsCrypto
    <3> QED BY <2>1, <3>1, <3>2
  <2>4. rotation' = [u \in Thread |-> rotation'[u]]
    BY <1>2 DEF Overlapped
  <2>5. disk' = [e \in Dir |-> disk'[e]] /\ service' = [o \in Service |-> service'[o]]
    BY <1>1 DEF KeysInv, Shapes
  <2>6. current' \in Service /\ keysDir' \in Dir /\ drawn' \subseteq Key
    BY <1>1, <1>2, <1>3, <1>4 DEF KeysInv, Shapes
  <2> QED BY <1>7, <2>1, <2>2, <2>3, <2>4, <2>5, <2>6 DEF Shapes
<1>11. AloneIsAlone'
  <2> SUFFICES ASSUME NEW u \in Thread, Rotating(u)'
               PROVE  /\ ~rotation'[u].alone => {"pair", "certificate"} \subseteq flaw'[On(u)'.dir]
                      /\ rotation'[u].alone =>
                           /\ \A v \in Thread : In(v, On(u).dir)' => v = u
                           /\ service'[current'].dir = On(u)'.dir => current' = rotation'[u].on
    BY DEF AloneIsAlone
  <2>1. Rotating(u) /\ On(u)' = On(u) /\ On(u).dir \in Dir
    BY <1>9 DEF KeysInv, Shapes, IsCrypto
  <2>2. CASE In(u, keysDir)
    BY <1>7, <2>1, <2>2 DEF In
  <2>3. CASE ~In(u, keysDir)
    <3>1. On(u).dir # keysDir /\ rotation'[u] = rotation[u] /\ flaw'[On(u).dir] = flaw[On(u).dir]
      BY <1>7, <2>1, <2>3 DEF In
    <3>2. \A v \in Thread : In(v, On(u).dir)' => In(v, On(u).dir)
      BY <1>9, <2>1
    <3> QED BY <1>6, <2>1, <3>1, <3>2 DEF KeysInv, AloneIsAlone
  <2> QED BY <2>2, <2>3
<1>12. ASSUME NEW u \in Thread, Rotating(u)', rotation'[u].alone PROVE Progress(u)'
  <2>1. /\ ~In(u, keysDir) /\ rotation'[u] = rotation[u] /\ Rotating(u) /\ On(u)' = On(u)
        /\ service'[rotation[u].on] = service[rotation[u].on]
    BY <1>7, <1>8, <1>9, <1>12
  <2>2. /\ On(u).dir \in Dir /\ On(u).dir # keysDir /\ flaw'[On(u).dir] = flaw[On(u).dir]
        /\ disk'[On(u).dir] = disk[On(u).dir]
    BY <1>5, <1>7, <2>1 DEF In, KeysInv, Shapes, IsCrypto
  <2>3. Progress(u)
    BY <1>12, <2>1 DEF KeysInv, AloneProgresses
  <2> QED BY <2>1, <2>2, <2>3 DEF Progress, Reached, Settled, FilesPair, FilesFit,
                                  ServicePair, ServiceFits
<1>13. ASSUME NEW e \in Dir, \A u \in Thread : ~In(u, e)' PROVE Settled(e, current)'
  <2>1. \A u \in Thread : ~In(u, e)
    BY <1>9, <1>13
  <2>2. Settled(e, current)
    BY <2>1 DEF KeysInv, Quiet
  <2>3. CASE e # keysDir
    <3>1. flaw'[e] = flaw[e] /\ disk'[e] = disk[e]
      BY <1>5, <1>7, <2>3
    <3> QED BY <1>6, <2>2, <2>3, <3>1 DEF Settled, FilesPair, FilesFit
  <2>4. CASE e = keysDir /\ files = disk[keysDir]
    <3>1. flaw' = flaw
      BY <1>7, <2>1, <2>4
    <3> QED BY <1>5, <1>6, <2>2, <2>4, <3>1
            DEF Settled, FilesPair, FilesFit, ServicePair, ServiceFits
  <2>5. CASE e = keysDir /\ files = Generated(disk[keysDir], k)
    <3>1. files.private = k /\ files.public = k /\ files.kid = k /\ files.certificate = k
      BY <2>5 DEF Generated
    <3> QED BY <1>5, <1>6, <2>5, <3>1
            DEF Settled, FilesPair, FilesFit, ServicePair, ServiceFits
  <2> QED BY <1>4, <2>3, <2>4, <2>5
<1> QED BY <1>10, <1>11, <1>12, <1>13 DEF KeysInv, AloneProgresses, Quiet

(* Steps that touch neither files nor services nor rotations.              *)
LEMMA OthersKeepInv ==
  ASSUME KeysInv, keysDir' \in Dir,
         UNCHANGED <<disk, service, current, rotation, drawn, flaw>>
  PROVE  KeysInv'
<1>1. \A u \in Thread : (Rotating(u)' <=> Rotating(u)) /\ On(u)' = On(u)
  BY DEF Rotating, On
<1>2. \A u \in Thread : \A e : In(u, e)' <=> In(u, e)
  BY <1>1 DEF In
<1>3. Shapes'
  BY <1>1 DEF KeysInv, Shapes
<1>4. AloneIsAlone'
  BY <1>1, <1>2 DEF KeysInv, AloneIsAlone
<1>5. AloneProgresses' /\ Quiet'
  BY <1>1, <1>2 DEF KeysInv, AloneProgresses, Quiet, Progress, Reached, Settled, FilesPair,
                    FilesFit, ServicePair, ServiceFits
<1> QED BY <1>3, <1>4, <1>5 DEF KeysInv

(* Every step keeps the invariant.                                         *)
LEMMA InvNext == KeysInv /\ [Next]_vars => KeysInv'
<1> SUFFICES ASSUME KeysInv, [Next]_vars PROVE KeysInv'
  OBVIOUS
<1>1. CASE Restart
  BY <1>1, RestartKeepsInv
<1>2. CASE \E d \in Dir : Reload(d)
  BY <1>2, OthersKeepInv DEF Reload, history
<1>3. CASE GetCryptoService
  BY <1>3, GetCryptoServiceKeepsInv
<1>4. ASSUME NEW t \in Thread, Rotate(t) PROVE KeysInv'
  BY <1>4, RotateKeepsInv
<1>5. ASSUME NEW t \in Thread,
             \/ ArchivePublic(t) \/ Retire(t) \/ Prune(t)
             \/ \E k \in Key : WritePrivate(t, k)
             \/ WritePublic(t) \/ WriteKid(t) \/ LoadPrivate(t) \/ LoadPublic(t)
             \/ Adopt(t) \/ Certify(t)
      PROVE  KeysInv'
  BY <1>5, StepsKeepInv
<1>6. ASSUME NEW t \in Thread, SaveList(t) PROVE KeysInv'
  BY <1>6, SaveListKeepsInv
<1>7. CASE GetTokenService \/ Sign \/ UNCHANGED vars
  <2>1. keysDir' \in Dir /\ UNCHANGED <<disk, service, current, rotation, drawn, flaw>>
    BY <1>7 DEF GetTokenService, Sign, vars, history, KeysInv, Shapes
  <2> QED BY <2>1, OthersKeepInv
<1> QED BY <1>1, <1>2, <1>3, <1>4, <1>5, <1>6, <1>7 DEF Next

(* The invariant of the key files and their services holds throughout.     *)
THEOREM InvHolds == Spec => []KeysInv
BY InvInit, InvNext, PTL DEF Spec

(* Whatever the number of threads that rotate, directories and processes:  *)
(* between rotations the private key, the public key and the kid of a      *)
(* directory and of the service in use are of one pair, except after a     *)
(* rotation that was cut short between the files or that met another.      *)
THEOREM PairsStayTogether == Spec => []PairsMatch
<1>1. KeysInv => PairsMatch
  <2> SUFFICES ASSUME KeysInv, NEW d \in Dir, Under(d) = {}, "pair" \notin flaw[d]
               PROVE  /\ FilesPair(d)
                      /\ service[current].dir = d => ServicePair(current)
    BY DEF PairsMatch, FilesPair, ServicePair
  <2>1. \A t \in Thread : ~In(t, d)
    BY DEF In, Under, On
  <2> QED BY <2>1 DEF KeysInv, Quiet, Settled
<1> QED BY <1>1, InvHolds, PTL

(* And so is the certificate, unless the rotation was cut short before it  *)
(* was made.                                                               *)
THEOREM CertificatesFit == Spec => []CertificateFits
<1>1. KeysInv => CertificateFits
  <2> SUFFICES ASSUME KeysInv, NEW d \in Dir, Under(d) = {},
                      flaw[d] \cap {"pair", "certificate"} = {}
               PROVE  /\ FilesFit(d)
                      /\ service[current].dir = d => ServiceFits(current)
    BY DEF CertificateFits, FilesFit, ServiceFits
  <2>1. \A t \in Thread : ~In(t, d)
    BY DEF In, Under, On
  <2> QED BY <2>1 DEF KeysInv, Quiet, Settled
<1> QED BY <1>1, InvHolds, PTL

(* A service has its key pair and certificate at every step of a rotation, *)
(* of a reload and of a restart (KeysType, _ensure_keys and rotate_keys).  *)
THEOREM TypeCorrect == Spec => []KeysType
<1>1. ASSUME KeysInv PROVE KeysType
  <2>1. Shapes
    BY <1>1 DEF KeysInv
  <2>2. \A d \in Dir :
          {disk[d].private, disk[d].public, disk[d].kid, disk[d].certificate}
            \subseteq Key \cup {None}
    BY <2>1 DEF Shapes, IsFiles, MaybeKey
  <2>3. Pair(current) \subseteq Key /\ service[current].dir \in Dir
    BY <2>1 DEF Shapes, IsCrypto, Pair
  <2>4. ASSUME NEW t \in Thread, Rotating(t)
        PROVE  /\ rotation[t].on \in Service /\ Pair(rotation[t].on) \subseteq Key
               /\ rotation[t].at \notin {"archive", "retire", "prune"} => rotation[t].new \in Key
    <3>1. rotation[t].on \in Service /\ IsCrypto(On(t)) /\ IsRotation(rotation[t])
      BY <2>1, <2>4 DEF Shapes
    <3>2. Pair(rotation[t].on) \subseteq Key
      BY <3>1 DEF IsCrypto, On, Pair
    <3>3. rotation[t].at \notin {"archive", "retire", "prune"} => rotation[t].new \in Key
      BY <3>1, <2>4 DEF IsRotation, Rotating
    <3> QED BY <3>1, <3>2, <3>3
  <2> QED BY <2>1, <2>2, <2>3, <2>4 DEF Shapes, KeysType
<1> QED BY InvInit, InvNext, <1>1, PTL DEF Spec

-----------------------------------------------------------------------------
(* The previous keys.  In a directory where nothing went wrong every list  *)
(* of previous keys - the service's, the rotating service's, the one in    *)
(* keys.json - is the beginning of `retired`, long enough to hold all that *)
(* the smallest limit keeps, and each entry has its file.                  *)
Clean(d) == "list" \notin flaw[d]

Early == {"archive", "retire"}

(* The service rotating in d has a list that keys.json does not have yet.  *)
Ahead(d) == \E t \in Thread : In(t, d) /\ rotation[t].at \notin Early

Changing(s) == \E t \in Thread : Rotating(t) /\ rotation[t].on = s /\ rotation[t].at \notin Early

Live(s) == s \in Service /\ (service[s] # None \/ s = current \/ Held(s))

Entry(k) == [kid |-> k, key |-> k]
Entries == [kid: Key, key: Key]

Retirees(d) ==
  /\ retired[d] \in Seq(Key)
  /\ \A i \in 1..Len(retired[d]) : retired[d][i] \in drawn
  /\ \A i, j \in 1..Len(retired[d]) : retired[d][i] = retired[d][j] => i = j

(* A list of n entries reaches far enough into `retired`.                  *)
Covers(n, d) == n <= Len(retired[d]) /\ (n < Least => n = Len(retired[d]))

Archived(n, d) ==
  \A i \in 1..n : disk[d].archive[retired[d][i]] = retired[d][i]

ServiceLists(s, d) ==
  /\ service[s].previous \in Seq(Entries)
  /\ Covers(Len(service[s].previous), d)
  /\ Archived(Len(service[s].previous), d)
  /\ \A i \in 1..Len(service[s].previous) : service[s].previous[i] = Entry(retired[d][i])

FilesList(d) ==
  /\ disk[d].listed \in Seq(Key)
  /\ Covers(Len(disk[d].listed), d)
  /\ Archived(Len(disk[d].listed), d)
  /\ Len(disk[d].listed) <= Most
  /\ \A i \in 1..Len(disk[d].listed) : disk[d].listed[i] = retired[d][i]

IsRetired(d, k) == \E i \in 1..Len(retired[d]) : retired[d][i] = k

(* The files of d, while keys.json has the list of the service: nothing    *)
(* was ever written, or a pair and its list.                               *)
Untouched(d) == disk[d].kid = None /\ disk[d].listed = << >> /\ retired[d] = << >>

Whole(d) ==
  /\ HasFiles(disk[d]) /\ disk[d].kid \in drawn
  /\ disk[d].private = disk[d].kid /\ disk[d].public = disk[d].kid
  /\ disk[d].certificate = disk[d].kid
  /\ ~IsRetired(d, disk[d].kid)
  /\ FilesList(d)

(* The service s has what the files of d have.                             *)
Agrees(s, d) ==
  /\ service[s].private = disk[d].private /\ service[s].public = disk[d].public
  /\ service[s].kid = disk[d].kid /\ service[s].certificate = disk[d].certificate
  /\ ServiceLists(s, d)
  /\ Len(service[s].previous) = Len(disk[d].listed)

(* A key that was active in d is still, or has been rotated out.           *)
Known(d, k) == IsRetired(d, k) \/ (k = disk[d].kid /\ ~Ahead(d))

RotationList(t) ==
  LET d == On(t).dir
      s == rotation[t].on
      n == Len(On(t).previous)
  IN  /\ rotation[t].at \in Early => rotation[t].old = disk[d].kid /\ Agrees(s, d)
      /\ rotation[t].at = "retire" => disk[d].archive[rotation[t].old] = rotation[t].old
      /\ rotation[t].at \notin Early => ServiceLists(s, d) /\ n <= Most + 1
      /\ rotation[t].at \notin Early \cup {"prune"} =>
           n <= Most /\ rotation[t].new \in drawn /\ ~IsRetired(d, rotation[t].new)

ServiceKeys(s, d) ==
  /\ service[s].previous \in Seq(Entries)
  /\ ~Changing(s) =>
       /\ Len(service[s].previous) <= Most
       /\ ServicePair(s)
       /\ Known(d, service[s].kid)

TokenKnown(d) ==
  token # None /\ token.dir = d =>
    token.kid = token.key /\ token.key \in Key /\ Known(d, token.key)

DirInv(d) ==
  /\ flaw[d] = {}
  /\ Retirees(d)
  /\ disk[d].archive = [k \in Key |-> disk[d].archive[k]]
  /\ ~Ahead(d) => Untouched(d) \/ Whole(d)
  /\ ~Ahead(d) /\ service[current].dir = d => Agrees(current, d)
  /\ \A t \in Thread : In(t, d) => RotationList(t)
  /\ \A s \in Service : Live(s) /\ service[s].dir = d => ServiceKeys(s, d)
  /\ TokenKnown(d)

ListShapes ==
  /\ retired = [d \in Dir |-> retired[d]]
  /\ signer \in Service \cup {None}
  /\ \A s \in Service : Live(s) => IsCrypto(service[s]) /\ service[s].limit \in {Configured, Default}

ListInv == ListShapes /\ \A d \in Dir : Clean(d) => DirInv(d)

(* Every set of naturals that is not empty has a smallest element.         *)
LEMMA SmallestOf ==
  ASSUME NEW T, T \subseteq Nat, T # {}
  PROVE  \E x \in T : \A y \in T : x <= y
<1>1. IsWellFoundedOn(OpToRel(<, Nat), Nat)
  BY NatLessThanWellFounded, Zenon
<1>2. PICK x \in T : \A y \in T : <<y, x>> \notin OpToRel(<, Nat)
  BY <1>1, WFMin, Zenon
<1>3. \A y \in T : ~(y < x)
  BY <1>2 DEF OpToRel
<1> QED BY <1>3

(* The limit of a service is one of the two.                               *)
LEMMA Limits ==
  ASSUME NEW n \in {Configured, Default}
  PROVE  n \in Nat /\ Least \in Nat /\ Most \in Nat /\ Least <= n /\ n <= Most
BY KeysAssumption DEF Least, Most

(* What happens elsewhere leaves the lists of a directory alone.           *)
LEMMA ListFrame ==
  ASSUME KeysInv, NEW e \in Dir, DirInv(e), current' \in Service,
         disk'[e] = disk[e], flaw'[e] = flaw[e], retired'[e] = retired[e],
         drawn \subseteq drawn',
         \A t \in Thread : In(t, e)' <=> In(t, e),
         \A t \in Thread : In(t, e) => rotation'[t] = rotation[t],
         \A s \in Service : Live(s)' /\ service'[s].dir = e => Live(s) /\ service'[s] = service[s],
         service'[current'].dir = e => current' = current,
         token' = token \/ TokenKnown(e)'
  PROVE  DirInv(e)'
<1>1. Ahead(e)' <=> Ahead(e)
  BY DEF Ahead
<1>2. \A k : /\ IsRetired(e, k)' <=> IsRetired(e, k)
             /\ Known(e, k)' <=> Known(e, k)
  BY <1>1 DEF IsRetired, Known
<1>3. Retirees(e)' /\ \A n : (Covers(n, e)' <=> Covers(n, e)) /\ (Archived(n, e)' <=> Archived(n, e))
  BY DEF DirInv, Retirees, Covers, Archived
<1>4. Untouched(e) => Untouched(e)'
  BY DEF Untouched
<1>5. Whole(e) => Whole(e)'
  BY <1>2, <1>3 DEF Whole, HasFiles, FilesList
<1>6. ASSUME NEW s \in Service, service'[s] = service[s]
      PROVE  Agrees(s, e) => Agrees(s, e)'
  BY <1>3, <1>6 DEF Agrees, ServiceLists
<1>7. ASSUME NEW t \in Thread, In(t, e)' PROVE RotationList(t)'
  <2>1. In(t, e) /\ rotation'[t] = rotation[t] /\ Rotating(t)' /\ On(t)'.dir = e /\ On(t).dir = e
    BY <1>7 DEF In
  <2>2. rotation[t].on \in Service
    BY <2>1 DEF In, KeysInv, Shapes
  <2>3. Live(rotation[t].on)'
    BY <2>1, <2>2 DEF Live, Held
  <2>4. service'[rotation[t].on] = service[rotation[t].on] /\ On(t)' = On(t)
    BY <2>1, <2>2, <2>3 DEF On
  <2>5. RotationList(t)
    BY <2>1 DEF DirInv
  <2>6. /\ Agrees(rotation[t].on, e) => Agrees(rotation[t].on, e)'
        /\ ServiceLists(rotation[t].on, e) => ServiceLists(rotation[t].on, e)'
    BY <1>3, <2>1, <2>2, <2>4 DEF Agrees, ServiceLists
  <2> QED BY <1>2, <2>1, <2>4, <2>5, <2>6 DEF RotationList
<1>8. ASSUME NEW s \in Service, Live(s)', service'[s].dir = e PROVE ServiceKeys(s, e)'
  <2>1. Live(s) /\ service'[s] = service[s] /\ service[s].dir = e
    BY <1>8
  <2>2. Changing(s) => Changing(s)'
    <3> SUFFICES ASSUME NEW t \in Thread, Rotating(t), rotation[t].on = s, rotation[t].at \notin Early
                 PROVE  Changing(s)'
      BY DEF Changing
    <3>1. In(t, e)
      BY <2>1 DEF In, On
    <3> QED BY <3>1 DEF Changing, In
  <2>3. ServiceKeys(s, e)
    BY <2>1 DEF DirInv
  <2> QED BY <1>2, <2>1, <2>2, <2>3 DEF ServiceKeys, ServicePair
<1>9. TokenKnown(e)'
  BY <1>2 DEF TokenKnown, DirInv
<1>10. ~Ahead(e)' /\ service'[current'].dir = e => Agrees(current, e)'
  <2> SUFFICES ASSUME ~Ahead(e)', service'[current'].dir = e PROVE Agrees(current, e)'
    OBVIOUS
  <2>1. Live(current)' /\ current' = current
    BY DEF Live
  <2>2. service'[current] = service[current]
    BY <2>1
  <2>3. Agrees(current, e)
    BY <1>1, <2>1, <2>2 DEF DirInv
  <2>4. Agrees(current, e) => (ServiceLists(current, e))'
    BY <1>3, <2>1, <2>2 DEF Agrees, ServiceLists
  <2> QED BY <2>1, <2>2, <2>3, <2>4 DEF Agrees
<1> QED BY <1>1, <1>3, <1>4, <1>5, <1>7, <1>8, <1>9, <1>10 DEF DirInv

(* In a clean directory one thread rotates at most, on the service in use. *)
LEMMA LoneRotation ==
  ASSUME KeysInv, ListInv, NEW t \in Thread, NEW d \in Dir, In(t, d), Clean(d)
  PROVE  /\ Rotating(t) /\ On(t).dir = d /\ rotation[t].on \in Service
         /\ IsRotation(rotation[t]) /\ IsCrypto(On(t)) /\ On(t).limit \in {Configured, Default}
         /\ DirInv(d) /\ RotationList(t) /\ Progress(t) /\ rotation[t].alone
         /\ IsFiles(disk[d]) /\ HasFiles(disk[d])
         /\ \A u \in Thread : In(u, d) => u = t
         /\ service[current].dir = d => current = rotation[t].on
<1> DEFINE o == rotation[t].on
<1>1. Rotating(t) /\ On(t).dir = d
  BY DEF In
<1>2. /\ o \in Service /\ IsRotation(rotation[t]) /\ IsCrypto(On(t))
      /\ IsFiles(disk[d]) /\ HasFiles(disk[d])
  BY <1>1 DEF KeysInv, Shapes
<1>3. DirInv(d) /\ flaw[d] = {}
  BY DEF ListInv, DirInv
<1>4. rotation[t].alone
  BY <1>1, <1>3 DEF KeysInv, AloneIsAlone
<1>5. Progress(t) /\ RotationList(t)
  BY <1>1, <1>3, <1>4 DEF KeysInv, AloneProgresses, DirInv
<1>6. /\ \A u \in Thread : In(u, d) => u = t
      /\ service[current].dir = d => current = o
  BY <1>1, <1>4 DEF KeysInv, AloneIsAlone
<1>7. Live(o)
  BY <1>1, <1>2 DEF Live, Held
<1>8. On(t).limit \in {Configured, Default}
  BY <1>2, <1>7 DEF ListInv, ListShapes, On
<1> QED BY <1>1, <1>2, <1>3, <1>4, <1>5, <1>6, <1>8

(* A rotation makes no service live that was not.                          *)
LEMMA LiveStep ==
  ASSUME KeysInv, NEW t \in Thread, NEW o \in Service, Rotating(t), rotation[t].on = o,
         rotation' = [rotation EXCEPT ![t] = rotation'[t]],
         service' = [service EXCEPT ![o] = service'[o]],
         rotation'[t].at # "idle" => rotation'[t].on = o,
         UNCHANGED <<current, signer>>
  PROVE  \A p \in Service : Live(p)' => Live(p)
<1> SUFFICES ASSUME NEW p \in Service, Live(p)' PROVE Live(p)
  OBVIOUS
<1>1. /\ \A u \in Thread : u # t => rotation'[u] = rotation[u]
      /\ p # o => service'[p] = service[p]
  BY DEF KeysInv, Shapes
<1>2. CASE p = o
  BY <1>2 DEF Live, Held
<1>3. CASE p # o
  <2>1. Held(p)' => Held(p)
    BY <1>1, <1>3 DEF Held, Rotating
  <2> QED BY <1>1, <1>3, <2>1 DEF Live
<1> QED BY <1>2, <1>3

(* The services of a directory that a rotation of it does not change, as   *)
(* long as it takes no key out of JWKS and the retired ones.               *)
LEMMA OtherServices ==
  ASSUME KeysInv, ListInv, NEW t \in Thread, NEW d \in Dir, NEW o \in Service,
         In(t, d), rotation[t].on = o, Clean(d),
         NEW s \in Service, s # o, Live(s), service[s].dir = d, service'[s] = service[s],
         \A k : Known(d, k) => Known(d, k)'
  PROVE  ServiceKeys(s, d)'
<1>1. DirInv(d) /\ \A u \in Thread : In(u, d) => u = t
  BY LoneRotation
<1>2. ~Changing(s)
  <2> SUFFICES ASSUME NEW u \in Thread, Rotating(u), rotation[u].on = s PROVE FALSE
    BY DEF Changing
  <2>1. In(u, d)
    BY DEF In, On
  <2> QED BY <1>1, <2>1
<1>3. ServiceKeys(s, d)
  BY <1>1 DEF DirInv
<1>4. \A k : k = service[s].kid => Known(d, k)'
  BY <1>2, <1>3 DEF ServiceKeys
<1>5. Known(d, service[s].kid)'
  BY <1>4 DEF Known, IsRetired
<1> QED BY <1>2, <1>3, <1>5 DEF ServiceKeys, ServicePair

(* A token whose key stays known is still a known token.                   *)
LEMMA KnownTokens ==
  ASSUME NEW d \in Dir, TokenKnown(d), token' = token,
         \A k \in Key : Known(d, k) => Known(d, k)'
  PROVE  TokenKnown(d)'
<1>1. \A k \in Key : k = token.key => (token # None /\ token.dir = d => Known(d, k)')
  BY DEF TokenKnown
<1>2. token # None /\ token.dir = d => Known(d, token.key)'
  BY <1>1 DEF Known, IsRetired, TokenKnown
<1> QED BY <1>2 DEF TokenKnown

(* A step of a rotation concerns its own directory only.                   *)
LEMMA ListStep ==
  ASSUME KeysInv, ListInv, NEW t \in Thread, NEW d \in Dir, NEW o \in Service,
         In(t, d), rotation[t].on = o,
         rotation' = [rotation EXCEPT ![t] = rotation'[t]],
         disk' = [disk EXCEPT ![d] = disk'[d]],
         service' = [service EXCEPT ![o] = service'[o]],
         retired' = [retired EXCEPT ![d] = retired'[d]],
         rotation'[t].at # "idle" => rotation'[t].on = o,
         IsCrypto(service'[o]),
         service'[o].dir = d,
         service'[o].limit = service[o].limit,
         \A e \in Dir : e # d => flaw'[e] = flaw[e],
         Clean(d)' => Clean(d),
         UNCHANGED <<keysDir, current, signer, token>>, drawn \subseteq drawn',
         Clean(d) => DirInv(d)'
  PROVE  ListInv'
<1>1. /\ service[o].dir = d /\ Rotating(t)
      /\ \A e \in Dir : e # d => disk'[e] = disk[e] /\ retired'[e] = retired[e]
      /\ \A p \in Service : p # o => service'[p] = service[p]
      /\ \A u \in Thread : u # t => rotation'[u] = rotation[u]
  BY DEF KeysInv, Shapes, ListInv, ListShapes, IsCrypto, On, In
<1>2. \A p \in Service : service'[p].dir = service[p].dir
  BY <1>1 DEF On
<1>3. \A u \in Thread : Rotating(u)' => Rotating(u) /\ rotation'[u].on = rotation[u].on
  BY <1>1 DEF Rotating
<1>4. \A p \in Service : Live(p)' => Live(p)
  BY <1>1, LiveStep
<1>5. ListShapes'
  <2>1. ASSUME NEW p \in Service, Live(p)'
        PROVE  IsCrypto(service'[p]) /\ service'[p].limit \in {Configured, Default}
    <3>1. Live(p) /\ IsCrypto(service[p]) /\ service[p].limit \in {Configured, Default}
      BY <1>4, <2>1 DEF ListInv, ListShapes
    <3> QED BY <1>1, <3>1 DEF On
  <2>2. retired' = [e \in Dir |-> retired'[e]]
    BY DEF ListInv, ListShapes
  <2>3. signer' \in Service \cup {None}
    BY DEF ListInv, ListShapes
  <2> QED BY <2>1, <2>2, <2>3 DEF ListShapes
<1>6. ASSUME NEW e \in Dir, Clean(e)' PROVE DirInv(e)'
  <2>1. CASE e = d
    BY <1>6, <2>1
  <2>2. CASE e # d
    <3>1. Clean(e) /\ flaw'[e] = flaw[e]
      BY <1>6, <2>2 DEF Clean
    <3>2. DirInv(e)
      BY <3>1 DEF ListInv
    <3>3. \A u \in Thread : In(u, e) => u # t /\ rotation'[u] = rotation[u]
      BY <1>1, <2>2 DEF In
    <3>4. \A u \in Thread : In(u, e)' <=> In(u, e)
      <4> SUFFICES ASSUME NEW u \in Thread PROVE In(u, e)' <=> In(u, e)
        OBVIOUS
      <4>1. CASE u = t
        <5>1. Rotating(u)' => On(u)'.dir = d
          BY <1>3, <4>1 DEF On
        <5> QED BY <2>2, <4>1, <5>1 DEF In
      <4>2. CASE u # t
        <5>1. rotation'[u] = rotation[u]
          BY <1>1, <4>2
        <5>2. Rotating(u) => On(u)'.dir = On(u).dir
          BY <1>2, <5>1 DEF On, KeysInv, Shapes
        <5> QED BY <5>1, <5>2 DEF In, Rotating
      <4> QED BY <4>1, <4>2
    <3>5. \A s \in Service : Live(s)' /\ service'[s].dir = e => Live(s) /\ service'[s] = service[s]
      BY <1>1, <1>2, <1>4, <2>2 DEF On
    <3>6. current' \in Service
      BY DEF KeysInv, Shapes
    <3> QED BY <1>1, <2>2, <3>1, <3>2, <3>3, <3>4, <3>5, <3>6, ListFrame
  <2> QED BY <2>1, <2>2
<1> QED BY <1>5, <1>6 DEF ListInv

(* A rotation that is ahead of keys.json, or gets there.                   *)
LEMMA AheadStep ==
  ASSUME KeysInv, ListInv, NEW t \in Thread, NEW d \in Dir, NEW o \in Service,
         In(t, d), rotation[t].on = o, Clean(d),
         rotation' = [rotation EXCEPT ![t] = rotation'[t]],
         service' = [service EXCEPT ![o] = service'[o]],
         rotation'[t].at \notin Early \cup {"idle"}, rotation'[t].on = o,
         service'[o].dir = d, UNCHANGED <<current, signer, token, flaw>>,
         Retirees(d)', disk'[d].archive = [k \in Key |-> disk'[d].archive[k]],
         ServiceLists(o, d)', Len(service'[o].previous) <= Most + 1,
         rotation'[t].at # "prune" =>
           /\ Len(service'[o].previous) <= Most /\ rotation'[t].new \in drawn'
           /\ \A i \in 1..Len(retired'[d]) : retired'[d][i] # rotation'[t].new,
         \A k : Known(d, k) => IsRetired(d, k)'
  PROVE  DirInv(d)'
<1>1. /\ Rotating(t) /\ service[o].dir = d /\ DirInv(d)
      /\ \A u \in Thread : In(u, d) => u = t
  BY LoneRotation DEF On
<1>2. /\ \A p \in Service : p # o => service'[p] = service[p]
      /\ \A u \in Thread : u # t => rotation'[u] = rotation[u]
      /\ \A p \in Service : service'[p].dir = service[p].dir
  BY <1>1 DEF KeysInv, Shapes
<1>3. In(t, d)' /\ Ahead(d)' /\ Changing(o)' /\ On(t)' = service'[o]
  BY <1>1 DEF In, Rotating, On, Ahead, Changing
<1>4. ASSUME NEW u \in Thread, In(u, d)' PROVE RotationList(u)'
  <2>1. u = t
    <3> SUFFICES ASSUME u # t PROVE FALSE
      OBVIOUS
    <3>1. rotation'[u] = rotation[u] /\ Rotating(u) /\ rotation[u].on \in Service
      BY <1>2, <1>4 DEF In, Rotating, KeysInv, Shapes
    <3>2. In(u, d)
      BY <1>2, <1>4, <3>1 DEF In, On
    <3> QED BY <1>1, <3>2
  <2>2. rotation'[t].on = o /\ On(t)'.dir = d /\ On(t)' = service'[o]
    BY <1>3
  <2>3. \A k : k = rotation'[t].new =>
          (IsRetired(d, k)' <=> \E i \in 1..Len(retired'[d]) : retired'[d][i] = k)
    BY DEF IsRetired
  <2>4. ServiceLists(rotation[t].on, On(t).dir)'
    BY <2>2 DEF ServiceLists, Covers, Archived
  <2>5. RotationList(t)'
    <3>1. rotation'[t].at \notin Early /\ Len(On(t)'.previous) <= Most + 1
      BY <2>2
    <3>2. rotation'[t].at # "prune" =>
            /\ Len(On(t)'.previous) <= Most /\ rotation'[t].new \in drawn'
            /\ ~IsRetired(On(t).dir, rotation[t].new)'
      BY <2>2 DEF IsRetired
    <3> QED BY <2>4, <3>1, <3>2 DEF RotationList, Early
  <2> QED BY <2>1, <2>5
<1>5. \A k : Known(d, k) => Known(d, k)'
  BY DEF Known, IsRetired
<1>6. ASSUME NEW s \in Service, Live(s)', service'[s].dir = d PROVE ServiceKeys(s, d)'
  <2>1. CASE s = o
    BY <1>3, <2>1 DEF ServiceKeys, ServiceLists
  <2>2. CASE s # o
    <3>1. service'[s] = service[s] /\ service[s].dir = d
      BY <1>2, <1>6, <2>2
    <3>2. Live(s)
      BY <1>1, <1>6, LiveStep
    <3> QED BY <1>1, <1>5, <2>2, <3>1, <3>2, OtherServices
  <2> QED BY <2>1, <2>2
<1>7. TokenKnown(d)'
  BY <1>1, <1>5, KnownTokens DEF DirInv
<1>8. flaw'[d] = {}
  BY <1>1 DEF DirInv
<1> QED BY <1>3, <1>4, <1>6, <1>7, <1>8 DEF DirInv

(* A rotation that is ahead and does not touch lists, archive and retired. *)
LEMMA WritesKeepLists ==
  ASSUME KeysInv, ListInv, KeysInv', NEW t \in Thread,
         \/ \E k \in Key : WritePrivate(t, k)
         \/ WritePublic(t) \/ WriteKid(t) \/ LoadPrivate(t) \/ LoadPublic(t)
         \/ Adopt(t) \/ Certify(t)
  PROVE  ListInv'
<1>1. rotation[t].at \in {"prune", "public", "kid", "loadPrivate", "loadPublic", "adopt", "certify"}
  BY DEF WritePrivate, WritePublic, WriteKid, LoadPrivate, LoadPublic, Adopt, Certify, Step
<1>2. Rotating(t) /\ rotation[t].on \in Service /\ On(t).dir \in Dir
  BY <1>1 DEF Rotating, KeysInv, Shapes, IsCrypto
<1>3. PICK d \in Dir, o \in Service : In(t, d) /\ rotation[t].on = o
  BY <1>2 DEF In
<1>4. On(t) = service[o] /\ service[o].dir = d /\ IsCrypto(service[o])
  BY <1>2, <1>3 DEF In, On, KeysInv, Shapes
<1> DEFINE writes ==
             /\ rotation' = [rotation EXCEPT ![t] = rotation'[t]]
             /\ rotation'[t].on = o
             /\ rotation'[t].at \in At \ {"idle", "archive", "retire", "prune"}
             /\ rotation[t].at # "prune" => rotation'[t].new = rotation[t].new
             /\ UNCHANGED <<keysDir, current, signer, token, retired, flaw>>
             /\ drawn \subseteq drawn'
             /\ disk' = [disk EXCEPT ![d] = disk'[d]]
             /\ disk'[d].archive = disk[d].archive
             /\ service' = [service EXCEPT ![o] = service'[o]]
             /\ service'[o].previous = service[o].previous /\ service'[o].dir = d
             /\ service'[o].limit = service[o].limit
<1>5. /\ disk = [e \in Dir |-> disk[e]] /\ service = [p \in Service |-> service[p]]
      /\ rotation = [u \in Thread |-> rotation[u]]
      /\ IsFiles(disk[d]) /\ IsRotation(rotation[t])
  BY DEF KeysInv, Shapes
<1>6. writes
  <2>1. ASSUME NEW k \in Key, WritePrivate(t, k) PROVE writes
    BY <1>1, <1>3, <1>4, <1>5, <2>1, Zenon
       DEF WritePrivate, runtime, history, IsRotation, IsFiles, IsCrypto, At
  <2>2. CASE WritePublic(t)
    BY <1>1, <1>3, <1>4, <1>5, <2>2
       DEF WritePublic, Step, runtime, history, IsRotation, IsFiles, IsCrypto, At
  <2>3. CASE WriteKid(t)
    BY <1>1, <1>3, <1>4, <1>5, <2>3
       DEF WriteKid, Step, runtime, history, IsRotation, IsFiles, IsCrypto, At
  <2>4. CASE LoadPrivate(t)
    BY <1>1, <1>3, <1>4, <1>5, <2>4
       DEF LoadPrivate, Step, runtime, history, IsRotation, IsFiles, IsCrypto, At
  <2>5. CASE LoadPublic(t)
    BY <1>1, <1>3, <1>4, <1>5, <2>5
       DEF LoadPublic, Step, runtime, history, IsRotation, IsFiles, IsCrypto, At
  <2>6. CASE Adopt(t)
    BY <1>1, <1>3, <1>4, <1>5, <2>6
       DEF Adopt, Step, runtime, history, IsRotation, IsFiles, IsCrypto, At
  <2>7. CASE Certify(t)
    BY <1>1, <1>3, <1>4, <1>5, <2>7
       DEF Certify, Step, runtime, history, IsRotation, IsFiles, IsCrypto, At
  <2> QED BY <2>1, <2>2, <2>3, <2>4, <2>5, <2>6, <2>7
<1>7. /\ rotation' = [rotation EXCEPT ![t] = rotation'[t]]
      /\ rotation'[t].on = o
      /\ rotation'[t].at \in At \ {"idle", "archive", "retire", "prune"}
      /\ rotation[t].at # "prune" => rotation'[t].new = rotation[t].new
      /\ UNCHANGED <<keysDir, current, signer, token, retired, flaw>>
      /\ drawn \subseteq drawn'
  BY <1>6
<1>8. /\ disk' = [disk EXCEPT ![d] = disk'[d]]
      /\ disk'[d].archive = disk[d].archive
  BY <1>6
<1>9. /\ service' = [service EXCEPT ![o] = service'[o]]
      /\ service'[o].previous = service[o].previous /\ service'[o].dir = d
      /\ service'[o].limit = service[o].limit
  BY <1>6
<1>10. IsCrypto(service'[o])
  <2>1. Rotating(t)' /\ On(t)' = service'[o]
    BY <1>7 DEF Rotating, On
  <2> QED BY <2>1 DEF KeysInv, Shapes
<1>11. ASSUME Clean(d) PROVE DirInv(d)'
  <2>1. /\ DirInv(d) /\ RotationList(t) /\ On(t).limit \in {Configured, Default}
    BY <1>3, <1>11, LoneRotation
  <2>2. Retirees(d)' /\ disk'[d].archive = [k \in Key |-> disk'[d].archive[k]]
    BY <1>7, <1>8, <2>1 DEF DirInv, Retirees
  <2>3. /\ ServiceLists(o, d) /\ Len(service[o].previous) <= Most + 1
        /\ rotation[t].at # "prune" =>
             /\ Len(service[o].previous) <= Most
             /\ rotation[t].new \in drawn /\ ~IsRetired(d, rotation[t].new)
    BY <1>1, <1>3, <1>4, <2>1 DEF RotationList, Early
  <2>4. ServiceLists(o, d)' /\ Len(service'[o].previous) <= Most + 1
    BY <1>7, <1>8, <1>9, <2>3 DEF ServiceLists, Covers, Archived
  <2>5. /\ Len(service'[o].previous) <= Most /\ rotation'[t].new \in drawn'
        /\ \A i \in 1..Len(retired'[d]) : retired'[d][i] # rotation'[t].new
    <3>1. CASE rotation[t].at # "prune"
      BY <1>7, <1>9, <2>3, <3>1 DEF IsRetired
    <3>2. CASE rotation[t].at = "prune"
      <4>1. PICK k \in Key : WritePrivate(t, k)
        BY <3>2 DEF WritePublic, WriteKid, LoadPrivate, LoadPublic, Adopt, Certify, Step
      <4>2. ~(Len(service[o].previous) > service[o].limit) /\ k \notin drawn
            /\ rotation'[t].new = k /\ k \in drawn'
        <5>1. ~(Len(service[o].previous) > service[o].limit) /\ k \notin drawn
          BY <1>4, <4>1 DEF WritePrivate, OverLimit
        <5>2. rotation'[t].new = k
          BY <1>5, <4>1, Zenon DEF WritePrivate, KeysInv, Shapes, IsRotation
        <5>3. k \in drawn'
          BY <4>1 DEF WritePrivate
        <5> QED BY <5>1, <5>2, <5>3
      <4>3. service[o].limit <= Most /\ service[o].limit \in Nat /\ Most \in Nat
        BY <1>4, <2>1, Limits
      <4>4. Len(service[o].previous) \in Nat
        BY <2>3 DEF ServiceLists
      <4>5. Len(service'[o].previous) <= Most
        BY <1>9, <4>2, <4>3, <4>4
      <4>6. \A i \in 1..Len(retired'[d]) : retired'[d][i] # k
        BY <1>7, <2>1, <4>2 DEF DirInv, Retirees
      <4> QED BY <4>2, <4>5, <4>6
    <3> QED BY <3>1, <3>2
  <2>6. \A k : Known(d, k) => IsRetired(d, k)'
    BY <1>1, <1>3, <1>7 DEF Known, Ahead, IsRetired, Early
  <2>7. rotation'[t].at \notin Early \cup {"idle"}
    BY <1>7 DEF Early
  <2> QED BY <1>3, <1>7, <1>9, <1>11, <2>2, <2>4, <2>5, <2>6, <2>7, AheadStep
<1>12. retired' = [retired EXCEPT ![d] = retired'[d]]
  BY <1>7 DEF ListInv, ListShapes
<1> QED BY <1>3, <1>4, <1>7, <1>8, <1>9, <1>10, <1>11, <1>12, ListStep DEF Clean

(* Before a rotation has retired its key, files and service say the same.  *)
LEMMA EarlyRotation ==
  ASSUME KeysInv, ListInv, NEW t \in Thread, NEW d \in Dir, NEW o \in Service,
         In(t, d), rotation[t].on = o, Clean(d), rotation[t].at \in Early
  PROVE  /\ ~Ahead(d) /\ Whole(d) /\ Agrees(o, d)
         /\ rotation[t].old = disk[d].kid /\ service[o].public = rotation[t].old
         /\ rotation[t].old \in Key /\ rotation[t].old \in drawn
         /\ ~IsRetired(d, rotation[t].old)
<1>1. /\ DirInv(d) /\ RotationList(t) /\ On(t).dir = d /\ HasFiles(disk[d])
      /\ \A u \in Thread : In(u, d) => u = t
  BY LoneRotation
<1>2. ~Ahead(d)
  BY <1>1 DEF Ahead
<1>3. disk[d].kid \in Key
  BY <1>1 DEF HasFiles
<1>4. Whole(d)
  BY <1>1, <1>2, <1>3, KeysAssumption DEF DirInv, Untouched
<1>5. rotation[t].old = disk[d].kid /\ Agrees(o, d)
  BY <1>1 DEF RotationList
<1> QED BY <1>2, <1>3, <1>4, <1>5 DEF Whole, Agrees

(* The public key is copied to its file among the previous ones.           *)
LEMMA ArchiveKeepsLists ==
  ASSUME KeysInv, ListInv, KeysInv', NEW t \in Thread, ArchivePublic(t)
  PROVE  ListInv'
<1>1. Rotating(t) /\ rotation[t].at = "archive"
  BY DEF ArchivePublic, Step, Rotating
<1>2. rotation[t].on \in Service /\ On(t).dir \in Dir /\ IsRotation(rotation[t]) /\ IsCrypto(On(t))
  BY <1>1 DEF KeysInv, Shapes, IsCrypto
<1>3. PICK d \in Dir, o \in Service : In(t, d) /\ rotation[t].on = o
  BY <1>1, <1>2 DEF In
<1>4. On(t) = service[o] /\ service[o].dir = d /\ IsCrypto(service[o])
  BY <1>2, <1>3 DEF In, On
<1> DEFINE old == rotation[t].old
<1>5. /\ rotation' = [rotation EXCEPT ![t] = rotation'[t]]
      /\ rotation'[t].on = o /\ rotation'[t].at = "retire" /\ rotation'[t].old = old
      /\ \A u \in Thread : u # t => rotation'[u] = rotation[u]
      /\ UNCHANGED <<service, keysDir, current, signer, token, drawn, retired, flaw>>
  BY <1>1, <1>2, <1>3, Zenon DEF ArchivePublic, Step, runtime, history, KeysInv, Shapes, IsRotation
<1>6. /\ disk' = [disk EXCEPT ![d] = disk'[d]]
      /\ disk'[d] = [disk[d] EXCEPT !.archive[old] = service[o].public]
  BY <1>3, <1>4, Zenon DEF ArchivePublic, KeysInv, Shapes
<1>7. IsFiles(disk[d])
  BY DEF KeysInv, Shapes
<1>8. /\ disk'[d].private = disk[d].private /\ disk'[d].public = disk[d].public
      /\ disk'[d].kid = disk[d].kid /\ disk'[d].certificate = disk[d].certificate
      /\ disk'[d].listed = disk[d].listed
      /\ disk'[d].archive = [disk[d].archive EXCEPT ![old] = service[o].public]
  BY <1>6, <1>7 DEF IsFiles
<1>9. service' = [service EXCEPT ![o] = service'[o]] /\ retired' = [retired EXCEPT ![d] = retired'[d]]
  BY <1>5 DEF KeysInv, Shapes, ListInv, ListShapes
<1>10. ASSUME Clean(d) PROVE DirInv(d)'
  <2>1. /\ ~Ahead(d) /\ Whole(d) /\ Agrees(o, d) /\ old = disk[d].kid /\ old \in Key
        /\ service[o].public = old
    BY <1>1, <1>3, <1>10, EarlyRotation DEF Early
  <2>2. /\ DirInv(d) /\ On(t).dir = d
        /\ \A u \in Thread : In(u, d) => u = t
        /\ service[current].dir = d => current = o
    BY <1>3, <1>10, LoneRotation
  <2>3. /\ disk'[d].archive = [k \in Key |-> disk'[d].archive[k]]
        /\ disk'[d].archive[old] = old
        /\ \A k \in Key : k # old => disk'[d].archive[k] = disk[d].archive[k]
    BY <1>8, <2>1, <2>2 DEF DirInv
  <2>4. Retirees(d)' /\ \A k : IsRetired(d, k)' <=> IsRetired(d, k)
    BY <1>5, <2>2 DEF DirInv, Retirees, IsRetired
  <2>5. ASSUME NEW n \in Nat, n <= Len(retired[d]), Archived(n, d)
        PROVE  Archived(n, d)'
    BY <1>5, <2>2, <2>3, <2>5 DEF Archived, DirInv, Retirees
  <2>6. /\ \A n : Covers(n, d) => Covers(n, d)'
        /\ \A n \in Nat : Covers(n, d) => n <= Len(retired[d])
    BY <1>5 DEF Covers
  <2>7. ASSUME NEW u \in Thread, In(u, d)' PROVE u = t
    <3>1. u # t => In(u, d)
      BY <1>5, <2>7 DEF In, Rotating, On
    <3> QED BY <2>2, <3>1
  <2>8. ~Ahead(d)'
    BY <1>5, <2>7 DEF Ahead, Early
  <2>9. Whole(d)'
    <3>1. FilesList(d)'
      BY <1>5, <1>8, <2>1, <2>5, <2>6 DEF Whole, FilesList
    <3> QED BY <1>5, <1>8, <2>1, <2>4, <3>1 DEF Whole, HasFiles
  <2>10. Agrees(o, d)'
    <3>1. ServiceLists(o, d)'
      BY <1>5, <2>1, <2>5, <2>6 DEF Agrees, ServiceLists
    <3> QED BY <1>5, <1>8, <2>1, <3>1 DEF Agrees
  <2>11. \A k : Known(d, k) => Known(d, k)'
    BY <1>8, <2>4, <2>8 DEF Known
  <2>12. ASSUME NEW u \in Thread, In(u, d)' PROVE RotationList(u)'
    <3>1. u = t /\ rotation'[t].on = o /\ On(t)'.dir = d
      BY <1>4, <1>5, <2>7, <2>12 DEF On
    <3>2. Agrees(rotation[t].on, On(t).dir)'
      BY <2>10, <3>1 DEF Agrees, ServiceLists, Covers, Archived
    <3>3. RotationList(t)'
      BY <1>5, <1>8, <2>1, <2>3, <3>1, <3>2 DEF RotationList, Early
    <3> QED BY <3>1, <3>3
  <2>13. ASSUME NEW s \in Service, Live(s)', service'[s].dir = d PROVE ServiceKeys(s, d)'
    <3>1. Live(s) /\ service[s].dir = d
      BY <1>1, <1>3, <1>5, <2>13, <1>9, LiveStep
    <3>2. CASE s # o
      BY <1>3, <1>5, <1>10, <2>11, <3>1, <3>2, OtherServices
    <3>3. CASE s = o
      <4>1. Len(service[o].previous) <= Most /\ ServicePair(o) /\ service[o].kid = disk[d].kid
        BY <2>1 DEF Whole, Agrees, FilesList, ServicePair
      <4>2. \A k : k = service[o].kid => Known(d, k)'
        BY <2>11, <4>1, <2>1 DEF Known
      <4>3. service[o].previous \in Seq(Entries)
        BY <2>1 DEF Agrees, ServiceLists
      <4> QED BY <1>5, <3>3, <4>1, <4>2, <4>3 DEF ServiceKeys, ServicePair, Known, IsRetired
    <3> QED BY <3>2, <3>3
  <2>14. TokenKnown(d)'
    BY <1>5, <2>2, <2>11, KnownTokens DEF DirInv
  <2>15. ~Ahead(d)' /\ service'[current'].dir = d => Agrees(current, d)'
    <3>1. service[current].dir = d => current' = o
      BY <1>5, <2>2
    <3> QED BY <1>5, <2>10, <3>1 DEF Agrees, ServiceLists
  <2> QED BY <1>5, <2>2, <2>3, <2>4, <2>9, <2>12, <2>13, <2>14, <2>15 DEF DirInv
<1>11. Clean(d)' => Clean(d)
  BY <1>5 DEF Clean
<1> QED BY <1>3, <1>4, <1>5, <1>6, <1>10, <1>9, <1>11, ListStep

(* The old key becomes the newest of the previous ones.                    *)
LEMMA RetireKeepsLists ==
  ASSUME KeysInv, ListInv, KeysInv', NEW t \in Thread, Retire(t)
  PROVE  ListInv'
<1>1. Rotating(t) /\ rotation[t].at = "retire"
  BY DEF Retire, Step, Rotating
<1>2. rotation[t].on \in Service /\ On(t).dir \in Dir /\ IsRotation(rotation[t]) /\ IsCrypto(On(t))
  BY <1>1 DEF KeysInv, Shapes, IsCrypto
<1>3. PICK d \in Dir, o \in Service : In(t, d) /\ rotation[t].on = o
  BY <1>1, <1>2 DEF In
<1>4. On(t) = service[o] /\ service[o].dir = d /\ IsCrypto(service[o])
  BY <1>2, <1>3 DEF In, On
<1> DEFINE old == rotation[t].old
<1>5. /\ rotation' = [rotation EXCEPT ![t] = rotation'[t]]
      /\ rotation'[t].on = o /\ rotation'[t].at = "prune"
      /\ UNCHANGED <<disk, keysDir, current, signer, token, drawn, flaw>>
  BY <1>1, <1>2, <1>3, Zenon DEF Retire, Step, runtime, history, KeysInv, Shapes, IsRotation
<1>6. /\ service' = [service EXCEPT ![o] = service'[o]]
      /\ service'[o].dir = d /\ service'[o].limit = service[o].limit
      /\ service'[o].previous = <<[kid |-> old, key |-> service[o].public]>> \o service[o].previous
  BY <1>3, <1>4, Zenon DEF Retire, KeysInv, Shapes, IsCrypto
<1>7. /\ retired' = [retired EXCEPT ![d] = retired'[d]]
      /\ Clean(d) => retired'[d] = <<service[o].public>> \o retired[d]
  BY <1>4 DEF Retire, ListInv, ListShapes, Clean
<1>8. IsCrypto(service'[o])
  <2>1. Rotating(t)' /\ On(t)' = service'[o]
    BY <1>5 DEF Rotating, On
  <2> QED BY <2>1 DEF KeysInv, Shapes
<1>9. disk' = [disk EXCEPT ![d] = disk'[d]]
  BY <1>5 DEF KeysInv, Shapes
<1>10. ASSUME Clean(d) PROVE DirInv(d)'
  <2>1. /\ ~Ahead(d) /\ Whole(d) /\ Agrees(o, d) /\ old = disk[d].kid
        /\ service[o].public = old /\ old \in Key /\ old \in drawn /\ ~IsRetired(d, old)
    BY <1>1, <1>3, <1>10, EarlyRotation DEF Early
  <2>2. DirInv(d) /\ disk[d].archive[old] = old
    BY <1>1, <1>3, <1>4, <1>10, LoneRotation DEF RotationList
  <2> DEFINE p == service[o].previous
             q == retired[d]
             e == Entry(old)
  <2>3. /\ p \in Seq(Entries) /\ q \in Seq(Key) /\ Len(p) \in Nat /\ Len(q) \in Nat
        /\ Covers(Len(p), d) /\ Archived(Len(p), d)
        /\ \A i \in 1..Len(p) : p[i] = Entry(q[i])
        /\ \A i \in 1..Len(q) : q[i] \in drawn /\ q[i] # old
        /\ \A i, j \in 1..Len(q) : q[i] = q[j] => i = j
    <3>1. ServiceLists(o, d) /\ Retirees(d)
      BY <2>1, <2>2 DEF Agrees, DirInv
    <3>2. \A i \in 1..Len(q) : q[i] # old
      BY <2>1 DEF IsRetired
    <3>3. p \in Seq(Entries) /\ q \in Seq(Key)
      BY <3>1 DEF ServiceLists, Retirees
    <3> QED BY <3>1, <3>2, <3>3 DEF ServiceLists, Retirees
  <2>4. Len(p) \in Nat /\ Len(q) \in Nat /\ Len(p) <= Len(q)
    BY <2>3 DEF Covers, q
  <2>5. Len(p) <= Most
    BY <2>1 DEF Agrees, Whole, FilesList
  <2>6. e \in Entries /\ service'[o].previous = <<e>> \o p /\ retired'[d] = <<old>> \o q
    BY <1>6, <1>7, <1>10, <2>1 DEF Entry, Entries
  <2> HIDE DEF p, q, e
  <2>7. /\ service'[o].previous \in Seq(Entries) /\ Len(service'[o].previous) = Len(p) + 1
        /\ service'[o].previous[1] = e
        /\ \A i \in 2..Len(p) + 1 : service'[o].previous[i] = p[i - 1]
    BY <2>3, <2>6
  <2>8. /\ retired'[d] \in Seq(Key) /\ Len(retired'[d]) = Len(q) + 1
        /\ retired'[d][1] = old
        /\ \A i \in 2..Len(q) + 1 : retired'[d][i] = q[i - 1]
    BY <2>1, <2>3, <2>6
  <2>9. Retirees(d)'
    <3>1. \A i \in 1..Len(q) + 1 : retired'[d][i] \in drawn'
      <4> SUFFICES ASSUME NEW i \in 1..Len(q) + 1 PROVE retired'[d][i] \in drawn
        BY <1>5
      <4>1. CASE i = 1
        BY <2>1, <2>8, <4>1
      <4>2. CASE i # 1
        <5>1. i - 1 \in 1..Len(q) /\ i \in 2..Len(q) + 1
          BY <2>4, <4>2
        <5> QED BY <2>3, <2>8, <5>1
      <4> QED BY <4>1, <4>2
    <3>2. \A i, j \in 1..Len(q) + 1 : retired'[d][i] = retired'[d][j] => i = j
      <4> SUFFICES ASSUME NEW i \in 1..Len(q) + 1, NEW j \in 1..Len(q) + 1,
                          retired'[d][i] = retired'[d][j]
                   PROVE  i = j
        OBVIOUS
      <4>1. CASE i = 1 \/ j = 1
        BY <2>3, <2>8, <4>1
      <4>2. CASE i # 1 /\ j # 1
        <5>1. i - 1 \in 1..Len(q) /\ j - 1 \in 1..Len(q) /\ q[i - 1] = q[j - 1]
          BY <2>3, <2>8, <4>2
        <5>2. i - 1 = j - 1
          BY <2>3, <5>1
        <5> QED BY <2>3, <5>2
      <4> QED BY <4>1, <4>2
    <3> QED BY <2>8, <3>1, <3>2 DEF Retirees
  <2>10. ServiceLists(o, d)'
    <3>1. Covers(Len(service[o].previous), d)'
      <4>1. Least \in Nat
        BY KeysAssumption DEF Least
      <4>2. Len(p) < Least => Len(p) = Len(q)
        BY <2>3 DEF Covers, q
      <4>3. /\ Len(service[o].previous)' <= Len(retired[d])'
            /\ Len(service[o].previous)' < Least => Len(service[o].previous)' = Len(retired[d])'
        BY <2>7, <2>8, <2>4, <4>1, <4>2
      <4> QED BY <4>3 DEF Covers
    <3>2. \A i \in 1..Len(p) + 1 : disk'[d].archive[retired'[d][i]] = retired'[d][i]
      <4>1. \A i \in 1..Len(p) : disk[d].archive[q[i]] = q[i]
        BY <2>3 DEF Archived, q
      <4>2. Len(p) <= Len(q)
        BY <2>3 DEF Covers, q
      <4> SUFFICES ASSUME NEW i \in 1..Len(p) + 1
                   PROVE  disk'[d].archive[retired'[d][i]] = retired'[d][i]
        OBVIOUS
      <4>3. CASE i = 1
        BY <1>5, <2>2, <2>8, <4>3
      <4>4. CASE i # 1
        <5>1. i - 1 \in 1..Len(p) /\ retired'[d][i] = q[i - 1]
          BY <2>8, <2>4, <4>4
        <5> QED BY <1>5, <4>1, <5>1
      <4> QED BY <4>3, <4>4
    <3>3. \A i \in 1..Len(p) + 1 : service'[o].previous[i] = Entry(retired'[d][i])
      <4>1. Len(p) <= Len(q)
        BY <2>3 DEF Covers, q
      <4> SUFFICES ASSUME NEW i \in 1..Len(p) + 1
                   PROVE  service'[o].previous[i] = Entry(retired'[d][i])
        OBVIOUS
      <4>2. CASE i = 1
        BY <2>7, <2>8, <4>2 DEF e
      <4>3. CASE i # 1
        <5>1. i - 1 \in 1..Len(p) /\ i \in 2..Len(p) + 1 /\ i \in 2..Len(q) + 1
          BY <2>4, <4>3
        <5>2. retired'[d][i] = q[i - 1] /\ service'[o].previous[i] = p[i - 1]
          BY <2>7, <2>8, <5>1
        <5>3. p[i - 1] = Entry(q[i - 1])
          BY <2>3, <5>1
        <5> QED BY <5>2, <5>3
      <4> QED BY <4>2, <4>3
    <3>4. Archived(Len(service[o].previous), d)'
      BY <2>7, <3>2 DEF Archived
    <3> QED BY <2>7, <3>1, <3>3, <3>4 DEF ServiceLists, Entry
  <2>11. ASSUME NEW k, Known(d, k) PROVE IsRetired(d, k)'
    <3>1. CASE k = old
      BY <2>3, <2>8, <3>1 DEF IsRetired
    <3>2. CASE k # old
      <4>1. PICK i \in 1..Len(q) : q[i] = k
        BY <2>1, <2>11, <3>2 DEF Known, IsRetired, q
      <4>2. i + 1 \in 2..Len(q) + 1 /\ retired'[d][i + 1] = q[i + 1 - 1] /\ i + 1 - 1 = i
        BY <2>8, <2>4, <4>1
      <4>3. i + 1 \in 1..Len(retired'[d]) /\ retired'[d][i + 1] = k
        BY <2>3, <2>8, <4>1, <4>2
      <4> QED BY <4>3 DEF IsRetired
    <3> QED BY <3>1, <3>2
  <2>12. disk'[d].archive = [k \in Key |-> disk'[d].archive[k]]
    BY <1>5, <2>2 DEF DirInv
  <2>13. Most \in Nat /\ Len(service'[o].previous) <= Most + 1
    BY <2>3, <2>5, <2>7, KeysAssumption DEF Most
  <2>14. rotation'[t].at \notin Early \cup {"idle"}
    BY <1>5 DEF Early
  <2> QED BY <1>3, <1>5, <1>6, <1>10, <2>9, <2>10, <2>11, <2>12, <2>13, <2>14, AheadStep
<1> QED BY <1>3, <1>5, <1>6, <1>7, <1>8, <1>9, <1>10, ListStep DEF Clean

(* The oldest previous key beyond the limit goes, with its file.           *)
LEMMA PruneKeepsLists ==
  ASSUME KeysInv, ListInv, KeysInv', NEW t \in Thread, Prune(t)
  PROVE  ListInv'
<1>1. Rotating(t) /\ rotation[t].at = "prune"
  BY DEF Prune, Rotating
<1>2. rotation[t].on \in Service /\ On(t).dir \in Dir /\ IsRotation(rotation[t]) /\ IsCrypto(On(t))
  BY <1>1 DEF KeysInv, Shapes, IsCrypto
<1>3. PICK d \in Dir, o \in Service : In(t, d) /\ rotation[t].on = o
  BY <1>1, <1>2 DEF In
<1>4. On(t) = service[o] /\ service[o].dir = d /\ IsCrypto(service[o])
  BY <1>2, <1>3 DEF In, On
<1> DEFINE p == service[o].previous
           q == retired[d]
           n == Len(p)
<1>5. /\ rotation' = [rotation EXCEPT ![t] = rotation'[t]]
      /\ rotation'[t] = rotation[t]
      /\ UNCHANGED <<keysDir, current, signer, token, drawn, retired, flaw>>
      /\ n > service[o].limit
  BY <1>4, Zenon DEF Prune, OverLimit, runtime, history, KeysInv, Shapes
<1>6. /\ service' = [service EXCEPT ![o] = service'[o]]
      /\ service'[o].dir = d /\ service'[o].limit = service[o].limit
      /\ service'[o].previous = SubSeq(p, 1, n - 1)
  BY <1>3, <1>4, Zenon DEF Prune, KeysInv, Shapes, IsCrypto
<1>7. /\ disk' = [disk EXCEPT ![d] = disk'[d]]
      /\ disk'[d].archive = [disk[d].archive EXCEPT ![p[n].kid] = None]
  <2>1. disk' = [disk EXCEPT ![d].archive[p[n].kid] = None]
    BY <1>4 DEF Prune
  <2>2. disk = [e \in Dir |-> disk[e]] /\ IsFiles(disk[d])
    BY DEF KeysInv, Shapes
  <2>3. disk'[d] = [disk[d] EXCEPT !.archive[p[n].kid] = None] /\ disk' = [disk EXCEPT ![d] = disk'[d]]
    <3> HIDE DEF p, n
    <3> QED BY <2>1, <2>2
  <2> HIDE DEF p, n
  <2> QED BY <2>2, <2>3 DEF IsFiles
<1>8. IsCrypto(service'[o])
  <2>1. Rotating(t)' /\ On(t)' = service'[o]
    BY <1>1, <1>3, <1>5 DEF Rotating, On
  <2> QED BY <2>1 DEF KeysInv, Shapes
<1>9. retired' = [retired EXCEPT ![d] = retired'[d]]
  BY <1>5 DEF ListInv, ListShapes
<1>10. ASSUME Clean(d) PROVE DirInv(d)'
  <2>1. DirInv(d) /\ RotationList(t) /\ service[o].limit \in {Configured, Default}
    BY <1>3, <1>4, <1>10, LoneRotation
  <2>2. ServiceLists(o, d) /\ Retirees(d) /\ n <= Most + 1
    BY <1>1, <1>3, <1>4, <2>1 DEF RotationList, Early, DirInv
  <2>3. p \in Seq(Entries) /\ q \in Seq(Key)
    BY <2>2 DEF ServiceLists, Retirees
  <2>4. n \in Nat /\ Len(q) \in Nat /\ n <= Len(q) /\ Most \in Nat
    BY <2>2, <2>3, KeysAssumption DEF ServiceLists, Covers, Most
  <2>5. Least \in Nat /\ n > Least
    <3>1. service[o].limit \in Nat /\ Least \in Nat /\ Least <= service[o].limit
      BY <2>1, Limits
    <3> HIDE DEF n
    <3> QED BY <1>5, <2>4, <3>1
  <2>6. p[n] = Entry(q[n]) /\ q[n] \in Key
    <3>1. n \in 1..n /\ n \in 1..Len(q)
      BY <2>4, <2>5
    <3> QED BY <2>2, <2>3, <3>1 DEF ServiceLists
  <2>7. disk'[d].archive = [disk[d].archive EXCEPT ![q[n]] = None]
    BY <1>7, <2>6 DEF Entry
  <2>8. disk'[d].archive = [k \in Key |-> disk'[d].archive[k]]
    BY <2>1, <2>7 DEF DirInv
  <2> HIDE DEF p, q, n
  <2>9. /\ service'[o].previous \in Seq(Entries) /\ Len(service'[o].previous) = n - 1
        /\ \A i \in 1..n - 1 : service'[o].previous[i] = p[i]
    <3>1. n = Len(p) /\ n - 1 \in 0..n
      BY <2>4, <2>5 DEF n
    <3> QED BY <1>6, <2>3, <2>4, <3>1, SubSeqProperties
  <2>10. ServiceLists(o, d)'
    <3>1. ~(Len(service[o].previous)' < Least) /\ Len(service[o].previous)' <= Len(retired[d])'
      BY <1>5, <2>4, <2>5, <2>9 DEF q
    <3>2. ASSUME NEW i \in 1..n - 1
          PROVE  /\ disk'[d].archive[q[i]] = q[i]
                 /\ service'[o].previous[i] = Entry(q[i])
      <4>1. i \in 1..n /\ i \in 1..Len(q) /\ n \in 1..Len(q) /\ i # n
        BY <2>4, <2>5
      <4>2. q[i] # q[n] /\ q[i] \in Key
        BY <2>2, <2>3, <4>1 DEF Retirees, q
      <4>3. disk[d].archive[q[i]] = q[i] /\ p[i] = Entry(q[i])
        BY <2>2, <4>1 DEF ServiceLists, Archived, p, q, n
      <4>4. disk'[d].archive[q[i]] = disk[d].archive[q[i]]
        BY <2>1, <2>7, <4>2 DEF DirInv
      <4> QED BY <2>9, <4>3, <4>4
    <3>3. Covers(Len(service[o].previous), d)'
      BY <3>1 DEF Covers
    <3>4. Archived(Len(service[o].previous), d)'
      BY <1>5, <2>9, <3>2 DEF Archived, q
    <3>5. \A i \in 1..Len(service'[o].previous) : service'[o].previous[i] = Entry(retired'[d][i])
      BY <1>5, <2>9, <3>2 DEF q
    <3> QED BY <2>9, <3>3, <3>4, <3>5 DEF ServiceLists, Entry
  <2>11. Retirees(d)'
    BY <1>5, <2>2 DEF Retirees
  <2>12. \A k : Known(d, k) => IsRetired(d, k)'
    BY <1>1, <1>3, <1>5 DEF Known, Ahead, IsRetired, Early
  <2>13. Len(service'[o].previous) <= Most + 1
    BY <2>2, <2>4, <2>9
  <2>14. rotation'[t].at = "prune" /\ rotation'[t].at \notin Early \cup {"idle"}
    BY <1>1, <1>5 DEF Early
  <2> QED BY <1>3, <1>5, <1>6, <1>10, <2>8, <2>10, <2>11, <2>12, <2>13, <2>14, AheadStep
<1> QED BY <1>3, <1>5, <1>6, <1>7, <1>8, <1>9, <1>10, ListStep DEF Clean

(* keys.json is written: it says what the service has.                     *)
LEMMA SaveListKeepsLists ==
  ASSUME KeysInv, ListInv, KeysInv', NEW t \in Thread, SaveList(t)
  PROVE  ListInv'
<1>1. Rotating(t) /\ rotation[t].at = "list"
  BY DEF SaveList, Rotating
<1>2. rotation[t].on \in Service /\ On(t).dir \in Dir /\ IsRotation(rotation[t]) /\ IsCrypto(On(t))
  BY <1>1 DEF KeysInv, Shapes, IsCrypto
<1>3. PICK d \in Dir, o \in Service : In(t, d) /\ rotation[t].on = o
  BY <1>1, <1>2 DEF In
<1>4. On(t) = service[o] /\ service[o].dir = d /\ IsCrypto(service[o])
  BY <1>2, <1>3 DEF In, On
<1> DEFINE p == service[o].previous
           new == rotation[t].new
<1>5. /\ rotation' = [rotation EXCEPT ![t] = rotation'[t]] /\ rotation'[t].at = "idle"
      /\ \A u \in Thread : u # t => rotation'[u] = rotation[u]
      /\ UNCHANGED <<keysDir, service, current, signer, token, drawn, retired>>
      /\ \A e \in Dir : e # d => flaw'[e] = flaw[e]
      /\ flaw'[d] = IF rotation[t].alone THEN flaw[d] \ {"pair", "certificate"} ELSE flaw[d]
  BY <1>4 DEF SaveList, Idle, runtime, history, KeysInv, Shapes
<1>6. /\ disk' = [disk EXCEPT ![d] = disk'[d]]
      /\ disk'[d] = [disk[d] EXCEPT !.listed = [i \in DOMAIN p |-> p[i].kid]]
  BY <1>4, Zenon DEF SaveList, Listed, KeysInv, Shapes
<1>7. /\ disk'[d].private = disk[d].private /\ disk'[d].public = disk[d].public
      /\ disk'[d].kid = disk[d].kid /\ disk'[d].certificate = disk[d].certificate
      /\ disk'[d].archive = disk[d].archive
      /\ disk'[d].listed = [i \in DOMAIN p |-> p[i].kid]
  <2>1. IsFiles(disk[d])
    BY DEF KeysInv, Shapes
  <2> QED BY <1>6, <2>1 DEF IsFiles
<1>8. service' = [service EXCEPT ![o] = service'[o]] /\ retired' = [retired EXCEPT ![d] = retired'[d]]
  BY <1>5 DEF KeysInv, Shapes, ListInv, ListShapes
<1>9. ASSUME Clean(d) PROVE DirInv(d)'
  <2>1. /\ DirInv(d) /\ RotationList(t) /\ Progress(t) /\ rotation[t].alone /\ HasFiles(disk[d])
        /\ \A u \in Thread : In(u, d) => u = t
        /\ service[current].dir = d => current = o
    BY <1>3, <1>9, LoneRotation
  <2>2. /\ ServiceLists(o, d) /\ Len(p) <= Most /\ new \in drawn /\ ~IsRetired(d, new)
    BY <1>1, <1>3, <1>4, <2>1 DEF RotationList, Early
  <2>3. /\ disk[d].private = new /\ disk[d].public = new /\ disk[d].kid = new
        /\ disk[d].certificate = new
        /\ service[o].private = new /\ service[o].public = new /\ service[o].kid = new
        /\ service[o].certificate = new
    BY <1>1, <1>4, <2>1 DEF Progress, Reached
  <2>4. /\ Covers(Len(p), d) /\ Archived(Len(p), d) /\ p \in Seq(Entries)
        /\ \A i \in 1..Len(p) : p[i] = Entry(retired[d][i])
    BY <2>2 DEF ServiceLists
  <2>5. /\ disk'[d].listed \in Seq(Key) /\ Len(disk'[d].listed) = Len(p)
        /\ \A i \in 1..Len(p) : disk'[d].listed[i] = retired[d][i]
    <3>1. Len(p) \in Nat /\ \A i \in 1..Len(p) : p[i].kid = retired[d][i] /\ p[i].kid \in Key
      <4>1. Len(p) \in Nat /\ \A i \in 1..Len(p) : p[i] \in Entries
        BY <2>4
      <4>2. ASSUME NEW i \in 1..Len(p) PROVE p[i].kid = retired[d][i] /\ p[i].kid \in Key
        <5>1. p[i] = Entry(retired[d][i]) /\ p[i] \in Entries
          BY <2>4, <4>1
        <5> HIDE DEF p
        <5> QED BY <5>1 DEF Entry, Entries
      <4> QED BY <4>1, <4>2
    <3>2. disk'[d].listed = [i \in 1..Len(p) |-> p[i].kid]
      BY <1>7, <2>4
    <3> HIDE DEF p
    <3> QED BY <3>1, <3>2
  <2>6. FilesList(d)'
    <3>1. Covers(Len(disk[d].listed), d)' /\ Archived(Len(disk[d].listed), d)'
      BY <1>5, <1>7, <2>4, <2>5 DEF Covers, Archived
    <3>2. \A i \in 1..Len(disk'[d].listed) : disk'[d].listed[i] = retired'[d][i]
      BY <1>5, <2>5
    <3> QED BY <2>2, <2>5, <3>1, <3>2 DEF FilesList
  <2>7. /\ \A u \in Thread : ~In(u, d)'
        /\ \A k : IsRetired(d, k)' <=> IsRetired(d, k)
    <3>1. ASSUME NEW u \in Thread, In(u, d)' PROVE FALSE
      <4>1. u # t
        BY <1>5, <3>1 DEF In, Rotating
      <4>2. In(u, d)
        BY <1>5, <3>1, <4>1 DEF In, Rotating, On
      <4> QED BY <2>1, <4>1, <4>2
    <3> QED BY <1>5, <3>1 DEF IsRetired
  <2>8. ~Ahead(d)' /\ Retirees(d)' /\ disk'[d].archive = [k \in Key |-> disk'[d].archive[k]]
    BY <1>5, <1>7, <2>1, <2>7 DEF Ahead, DirInv, Retirees
  <2>9. Whole(d)'
    BY <1>5, <1>7, <2>1, <2>2, <2>3, <2>6, <2>7 DEF Whole, HasFiles
  <2>10. Agrees(o, d)'
    <3>1. ServiceLists(o, d)'
      BY <1>5, <1>7, <2>2 DEF ServiceLists, Covers, Archived
    <3> QED BY <1>5, <1>7, <2>3, <2>5, <3>1 DEF Agrees
  <2>11. \A k : Known(d, k) => Known(d, k)'
    BY <1>1, <1>3, <2>7 DEF Known, Ahead, Early
  <2>12. ASSUME NEW s \in Service, Live(s)', service'[s].dir = d PROVE ServiceKeys(s, d)'
    <3>1. Live(s) /\ service[s].dir = d
      BY <1>1, <1>3, <1>5, <1>8, <2>12, LiveStep
    <3>2. CASE s # o
      BY <1>3, <1>5, <1>9, <2>11, <3>1, <3>2, OtherServices
    <3>3. CASE s = o
      <4>1. p \in Seq(Entries) /\ Len(p) <= Most /\ ServicePair(o) /\ service[o].kid = new
        BY <2>2, <2>3, <2>4 DEF ServicePair
      <4>2. disk'[d].kid = new
        BY <1>7, <2>3
      <4>3. Known(d, service[o].kid)'
        BY <1>5, <2>8, <4>1, <4>2 DEF Known
      <4> QED BY <1>5, <3>3, <4>1, <4>3 DEF ServiceKeys, ServicePair
    <3> QED BY <3>2, <3>3
  <2>13. TokenKnown(d)'
    BY <1>5, <2>1, <2>11, KnownTokens DEF DirInv
  <2>14. ~Ahead(d)' /\ service'[current'].dir = d => Agrees(current, d)'
    <3>1. service[current].dir = d => current' = o
      BY <1>5, <2>1
    <3> QED BY <1>5, <2>10, <3>1 DEF Agrees, ServiceLists
  <2>15. flaw'[d] = {}
    BY <1>5, <2>1 DEF DirInv
  <2> QED BY <2>7, <2>8, <2>9, <2>12, <2>13, <2>14, <2>15 DEF DirInv
<1>10. Clean(d)' => Clean(d)
  BY <1>5 DEF Clean
<1> QED BY <1>3, <1>4, <1>5, <1>6, <1>8, <1>9, <1>10, ListStep

(* Steps that touch neither files nor services nor rotations.              *)
LEMMA OthersKeepLists ==
  ASSUME KeysInv, ListInv,
         UNCHANGED <<disk, service, current, rotation, drawn, retired, flaw>>,
         signer' \in {signer, current},
         token' = token \/ \A d \in Dir : Clean(d) => TokenKnown(d)'
  PROVE  ListInv'
<1>1. \A t \in Thread : Rotating(t)' <=> Rotating(t)
  BY DEF Rotating
<1>2. \A s \in Service : Live(s)' => Live(s)
  BY <1>1 DEF Live, Held
<1>3. ListShapes'
  BY <1>2 DEF ListInv, ListShapes, KeysInv, Shapes
<1>4. ASSUME NEW e \in Dir, Clean(e)' PROVE DirInv(e)'
  <2>1. Clean(e) /\ DirInv(e)
    BY <1>4 DEF Clean, ListInv
  <2>2. \A t \in Thread : In(t, e)' <=> In(t, e)
    BY <1>1 DEF In, On
  <2>3. current' \in Service
    BY DEF KeysInv, Shapes
  <2> QED BY <1>2, <2>1, <2>2, <2>3, ListFrame
<1> QED BY <1>3, <1>4 DEF ListInv

(* A token signed while nobody rotates has the key that JWKS has.          *)
LEMMA SignKeepsLists ==
  ASSUME KeysInv, ListInv, Sign
  PROVE  ListInv'
<1>1. PICK s \in Service : s = signer
  BY DEF Sign, ListInv, ListShapes
<1>2. Live(s) /\ IsCrypto(service[s])
  BY <1>1 DEF Live, Held, ListInv, ListShapes
<1>3. PICK d \in Dir : d = service[s].dir
  BY <1>2 DEF IsCrypto
<1>4. /\ UNCHANGED <<disk, service, current, signer, rotation, drawn, retired, flaw>>
      /\ \/ /\ Under(d) = {} /\ flaw[d] = {}
            /\ token' = [kid |-> service[s].kid, key |-> service[s].private, dir |-> d]
         \/ token' = None
  BY <1>1, <1>3 DEF Sign, history
<1>5. ASSUME NEW e \in Dir, Clean(e) PROVE TokenKnown(e)'
  <2> SUFFICES ASSUME token' # None, token'.dir = e
               PROVE  /\ token'.kid = token'.key /\ token'.key \in Key
                      /\ Known(e, token.key)'
    BY DEF TokenKnown
  <2>1. /\ Under(d) = {} /\ e = d
        /\ token'.kid = service[s].kid /\ token'.key = service[s].private
    BY <1>4
  <2>2. ServiceKeys(s, d)
    <3>1. d \in Dir /\ DirInv(d)
      BY <1>3, <1>5, <2>1 DEF ListInv
    <3> QED BY <1>2, <1>3, <3>1 DEF DirInv
  <2>3. ~Changing(s)
    BY <1>3, <2>1 DEF Changing, Under
  <2>4. ServicePair(s) /\ Known(d, service[s].kid)
    BY <2>2, <2>3 DEF ServiceKeys
  <2>5. token'.kid = token'.key /\ token'.key = service[s].kid /\ service[s].kid \in Key
    BY <1>2, <2>1, <2>4 DEF ServicePair, IsCrypto
  <2>6. Ahead(d)' <=> Ahead(d)
    BY <1>4 DEF Ahead, In, Rotating, On
  <2>7. Known(d, token.key)'
    BY <1>4, <2>4, <2>5, <2>6 DEF Known, IsRetired
  <2> QED BY <2>1, <2>5, <2>7 DEF Known, IsRetired, Ahead, In, Rotating, On
<1> QED BY <1>4, <1>5, OthersKeepLists

(* A rotation begins: with nobody else in the directory, files and service *)
(* agree; otherwise nothing is claimed of it any more.                     *)
LEMMA RotateKeepsLists ==
  ASSUME KeysInv, ListInv, KeysInv', NEW t \in Thread, Rotate(t)
  PROVE  ListInv'
<1>1. PICK d \in Dir : d = service[current].dir
  BY DEF KeysInv, Shapes, IsCrypto
<1> DEFINE r == [at |-> "archive", on |-> current, old |-> service[current].kid,
                 new |-> None, alone |-> Under(d) = {}]
<1>2. /\ ~Rotating(t)
      /\ rotation' = [Overlapped(d, Under(d)) EXCEPT ![t] = r]
      /\ flaw' = FlawIfOverlapped(d)
      /\ UNCHANGED <<keysDir, current, signer, token, disk, service, drawn, retired>>
  BY <1>1 DEF Rotate, runtime
<1>3. current \in Service /\ IsCrypto(service[current]) /\ HasFiles(disk[d])
  BY <1>1 DEF KeysInv, Shapes
<1>4. /\ rotation'[t] = r
      /\ \A u \in Thread : u # t => rotation'[u] = Overlapped(d, Under(d))[u]
  BY <1>2 DEF Overlapped
<1>5. /\ \A e \in Dir : e # d => flaw'[e] = flaw[e]
      /\ (\A u \in Thread : ~In(u, d)) => flaw' = flaw
      /\ \A u \in Thread : u # t =>
           /\ rotation'[u].at = rotation[u].at /\ rotation'[u].on = rotation[u].on
           /\ ~In(u, d) => rotation'[u] = rotation[u]
  BY <1>2, <1>4, OverlapMarks
<1>6. Clean(d)' => Clean(d) /\ \A u \in Thread : ~In(u, d)
  <2>1. flaw = [e \in Dir |-> flaw[e]]
    BY DEF KeysInv, Shapes
  <2>2. Clean(d)' => Under(d) = {}
    BY <1>2, <2>1 DEF Clean, FlawIfOverlapped
  <2>3. Clean(d)' => \A u \in Thread : ~In(u, d)
    BY <2>2 DEF Under, In, On
  <2> QED BY <1>5, <2>3 DEF Clean
<1>7. /\ r.at = "archive" /\ r.on = current /\ r.old = service[current].kid
  OBVIOUS
<1> HIDE DEF r
<1>8. /\ Rotating(t)' /\ On(t)' = service[current] /\ In(t, d)' /\ rotation'[t].on = current
      /\ \A u \in Thread : u # t => /\ Rotating(u)' <=> Rotating(u)
                                    /\ On(u)' = On(u)
                                    /\ \A e : In(u, e)' <=> In(u, e)
  <2>1. Rotating(t)' /\ On(t)' = service[current] /\ rotation'[t].on = current
    BY <1>2, <1>4, <1>7 DEF Rotating, On
  <2>2. In(t, d)'
    BY <1>1, <2>1 DEF In
  <2>3. \A u \in Thread : u # t => (Rotating(u)' <=> Rotating(u)) /\ On(u)' = On(u)
    BY <1>2, <1>5 DEF Rotating, On
  <2> QED BY <2>1, <2>2, <2>3 DEF In
<1>9. \A s \in Service : Live(s)' => Live(s)
  BY <1>2, <1>5, <1>8 DEF Live, Held, Rotating
<1>10. ListShapes'
  BY <1>2, <1>9 DEF ListInv, ListShapes
<1>11. ASSUME NEW e \in Dir, e # d, Clean(e)' PROVE DirInv(e)'
  <2>1. Clean(e) /\ DirInv(e) /\ flaw'[e] = flaw[e]
    BY <1>5, <1>11 DEF Clean, ListInv
  <2>2. ~In(t, e)' /\ ~In(t, e)
    BY <1>1, <1>2, <1>8, <1>11 DEF In
  <2>3. \A u \in Thread : In(u, e)' <=> In(u, e)
    BY <1>8, <2>2
  <2>4. \A u \in Thread : In(u, e) => rotation'[u] = rotation[u]
    BY <1>5, <1>11, <2>2 DEF In
  <2> QED BY <1>2, <1>3, <1>9, <2>1, <2>3, <2>4, ListFrame
<1>12. ASSUME Clean(d)' PROVE DirInv(d)'
  <2>1. /\ Clean(d) /\ DirInv(d) /\ flaw' = flaw
        /\ \A u \in Thread : ~In(u, d) /\ (u # t => ~In(u, d)')
    BY <1>5, <1>6, <1>8, <1>12 DEF ListInv
  <2>2. ~Ahead(d) /\ ~Ahead(d)'
    BY <1>4, <1>7, <2>1 DEF Ahead, Early
  <2>3. \A k : (IsRetired(d, k)' <=> IsRetired(d, k)) /\ (Known(d, k)' <=> Known(d, k))
    BY <1>2, <2>2 DEF IsRetired, Known
  <2>4. Agrees(current, d)'
    <3>1. Agrees(current, d)
      BY <1>1, <2>1, <2>2 DEF DirInv
    <3> QED BY <1>2, <3>1 DEF Agrees, ServiceLists, Covers, Archived
  <2>5. Retirees(d)' /\ disk'[d].archive = [k \in Key |-> disk'[d].archive[k]]
    BY <1>2, <2>1 DEF DirInv, Retirees
  <2>6. (Untouched(d) \/ Whole(d))'
    BY <1>2, <2>1, <2>2, <2>3
       DEF DirInv, Untouched, Whole, HasFiles, FilesList, Covers, Archived
  <2>7. RotationList(t)'
    <3>1. rotation'[t].old = disk'[d].kid
      BY <1>2, <1>4, <1>7, <2>4 DEF Agrees
    <3>2. On(t)'.dir = d /\ rotation'[t].at = "archive"
      BY <1>1, <1>4, <1>7, <1>8
    <3>3. Agrees(rotation[t].on, On(t).dir)'
      BY <1>2, <1>8, <2>4, <3>2 DEF Agrees, ServiceLists, Covers, Archived
    <3> QED BY <3>1, <3>2, <3>3 DEF RotationList, Early
  <2>8. ASSUME NEW s \in Service, Live(s)', service'[s].dir = d PROVE ServiceKeys(s, d)'
    <3>1. ServiceKeys(s, d) /\ service'[s] = service[s]
      BY <1>2, <1>9, <2>1, <2>8 DEF DirInv
    <3>2. ~Changing(s)
      BY <1>2, <2>1, <2>8 DEF Changing, In, On
    <3>3. \A k : k = service[s].kid => Known(d, k)'
      BY <2>3, <3>1, <3>2 DEF ServiceKeys
    <3>4. Known(d, service[s].kid)'
      BY <1>2, <3>3 DEF Known, IsRetired
    <3> QED BY <3>1, <3>2, <3>4 DEF ServiceKeys, ServicePair
  <2>9. TokenKnown(d)'
    BY <1>2, <2>1, <2>3, KnownTokens DEF DirInv
  <2>10. service'[current'].dir = d => Agrees(current, d)'
    BY <2>4
  <2> QED BY <1>2, <2>1, <2>5, <2>6, <2>7, <2>8, <2>9, <2>10 DEF DirInv
<1> QED BY <1>10, <1>11, <1>12 DEF ListInv

(* The loop of _load_previous_keys keeps every kid of keys.json whose file *)
(* is there, in order: all of them, here.  The loop is followed up to the  *)
(* smallest index at which it would go wrong.                              *)
LEMMA PreviousOfAll ==
  ASSUME NEW files, files.listed \in Seq(Key),
         \A i \in 1..Len(files.listed) : files.archive[files.listed[i]] \in Key
  PROVE  PreviousOf(files) =
           [i \in 1..Len(files.listed) |->
              [kid |-> files.listed[i], key |-> files.archive[files.listed[i]]]]
<1> DEFINE n == Len(files.listed)
           entry(i) == [kid |-> files.listed[i], key |-> files.archive[files.listed[i]]]
           prefix(i) == [j \in 1..i |-> entry(j)]
           next(g, i) == IF i = 0 THEN << >>
                         ELSE IF files.archive[files.listed[i]] = None THEN g[i - 1]
                              ELSE Append(g[i - 1], entry(i))
           body(g) == [i \in 0..n |-> next(g, i)]
           all == [i \in 0..n |-> prefix(i)]
           kept == CHOOSE g : g = body(g)
<1>1. n \in Nat /\ PreviousOf(files) = kept[n]
  BY DEF PreviousOf
<1>2. \A i \in 0..n : prefix(i) \in Seq(Entries) /\ Len(prefix(i)) = i
  <2> SUFFICES ASSUME NEW i \in 0..n PROVE prefix(i) \in Seq(Entries) /\ Len(prefix(i)) = i
    OBVIOUS
  <2>1. \A j \in 1..i : entry(j) \in Entries
    BY <1>1 DEF Entries
  <2>2. prefix(i) \in [1..i -> Entries]
    BY <2>1
  <2> QED BY <2>2, <1>1
<1>3. \A i \in 1..n : prefix(i) = Append(prefix(i - 1), entry(i))
  OBVIOUS
<1>4. all = body(all)
  <2> SUFFICES ASSUME NEW i \in 0..n PROVE prefix(i) = next(all, i)
    BY Zenon
  <2>1. CASE i = 0
    <3>1. prefix(0) = << >>
      BY <1>2
    <3> QED BY <2>1, <3>1
  <2>2. CASE i # 0
    <3>1. i \in 1..n /\ i - 1 \in 0..n
      BY <1>1, <2>2
    <3>2. all[i - 1] = prefix(i - 1)
      BY <3>1
    <3>3. files.archive[files.listed[i]] # None
      BY <3>1, KeysAssumption
    <3> QED BY <1>3, <2>2, <3>1, <3>2, <3>3, Zenon
  <2> QED BY <2>1, <2>2
<1>5. kept = body(kept)
  <2> HIDE DEF body, all
  <2> QED BY <1>4, Zenon
<1>6. \A i \in 0..n : kept[i] = prefix(i)
  <2> DEFINE bad == {i \in 0..n : kept[i] # prefix(i)}
  <2> SUFFICES ASSUME bad # {} PROVE FALSE
    OBVIOUS
  <2>1. PICK i \in bad : \A j \in bad : i <= j
    <3>1. bad \subseteq Nat
      BY <1>1
    <3> HIDE DEF bad
    <3> QED BY <3>1, SmallestOf
  <2>2. i \in 0..n /\ kept[i] # prefix(i) /\ kept[i] = next(kept, i)
    <3> HIDE DEF kept, prefix, next
    <3> QED BY <1>5
  <2>3. i # 0
    <3> SUFFICES ASSUME i = 0 PROVE FALSE
      OBVIOUS
    <3>1. prefix(i) = << >>
      BY <1>2
    <3>2. next(kept, i) = << >>
      <4> HIDE DEF kept
      <4> QED OBVIOUS
    <3> HIDE DEF kept, next, prefix
    <3> QED BY <2>2, <3>1, <3>2
  <2>4. i \in 1..n /\ i - 1 \in 0..n /\ kept[i - 1] = prefix(i - 1)
    <3> HIDE DEF kept, prefix
    <3> QED BY <1>1, <2>1, <2>2, <2>3
  <2>5. files.archive[files.listed[i]] # None
    BY <2>4, KeysAssumption, Zenon
  <2> HIDE DEF kept, prefix, entry
  <2> QED BY <1>3, <2>2, <2>3, <2>4, <2>5
<1>7. kept[n] = prefix(n)
  <2> HIDE DEF kept, prefix, n
  <2>1. n \in 0..n
    BY <1>1
  <2> QED BY <1>6, <2>1
<1> HIDE DEF kept
<1> QED BY <1>1, <1>7, Zenon

(* The previous keys of files whose keys are their kids.                   *)
LEMMA LoadedPrevious ==
  ASSUME NEW f, f.listed \in Seq(Key),
         \A i \in 1..Len(f.listed) : f.archive[f.listed[i]] = f.listed[i]
  PROVE  /\ PreviousOf(f) = [i \in 1..Len(f.listed) |-> Entry(f.listed[i])]
         /\ PreviousOf(f) \in Seq(Entries) /\ Len(PreviousOf(f)) = Len(f.listed)
<1>1. \A i \in 1..Len(f.listed) : f.listed[i] \in Key
  OBVIOUS
<1>2. PreviousOf(f) =
        [i \in 1..Len(f.listed) |-> [kid |-> f.listed[i], key |-> f.archive[f.listed[i]]]]
  BY <1>1, PreviousOfAll
<1>3. PreviousOf(f) = [i \in 1..Len(f.listed) |-> Entry(f.listed[i])]
  BY <1>2 DEF Entry
<1>4. Len(f.listed) \in Nat /\ \A i \in 1..Len(f.listed) : Entry(f.listed[i]) \in Entries
  BY <1>1 DEF Entry, Entries
<1> HIDE DEF PreviousOf
<1> QED BY <1>3, <1>4

(* A service made of whole files agrees with them.                         *)
LEMMA LoadedAgrees ==
  ASSUME NEW d \in Dir, NEW s \in Service, NEW limit,
         Whole(d)', ~Ahead(d)', service'[s] = Loaded(d, disk'[d], limit)
  PROVE  Agrees(s, d)' /\ ServiceKeys(s, d)'
<1> DEFINE f == disk'[d]
<1>1. /\ service'[s].private = f.private /\ service'[s].public = f.public
      /\ service'[s].kid = f.kid /\ service'[s].certificate = f.certificate
      /\ service'[s].previous = PreviousOf(f)
  BY DEF Loaded
<1>2. /\ f.listed \in Seq(Key) /\ Len(f.listed) <= Most
      /\ Covers(Len(disk[d].listed), d)' /\ Archived(Len(disk[d].listed), d)'
      /\ \A i \in 1..Len(f.listed) : f.listed[i] = retired'[d][i]
      /\ f.private = f.kid /\ f.public = f.kid
  BY DEF Whole, FilesList
<1>3. \A i \in 1..Len(f.listed) : f.archive[f.listed[i]] = f.listed[i]
  BY <1>2 DEF Archived
<1>4. /\ PreviousOf(f) = [i \in 1..Len(f.listed) |-> Entry(f.listed[i])]
      /\ PreviousOf(f) \in Seq(Entries) /\ Len(PreviousOf(f)) = Len(f.listed)
  BY <1>2, <1>3, LoadedPrevious
<1>5. ServiceLists(s, d)'
  <2>1. Covers(Len(service[s].previous), d)' /\ Archived(Len(service[s].previous), d)'
    BY <1>1, <1>2, <1>4 DEF Covers, Archived
  <2>2. \A i \in 1..Len(service'[s].previous) : service'[s].previous[i] = Entry(retired'[d][i])
    BY <1>1, <1>2, <1>4
  <2>3. service'[s].previous \in Seq(Entries)
    BY <1>1, <1>4
  <2> QED BY <2>1, <2>2, <2>3 DEF ServiceLists, Entry, Entries
<1>6. Agrees(s, d)'
  BY <1>1, <1>4, <1>5 DEF Agrees
<1>7. ServiceKeys(s, d)'
  <2>1. Known(d, service[s].kid)'
    BY <1>1 DEF Known
  <2> QED BY <1>1, <1>2, <1>4, <2>1 DEF ServiceKeys, ServicePair, Entries
<1> QED BY <1>6, <1>7

(* What _ensure_keys leaves in a directory where nothing went wrong.       *)
LEMMA EnsuredLists ==
  ASSUME KeysInv, ListInv, NEW d \in Dir, Clean(d), ~Ahead(d), NEW k \in Drawable(d),
         disk'[d] = Ensured(d, k), drawn' = drawn \cup {k}, retired'[d] = retired[d]
  PROVE  /\ Whole(d)' /\ Retirees(d)'
         /\ disk'[d].archive = [j \in Key |-> disk'[d].archive[j]]
         /\ \A j \in Key : IsRetired(d, j) \/ j = disk[d].kid =>
                            IsRetired(d, j)' \/ j = disk'[d].kid
<1>1. DirInv(d)
  BY DEF ListInv
<1>2. /\ k \in Key /\ HasFiles(disk'[d])
      /\ disk'[d].archive = disk[d].archive /\ disk'[d].listed = disk[d].listed
  <2>1. /\ k \in Key /\ HasFiles(Ensured(d, k))
        /\ Ensured(d, k) = disk[d] \/ Ensured(d, k) = Generated(disk[d], k)
    BY EnsuredFiles
  <2> QED BY <2>1 DEF Generated
<1>3. Retirees(d)' /\ \A j : IsRetired(d, j)' <=> IsRetired(d, j)
  BY <1>1 DEF DirInv, Retirees, IsRetired
<1>4. disk'[d].archive = [j \in Key |-> disk'[d].archive[j]]
  BY <1>1, <1>2 DEF DirInv
<1>5. CASE Whole(d)
  <2>1. disk'[d] = disk[d]
    BY <1>5, KeysAssumption DEF Whole, HasFiles, Incomplete, Ensured
  <2>2. FilesList(d)'
    BY <1>5, <2>1 DEF Whole, FilesList, Covers, Archived
  <2> QED BY <1>2, <1>3, <1>4, <1>5, <2>1, <2>2 DEF Whole
<1>6. CASE Untouched(d)
  <2>1. Incomplete(d)
    BY <1>6 DEF Untouched, Incomplete
  <2>2. disk'[d] = Generated(disk[d], k)
    BY <2>1 DEF Ensured
  <2>3. /\ disk'[d].private = k /\ disk'[d].public = k /\ disk'[d].kid = k
        /\ disk'[d].certificate = k
    BY <2>2 DEF Generated
  <2>4. FilesList(d)'
    <3>1. disk'[d].listed = << >> /\ retired'[d] = << >> /\ Least \in Nat /\ Most \in Nat
      BY <1>2, <1>6, KeysAssumption DEF Untouched, Least, Most
    <3>2. Covers(Len(disk[d].listed), d)' /\ Archived(Len(disk[d].listed), d)'
      BY <3>1 DEF Covers, Archived
    <3> QED BY <3>1, <3>2 DEF FilesList
  <2>5. ~IsRetired(d, disk[d].kid)'
    BY <1>6 DEF Untouched, IsRetired
  <2>6. Whole(d)'
    BY <1>2, <2>3, <2>4, <2>5 DEF Whole
  <2>7. disk[d].kid \notin Key
    BY <1>6, KeysAssumption DEF Untouched
  <2> QED BY <1>3, <1>4, <2>6, <2>7
<1> QED BY <1>1, <1>3, <1>4, <1>5, <1>6 DEF DirInv

(* A rotation may be cut short as long as it has written nothing but the   *)
(* file of the old key.                                                    *)
LEMMA RestartKeepsLists ==
  ASSUME KeysInv, ListInv, KeysInv', Restart
  PROVE  ListInv'
<1>1. PICK k \in Drawable(keysDir) :
        /\ disk' = [disk EXCEPT ![keysDir] = Ensured(keysDir, k)]
        /\ service' = [o \in Service |->
             IF o = current THEN Loaded(keysDir, Ensured(keysDir, k), Configured) ELSE None]
        /\ drawn' = drawn \cup {k}
        /\ rotation' = [t \in Thread |-> Idle]
        /\ signer' = None
        /\ flaw' = [d \in Dir |-> flaw[d] \cup Interrupted(d)]
        /\ retired' = [d \in Dir |-> IF "list" \in flaw'[d] THEN << >> ELSE retired[d]]
        /\ UNCHANGED <<keysDir, current, token>>
  BY DEF Restart
<1>2. keysDir \in Dir /\ current \in Service
  BY DEF KeysInv, Shapes
<1>3. /\ disk'[keysDir] = Ensured(keysDir, k)
      /\ \A d \in Dir : d # keysDir => disk'[d] = disk[d]
      /\ service'[current] = Loaded(keysDir, disk'[keysDir], Configured)
  BY <1>1, <1>2 DEF KeysInv, Shapes
<1>4. service'[current].dir = keysDir /\ service'[current].limit = Configured
  BY <1>3 DEF Loaded
<1>5. \A t \in Thread : ~Rotating(t)'
  BY <1>1 DEF Idle, Rotating
<1>6. ASSUME NEW s \in Service, Live(s)' PROVE s = current
  <2>1. ~Held(s)'
    BY <1>1, <1>5, KeysAssumption DEF Held
  <2> QED BY <1>1, <1>6, <2>1 DEF Live
<1>7. ListShapes'
  <2>1. IsCrypto(service[current])'
    BY DEF KeysInv, Shapes
  <2>2. retired' = [d \in Dir |-> retired'[d]] /\ signer' \in Service \cup {None}
    BY <1>1
  <2>3. ASSUME NEW s \in Service, Live(s)'
        PROVE  IsCrypto(service[s])' /\ service'[s].limit \in {Configured, Default}
    <3>1. s = current /\ current' = current
      BY <1>1, <1>6, <2>3
    <3> QED BY <1>4, <2>1, <3>1
  <2> QED BY <2>2, <2>3 DEF ListShapes
<1>8. ASSUME NEW e \in Dir, Clean(e)' PROVE DirInv(e)'
  <2>1. Clean(e) /\ "list" \notin Interrupted(e) /\ retired'[e] = retired[e]
    BY <1>1, <1>8 DEF Clean
  <2>2. \A t \in Thread : In(t, e) => rotation[t].at \in Early
    BY <2>1 DEF Interrupted, In, Under, On, Early
  <2>3. DirInv(e) /\ ~Ahead(e)
    BY <2>1, <2>2 DEF ListInv, Ahead
  <2>4. (\A t \in Thread : ~In(t, e)') /\ ~Ahead(e)'
    BY <1>5 DEF In, Ahead
  <2>5. flaw'[e] = {}
    <3>1. "pair" \notin Interrupted(e) /\ "certificate" \notin Interrupted(e)
      BY <2>2 DEF Interrupted, In, Under, On, Early, AfterPrivate, AfterKid
    <3>2. Interrupted(e) \subseteq {"list", "pair", "certificate"}
      BY DEF Interrupted
    <3> QED BY <1>1, <2>1, <2>3, <3>1, <3>2 DEF DirInv
  <2>6. CASE e # keysDir
    <3>1. disk'[e] = disk[e]
      BY <1>3, <2>6
    <3>2. Retirees(e)' /\ disk'[e].archive = [j \in Key |-> disk'[e].archive[j]]
      BY <1>1, <2>1, <2>3, <3>1 DEF DirInv, Retirees
    <3>3. (Untouched(e) \/ Whole(e))'
      <4>1. Untouched(e) => Untouched(e)'
        BY <2>1, <3>1 DEF Untouched
      <4>2. FilesList(e) => FilesList(e)'
        BY <2>1, <3>1 DEF FilesList, Covers, Archived
      <4>3. ~IsRetired(e, disk[e].kid) => ~IsRetired(e, disk[e].kid)'
        BY <2>1, <3>1 DEF IsRetired
      <4>4. Whole(e) => Whole(e)'
        BY <1>1, <3>1, <4>2, <4>3 DEF Whole, HasFiles
      <4> QED BY <2>3, <4>1, <4>4 DEF DirInv
    <3>4. \A j \in Key : Known(e, j) => Known(e, j)'
      BY <2>1, <2>4, <3>1 DEF Known, IsRetired
    <3>5. TokenKnown(e)'
      BY <1>1, <2>3, <3>4, KnownTokens DEF DirInv
    <3>6. \A s \in Service : ~(Live(s)' /\ service'[s].dir = e)
      BY <1>4, <1>6, <2>6
    <3>7. service'[current'].dir # e
      BY <1>1, <1>4, <2>6
    <3> QED BY <2>4, <2>5, <3>2, <3>3, <3>5, <3>6, <3>7 DEF DirInv
  <2>7. CASE e = keysDir
    <3>1. /\ Whole(e)' /\ Retirees(e)'
          /\ disk'[e].archive = [j \in Key |-> disk'[e].archive[j]]
          /\ \A j \in Key : IsRetired(e, j) \/ j = disk[e].kid =>
                              IsRetired(e, j)' \/ j = disk'[e].kid
      BY <1>1, <1>3, <2>1, <2>3, <2>7, EnsuredLists
    <3>2. Agrees(current, e)' /\ ServiceKeys(current, e)'
      <4>1. service'[current] = Loaded(e, disk'[e], Configured)
        BY <1>3, <2>7
      <4>2. \A s \in Service : s = current => Agrees(s, e)' /\ ServiceKeys(s, e)'
        BY <2>4, <3>1, <4>1, LoadedAgrees
      <4>3. PICK s \in Service : s = current
        BY <1>2
      <4>4. current' = s
        BY <1>1, <4>3
      <4>5. Agrees(s, e)' /\ ServiceKeys(s, e)'
        BY <4>2, <4>3
      <4> QED BY <4>4, <4>5 DEF Agrees, ServiceLists, ServiceKeys, ServicePair, Changing
    <3>3. \A j \in Key : Known(e, j) => Known(e, j)'
      BY <2>4, <3>1 DEF Known
    <3>4. TokenKnown(e)'
      BY <1>1, <2>3, <3>3, KnownTokens DEF DirInv
    <3>5. \A s \in Service : Live(s)' => s = current'
      BY <1>1, <1>6
    <3>6. \A s \in Service : Live(s)' /\ service'[s].dir = e => ServiceKeys(s, e)'
      BY <3>2, <3>5 DEF ServiceKeys, ServicePair, Changing
    <3> QED BY <2>4, <2>5, <3>1, <3>2, <3>4, <3>6 DEF DirInv
  <2> QED BY <2>6, <2>7
<1> QED BY <1>7, <1>8 DEF ListInv

(* A service for another directory, with nobody rotating there.            *)
LEMMA GetCryptoServiceKeepsLists ==
  ASSUME KeysInv, ListInv, KeysInv', GetCryptoService
  PROVE  ListInv'
<1>1. PICK d \in Dir : d = keysDir
  BY DEF KeysInv, Shapes
<1>2. PICK s \in Service, k \in Drawable(d) :
        /\ s # current /\ ~Held(s)
        /\ disk' = [disk EXCEPT ![d] = Ensured(d, k)]
        /\ service' = [o \in Service |->
             IF o = s THEN Loaded(d, Ensured(d, k), Default)
             ELSE IF Held(o) THEN service[o] ELSE None]
        /\ current' = s
        /\ drawn' = drawn \cup {k}
  BY <1>1 DEF GetCryptoService
<1>3. /\ rotation' = Overlapped(d, Under(d))
      /\ flaw' = FlawIfOverlapped(d)
      /\ UNCHANGED <<keysDir, signer, token, retired>>
      /\ service[current].dir # d
  BY <1>1 DEF GetCryptoService
<1>4. /\ disk'[d] = Ensured(d, k)
      /\ \A e \in Dir : e # d => disk'[e] = disk[e]
      /\ service'[s] = Loaded(d, disk'[d], Default)
  BY <1>2 DEF KeysInv, Shapes
<1>5. service'[s].dir = d /\ service'[s].limit = Default
  BY <1>4 DEF Loaded
<1>6. /\ \A e \in Dir : e # d => flaw'[e] = flaw[e]
      /\ (\A u \in Thread : ~In(u, d)) => flaw' = flaw
      /\ \A u \in Thread :
           /\ rotation'[u].at = rotation[u].at /\ rotation'[u].on = rotation[u].on
           /\ ~In(u, d) => rotation'[u] = rotation[u]
  BY <1>3, OverlapMarks
<1>7. \A u \in Thread : Rotating(u) => rotation[u].on \in Service /\ Held(rotation[u].on)
  BY DEF Held, KeysInv, Shapes
<1>8. \A u \in Thread : /\ Rotating(u)' <=> Rotating(u)
                        /\ Rotating(u) => On(u)' = On(u)
                        /\ \A e : In(u, e)' <=> In(u, e)
  BY <1>2, <1>6, <1>7 DEF Rotating, On, In
<1>9. ASSUME NEW p \in Service, Live(p)', p # s
      PROVE  Live(p) /\ service'[p] = service[p] /\ (Changing(p) => Changing(p)')
  <2>1. Held(p)' => Held(p)
    BY <1>3, <1>6, <1>8 DEF Held
  <2>2. Held(p)
    BY <1>2, <1>9, <2>1 DEF Live
  <2> QED BY <1>2, <1>6, <1>8, <1>9, <2>2 DEF Live, Changing
<1>10. Clean(d)' => Clean(d) /\ \A u \in Thread : ~In(u, d)
  <2>1. flaw = [e \in Dir |-> flaw[e]]
    BY DEF KeysInv, Shapes
  <2>2. Clean(d)' => Under(d) = {}
    BY <1>3, <2>1 DEF Clean, FlawIfOverlapped
  <2>3. Clean(d)' => \A u \in Thread : ~In(u, d)
    BY <2>2 DEF Under, In, On
  <2> QED BY <1>6, <2>3 DEF Clean
<1>11. ListShapes'
  <2>1. IsCrypto(service'[s])
    <3>1. IsCrypto(service[current])'
      BY DEF KeysInv, Shapes
    <3> QED BY <1>2, <3>1
  <2>2. ASSUME NEW p \in Service, Live(p)'
        PROVE  IsCrypto(service[p])' /\ service'[p].limit \in {Configured, Default}
    <3>1. CASE p = s
      BY <1>5, <2>1, <3>1
    <3>2. CASE p # s
      BY <1>9, <2>2, <3>2 DEF ListInv, ListShapes
    <3> QED BY <3>1, <3>2
  <2> QED BY <1>3, <2>2 DEF ListInv, ListShapes
<1>12. ASSUME NEW e \in Dir, e # d, Clean(e)' PROVE DirInv(e)'
  <2>1. Clean(e) /\ DirInv(e) /\ flaw'[e] = flaw[e]
    BY <1>6, <1>12 DEF Clean, ListInv
  <2>2. \A u \in Thread : In(u, e) => rotation'[u] = rotation[u]
    BY <1>6, <1>12 DEF In
  <2>3. \A p \in Service : Live(p)' /\ service'[p].dir = e => Live(p) /\ service'[p] = service[p]
    BY <1>5, <1>9, <1>12
  <2>4. current' \in Service /\ service'[current'].dir # e
    BY <1>2, <1>5, <1>12
  <2>5. /\ disk'[e] = disk[e] /\ retired'[e] = retired[e] /\ drawn \subseteq drawn'
        /\ token' = token
    BY <1>2, <1>3, <1>4, <1>12
  <2> QED BY <1>8, <2>1, <2>2, <2>3, <2>4, <2>5, ListFrame
<1>13. ASSUME Clean(d)' PROVE DirInv(d)'
  <2>1. /\ Clean(d) /\ DirInv(d) /\ flaw' = flaw
        /\ \A u \in Thread : ~In(u, d) /\ ~In(u, d)'
    BY <1>6, <1>8, <1>10, <1>13 DEF ListInv
  <2>2. ~Ahead(d) /\ ~Ahead(d)'
    BY <2>1 DEF Ahead
  <2>3. /\ Whole(d)' /\ Retirees(d)'
        /\ disk'[d].archive = [j \in Key |-> disk'[d].archive[j]]
        /\ \A j \in Key : IsRetired(d, j) \/ j = disk[d].kid =>
                            IsRetired(d, j)' \/ j = disk'[d].kid
    BY <1>2, <1>3, <1>4, <2>1, <2>2, EnsuredLists
  <2>4. Agrees(s, d)' /\ ServiceKeys(s, d)'
    BY <1>4, <2>2, <2>3, LoadedAgrees
  <2>5. \A j \in Key : Known(d, j) => Known(d, j)'
    BY <2>2, <2>3 DEF Known
  <2>6. ASSUME NEW p \in Service, Live(p)', service'[p].dir = d PROVE ServiceKeys(p, d)'
    <3>1. CASE p = s
      BY <2>4, <3>1 DEF ServiceKeys, ServicePair, Changing
    <3>2. CASE p # s
      <4>1. Live(p) /\ service'[p] = service[p] /\ (Changing(p) => Changing(p)')
        BY <1>9, <2>6, <3>2
      <4>2. ServiceKeys(p, d) /\ service[p].kid \in Key
        BY <2>1, <2>6, <4>1 DEF DirInv, ListInv, ListShapes, IsCrypto
      <4>3. \A j \in Key : j = service[p].kid /\ ~Changing(p) => Known(d, j)'
        BY <2>5, <4>2 DEF ServiceKeys
      <4>4. ~Changing(p) => Known(d, service[p].kid)'
        BY <4>1, <4>2, <4>3 DEF Known, IsRetired
      <4> QED BY <4>1, <4>2, <4>4 DEF ServiceKeys, ServicePair
    <3> QED BY <3>1, <3>2
  <2>7. TokenKnown(d)'
    BY <1>3, <2>1, <2>5, KnownTokens DEF DirInv
  <2>8. Agrees(current, d)'
    BY <1>2, <2>4 DEF Agrees, ServiceLists
  <2>9. flaw'[d] = {}
    BY <2>1 DEF DirInv
  <2> QED BY <2>1, <2>3, <2>6, <2>7, <2>8, <2>9 DEF DirInv
<1> QED BY <1>11, <1>12, <1>13 DEF ListInv

(* At the start one directory has a pair and the others nothing.           *)
LEMMA ListsInit == KeysInit => ListInv
<1> SUFFICES ASSUME KeysInit PROVE ListInv
  OBVIOUS
<1>1. PICK d \in Dir, s \in Service, k \in Key :
        LET files == Generated(NoFiles, k)
        IN  /\ disk = [e \in Dir |-> IF e = d THEN files ELSE NoFiles]
            /\ service = [o \in Service |-> IF o = s THEN Loaded(d, files, Configured) ELSE None]
            /\ current = s
            /\ signer = None
            /\ rotation = [t \in Thread |-> Idle]
            /\ drawn = {k}
            /\ token = None
            /\ retired = [e \in Dir |-> << >>]
            /\ flaw = [e \in Dir |-> {}]
  BY DEF KeysInit
<1> DEFINE files == Generated(NoFiles, k)
<1>2. files = [private |-> k, public |-> k, kid |-> k, certificate |-> k,
               listed |-> << >>, archive |-> [j \in Key |-> None]]
  BY DEF NoFiles, Generated
<1>3. PreviousOf(files) = << >>
  <2>1. /\ files.listed \in Seq(Key) /\ Len(files.listed) = 0
        /\ \A i \in 1..Len(files.listed) : files.archive[files.listed[i]] = files.listed[i]
    BY <1>2
  <2>2. PreviousOf(files) \in Seq(Entries) /\ Len(PreviousOf(files)) = 0
    BY <2>1, LoadedPrevious
  <2> HIDE DEF files
  <2> QED BY <2>2
<1>4. service[s] =
        [dir |-> d, private |-> k, public |-> k, kid |-> k, certificate |-> k,
         previous |-> << >>, limit |-> Configured]
  BY <1>1, <1>2, <1>3 DEF Loaded
<1>5. \A t \in Thread : ~Rotating(t)
  BY <1>1 DEF Idle, Rotating
<1>6. \A p \in Service : Live(p) => p = s
  BY <1>1, <1>5, KeysAssumption DEF Live, Held
<1>7. ListShapes
  <2>1. IsCrypto(service[s]) /\ service[s].limit = Configured
    BY <1>4 DEF IsCrypto
  <2> QED BY <1>1, <1>6, <2>1 DEF ListShapes
<1>8. Least \in Nat /\ Most \in Nat
  BY KeysAssumption DEF Least, Most
<1>9. ASSUME NEW e \in Dir PROVE DirInv(e)
  <2>1. /\ \A t \in Thread : ~In(t, e)
        /\ ~Ahead(e) /\ retired[e] = << >> /\ flaw[e] = {}
    BY <1>1, <1>5 DEF In, Ahead
  <2>2. /\ Retirees(e) /\ Covers(0, e) /\ Archived(0, e) /\ \A j : ~IsRetired(e, j)
        /\ disk[e].archive = [j \in Key |-> disk[e].archive[j]]
    BY <1>1, <1>2, <2>1 DEF Retirees, Covers, Archived, IsRetired, NoFiles
  <2>3. TokenKnown(e)
    BY <1>1 DEF TokenKnown
  <2>4. CASE e = d
    <3>1. disk[e] = files
      BY <1>1, <2>4
    <3>2. disk[e].listed = << >>
      BY <1>2, <3>1
    <3>3. FilesList(e)
      BY <1>8, <2>1, <2>2, <3>2 DEF FilesList
    <3>4. Whole(e)
      BY <1>1, <1>2, <2>2, <3>1, <3>3 DEF Whole, HasFiles
    <3>5. service[s].previous = << >> /\ << >> \in Seq(Entries) /\ Len(<< >>) = 0
      BY <1>4
    <3>6. ServiceLists(s, e)
      BY <2>2, <3>5 DEF ServiceLists
    <3>7. Agrees(s, e)
      BY <1>2, <1>4, <3>1, <3>6 DEF Agrees
    <3>8. ServiceKeys(s, e)
      BY <1>2, <1>4, <1>8, <2>1, <3>1, <3>5 DEF ServiceKeys, ServicePair, Known
    <3> QED BY <1>1, <1>6, <2>1, <2>2, <2>3, <3>4, <3>7, <3>8 DEF DirInv
  <2>5. CASE e # d
    <3>1. Untouched(e)
      BY <1>1, <2>1, <2>5 DEF Untouched, NoFiles
    <3>2. service[s].dir # e
      BY <1>4, <2>5
    <3> QED BY <1>1, <1>6, <2>1, <2>2, <2>3, <3>1, <3>2 DEF DirInv
  <2> QED BY <2>4, <2>5
<1> QED BY <1>7, <1>9 DEF ListInv

(* Every step keeps the lists in order.                                    *)
LEMMA ListsNext == KeysInv /\ ListInv /\ KeysInv' /\ [Next]_vars => ListInv'
<1> SUFFICES ASSUME KeysInv, ListInv, KeysInv', [Next]_vars PROVE ListInv'
  OBVIOUS
<1>1. CASE Restart
  BY <1>1, RestartKeepsLists
<1>2. CASE GetCryptoService
  BY <1>2, GetCryptoServiceKeepsLists
<1>3. ASSUME NEW t \in Thread,
             \/ Rotate(t) \/ ArchivePublic(t) \/ Retire(t) \/ Prune(t)
             \/ \E k \in Key : WritePrivate(t, k)
             \/ WritePublic(t) \/ WriteKid(t) \/ LoadPrivate(t) \/ LoadPublic(t)
             \/ Adopt(t) \/ Certify(t) \/ SaveList(t)
      PROVE  ListInv'
  BY <1>3, RotateKeepsLists, ArchiveKeepsLists, RetireKeepsLists, PruneKeepsLists,
     WritesKeepLists, SaveListKeepsLists
<1>4. CASE (\E d \in Dir : Reload(d)) \/ GetTokenService \/ UNCHANGED vars
  <2>1. /\ UNCHANGED <<disk, service, current, rotation, drawn, retired, flaw, token>>
        /\ signer' \in {signer, current}
    BY <1>4 DEF Reload, GetTokenService, vars, history
  <2> QED BY <2>1, OthersKeepLists
<1>5. CASE Sign
  BY <1>5, SignKeepsLists
<1> QED BY <1>1, <1>2, <1>3, <1>4, <1>5 DEF Next

(* What the lists of previous keys hold, throughout.                       *)
THEOREM ListsHold == Spec => [](KeysInv /\ ListInv)
<1>1. KeysInit => KeysInv /\ ListInv
  BY InvInit, ListsInit
<1>2. KeysInv /\ ListInv /\ [Next]_vars => (KeysInv /\ ListInv)'
  BY InvNext, ListsNext
<1> QED BY <1>1, <1>2, PTL DEF Spec

(* Between rotations a new process has the keys the old one had: a service *)
(* loaded from the files of a directory in which nothing went wrong is the *)
(* service in use (_ensure_keys, _load_previous_keys).                     *)
THEOREM RestartLosesNothing == Spec => []RestartKeepsKeys
<1>1. ASSUME KeysInv, ListInv PROVE RestartKeepsKeys
  <2> DEFINE s == service[current]
             f == disk[s.dir]
  <2> SUFFICES ASSUME Under(s.dir) = {}, flaw[s.dir] = {}
               PROVE  Loaded(s.dir, f, s.limit) = s
    BY DEF RestartKeepsKeys
  <2>1. current \in Service /\ IsCrypto(s) /\ s.dir \in Dir /\ HasFiles(f)
    BY <1>1 DEF KeysInv, Shapes, IsCrypto
  <2>2. DirInv(s.dir) /\ ~Ahead(s.dir)
    BY <1>1, <2>1 DEF ListInv, Clean, Ahead, In, Under, On
  <2>3. Agrees(current, s.dir) /\ Whole(s.dir)
    BY <2>1, <2>2, KeysAssumption DEF DirInv, Untouched, HasFiles
  <2>4. /\ f.listed \in Seq(Key) /\ \A i \in 1..Len(f.listed) : f.archive[f.listed[i]] = f.listed[i]
        /\ \A i \in 1..Len(f.listed) : f.listed[i] = retired[s.dir][i]
    BY <2>3, Zenon DEF Whole, FilesList, Archived
  <2>5. PreviousOf(f) = [i \in 1..Len(f.listed) |-> Entry(f.listed[i])]
    BY <2>4, LoadedPrevious
  <2>6. /\ s.previous \in Seq(Entries) /\ Len(s.previous) = Len(f.listed)
        /\ \A i \in 1..Len(s.previous) : s.previous[i] = Entry(retired[s.dir][i])
    BY <2>3 DEF Agrees, ServiceLists
  <2>7. PreviousOf(f) = s.previous
    BY <2>4, <2>5, <2>6
  <2>8. /\ s.private = f.private /\ s.public = f.public /\ s.kid = f.kid
        /\ s.certificate = f.certificate
    BY <2>3 DEF Agrees
  <2> QED BY <2>1, <2>7, <2>8 DEF Loaded, IsCrypto
<1> QED BY <1>1, ListsHold, PTL

(* Who does not rotate holds no service.                                   *)
IdleHoldsNone == \A t \in Thread : ~Rotating(t) => rotation[t].on = None

(* And this at every step.                                                 *)
LEMMA IdleThreads == Spec => []IdleHoldsNone
<1>1. KeysInit => IdleHoldsNone
  BY DEF KeysInit, IdleHoldsNone, Idle
<1>2. ASSUME KeysInv, IdleHoldsNone, [Next]_vars PROVE IdleHoldsNone'
  <2> SUFFICES ASSUME NEW u \in Thread, ~Rotating(u)' PROVE rotation'[u].on = None
    BY DEF IdleHoldsNone
  <2>1. /\ rotation = [t \in Thread |-> rotation[t]] /\ \A t \in Thread : IsRotation(rotation[t])
    BY <1>2 DEF KeysInv, Shapes
  <2>2. CASE rotation'[u] = Idle
    BY <2>2 DEF Idle
  <2>3. CASE rotation'[u] = rotation[u]
    BY <1>2, <2>3 DEF IdleHoldsNone, Rotating
  <2>4. CASE /\ rotation'[u].at = rotation[u].at
             /\ rotation'[u].on = rotation[u].on
    BY <1>2, <2>4 DEF IdleHoldsNone, Rotating
  <2>5. CASE Restart
    BY <2>2, <2>5 DEF Restart
  <2>6. CASE GetCryptoService
    BY <2>1, <2>3, <2>4, <2>6 DEF GetCryptoService, Overlapped, IsRotation
  <2>7. ASSUME NEW t \in Thread, Rotate(t) PROVE rotation'[u].on = None
    <3>1. CASE u = t
      <4>1. rotation'[u].at = "archive"
        BY <2>7, <3>1 DEF Rotate, Overlapped
      <4> QED BY <4>1 DEF Rotating
    <3>2. CASE u # t
      <4>1. PICK d : d = service[current].dir
        OBVIOUS
      <4>2. rotation'[u] = IF u \in Under(d) THEN [rotation[u] EXCEPT !.alone = FALSE]
                           ELSE rotation[u]
        BY <2>7, <3>2, <4>1 DEF Rotate, Overlapped
      <4> QED BY <2>1, <2>3, <2>4, <4>2 DEF IsRotation
    <3> QED BY <3>1, <3>2
  <2>8. ASSUME NEW t \in Thread, NEW from, NEW to, to \in At \ {"idle"}, Step(t, from, to)
        PROVE  rotation'[u].on = None
    <3>1. u # t
      BY <2>1, <2>8 DEF Step, Rotating, IsRotation
    <3> QED BY <2>1, <2>3, <2>8, <3>1 DEF Step
  <2>9. ASSUME NEW t \in Thread, NEW k \in Key, WritePrivate(t, k) PROVE rotation'[u].on = None
    <3>1. u # t
      BY <2>1, <2>9 DEF WritePrivate, Rotating, IsRotation
    <3> QED BY <2>1, <2>3, <2>9, <3>1 DEF WritePrivate
  <2>10. ASSUME NEW t \in Thread, SaveList(t) PROVE rotation'[u].on = None
    <3>1. rotation' = [rotation EXCEPT ![t] = Idle]
      BY <2>10 DEF SaveList
    <3> QED BY <2>1, <2>2, <2>3, <3>1
  <2>11. ASSUME NEW t \in Thread,
                \/ ArchivePublic(t) \/ Retire(t) \/ WritePublic(t) \/ WriteKid(t)
                \/ LoadPrivate(t) \/ LoadPublic(t) \/ Adopt(t) \/ Certify(t)
         PROVE  rotation'[u].on = None
    BY <2>8, <2>11 DEF ArchivePublic, Retire, WritePublic, WriteKid, LoadPrivate, LoadPublic,
                       Adopt, Certify, At
  <2>12. CASE \/ UNCHANGED rotation
              \/ (\E d \in Dir : Reload(d)) \/ GetTokenService \/ Sign
              \/ (\E t \in Thread : Prune(t)) \/ UNCHANGED vars
    BY <2>3, <2>12 DEF Reload, GetTokenService, Sign, Prune, vars
  <2> QED BY <1>2, <2>5, <2>6, <2>7, <2>9, <2>10, <2>11, <2>12 DEF Next
<1> QED BY <1>1, <1>2, InvHolds, PTL DEF Spec

(* JWKS never holds more previous keys than the larger limit, but for one  *)
(* more while a rotation is about to prune (rotate_keys' while loop).      *)
THEOREM JwksStaysBounded == Spec => []JwksBounded
<1>1. ASSUME KeysInv, ListInv, IdleHoldsNone PROVE JwksBounded
  <2> SUFFICES ASSUME NEW s \in Service, service[s] # None, "list" \notin flaw[service[s].dir]
               PROVE  Len(service[s].previous) <=
                        Most + Cardinality({t \in Thread : rotation[t].on = s})
    BY DEF JwksBounded
  <2> DEFINE d == service[s].dir
             n == Len(service[s].previous)
             rotating == {t \in Thread : rotation[t].on = s}
  <2>1. Live(s) /\ d \in Dir /\ Clean(d)
    BY <1>1 DEF Live, ListInv, ListShapes, IsCrypto, Clean
  <2>2. ServiceKeys(s, d)
    BY <1>1, <2>1 DEF ListInv, DirInv
  <2>3. n \in Nat /\ Most \in Nat
    BY <2>2, KeysAssumption DEF ServiceKeys, Most
  <2>4. \A t \in rotating : In(t, d)
    BY <1>1, KeysAssumption DEF IdleHoldsNone, In, On
  <2>5. ASSUME rotating = {} PROVE n <= Most + Cardinality(rotating)
    <3>1. ~Changing(s)
      BY <2>5 DEF Changing
    <3>2. n <= Most /\ Cardinality(rotating) = 0
      BY <2>2, <2>5, <3>1, FS_EmptySet DEF ServiceKeys
    <3> HIDE DEF n, rotating
    <3> QED BY <2>3, <3>2
  <2>6. ASSUME NEW t \in rotating PROVE n <= Most + Cardinality(rotating)
    <3>1. /\ \A u \in rotating : u = t
          /\ On(t) = service[s] /\ RotationList(t)
      BY <1>1, <2>1, <2>4, LoneRotation DEF On
    <3>2. Cardinality(rotating) = 1
      <4>1. rotating = {t}
        BY <3>1
      <4> QED BY <4>1, FS_Singleton
    <3>3. n <= Most + 1
      BY <2>2, <2>3, <3>1 DEF RotationList, ServiceKeys, Changing
    <3> HIDE DEF n, rotating
    <3> QED BY <3>2, <3>3
  <2> QED BY <2>5, <2>6
<1> QED BY <1>1, ListsHold, IdleThreads, PTL

(* A token is verifiable through JWKS from its signing until its key has   *)
(* been rotated out as often as the smaller limit allows, whatever         *)
(* rotations, reloads and restarts come in between.                        *)
THEOREM TokensStayPublished == Spec => []TokenStaysPublished
<1>1. ASSUME KeysInv, ListInv PROVE TokenStaysPublished
  <2> DEFINE d == token.dir
             s == service[current]
             k == token.key
  <2> SUFFICES ASSUME token # None, d = s.dir, flaw[d] = {}
               PROVE  \/ [kid |-> token.kid, key |-> k] \in Jwks(current)
                      \/ \E i \in DOMAIN retired[d] : i > Least /\ retired[d][i] = k
    BY DEF TokenStaysPublished
  <2>1. current \in Service /\ d \in Dir /\ HasFiles(disk[d]) /\ Clean(d)
    BY <1>1 DEF KeysInv, Shapes, IsCrypto, Clean
  <2>2. DirInv(d)
    BY <1>1, <2>1 DEF ListInv
  <2>3. token.kid = k /\ k \in Key /\ Known(d, k)
    BY <2>2 DEF DirInv, TokenKnown
  <2>4. ServiceLists(current, d)
    <3>1. CASE ~Ahead(d)
      BY <2>2, <3>1 DEF DirInv, Agrees
    <3>2. CASE Ahead(d)
      <4>1. PICK t \in Thread : In(t, d) /\ rotation[t].at \notin Early
        BY <3>2 DEF Ahead
      <4>2. RotationList(t) /\ On(t).dir = d /\ current = rotation[t].on
        BY <1>1, <2>1, <4>1, LoneRotation
      <4> QED BY <4>1, <4>2 DEF RotationList
    <3> QED BY <3>1, <3>2
  <2>5. CASE k = disk[d].kid /\ ~Ahead(d)
    <3>1. Whole(d) /\ Agrees(current, d)
      BY <2>1, <2>2, <2>5, KeysAssumption DEF DirInv, Untouched, HasFiles
    <3>2. s.kid = k /\ s.public = k
      BY <2>5, <3>1 DEF Whole, Agrees
    <3> QED BY <2>3, <3>2 DEF Jwks
  <2>6. CASE IsRetired(d, k)
    <3>1. PICK i \in 1..Len(retired[d]) : retired[d][i] = k
      BY <2>6 DEF IsRetired
    <3>2. /\ retired[d] \in Seq(Key) /\ s.previous \in Seq(Entries) /\ Least \in Nat
          /\ Covers(Len(s.previous), d)
      BY <2>2, <2>4, KeysAssumption DEF DirInv, Retirees, ServiceLists, Least
    <3>3. CASE i <= Len(s.previous)
      <4>1. i \in 1..Len(s.previous)
        BY <3>1, <3>2, <3>3
      <4>2. s.previous[i] = [kid |-> token.kid, key |-> k] /\ i \in DOMAIN s.previous
        BY <2>3, <2>4, <3>1, <3>2, <4>1 DEF ServiceLists, Entry
      <4> QED BY <4>2 DEF Jwks
    <3>4. CASE i > Len(s.previous)
      <4>1. i > Least /\ i \in DOMAIN retired[d]
        BY <3>1, <3>2, <3>4 DEF Covers
      <4> QED BY <3>1, <4>1
    <3> QED BY <3>1, <3>2, <3>3, <3>4
  <2> QED BY <2>3, <2>5, <2>6 DEF Known
<1> QED BY <1>1, ListsHold, PTL
=============================================================================

-------------------------------- MODULE Keys --------------------------------
(***************************************************************************)
(* services/crypto.py: the signing key, its files, the previous keys that  *)
(* JWKS goes on publishing, and their rotation; and the TokenService       *)
(* (services/token.py), which signs with the CryptoService it was made     *)
(* with while everyone else asks for the current one.                      *)
(*                                                                         *)
(* rotate_keys takes no lock, so every write of it to a file or to the     *)
(* service's attributes is an action: another rotation, a signature, a     *)
(* reload or the end of the process may come between any two.  Making a    *)
(* service is one action: it runs under _crypto_service_lock, or before    *)
(* the first request.  A key pair and the kid drawn with it are one value  *)
(* of Key; the code keeps them in three places.                            *)
(***************************************************************************)
EXTENDS Integers, Sequences, FiniteSets

CONSTANTS
  Key,           \* key pairs, with their kids
  Dir,           \* directories keys_dir may name
  Service,       \* CryptoService objects
  Thread,        \* requests that rotate
  Configured,    \* settings.max_previous_keys
  Default,       \* max_previous_keys of a service made without it: 2
  None

ASSUME KeysAssumption ==
  /\ Configured \in Nat /\ Default \in Nat
  /\ None \notin Key \cup Service

VARIABLES
  keysDir,       \* settings.keys_dir
  disk,          \* disk[d]: the files in d
  service,       \* service[s]: the attributes of a CryptoService
  current,       \* _crypto_service
  signer,        \* the service of the TokenService, once there is one
  rotation,      \* rotation[t]: how far the thread is in rotate_keys
  drawn,         \* keys generated so far
  token,         \* the last token signed (history)
  retired,       \* retired[d]: the keys rotated out of d, newest first, as long as
                 \* nothing went wrong there (history)
  flaw           \* flaw[d]: what interrupted or overlapping rotations left (history)

runtime == <<keysDir, current, signer, token>>
history == <<retired, flaw>>
vars == <<keysDir, disk, service, current, signer, rotation, drawn, token,
          retired, flaw>>

NoFiles ==
  [private |-> None, public |-> None, kid |-> None, certificate |-> None,
   listed |-> << >>, archive |-> [k \in Key |-> None]]

Idle == [at |-> "idle", on |-> None, old |-> None, new |-> None, alone |-> TRUE]

-----------------------------------------------------------------------------
(* _ensure_keys: a new pair if a file of the old one is missing - k, then, *)
(* is the key drawn - and the previous keys keys.json lists, as far as     *)
(* their files are there.  The certificate is made only if it is missing.  *)
Incomplete(d) == None \in {disk[d].private, disk[d].public, disk[d].kid}

Drawable(d) == IF Incomplete(d) THEN Key \ drawn ELSE {disk[d].kid}

Generated(files, k) ==
  [private |-> k, public |-> k, kid |-> k, certificate |-> k,
   listed |-> files.listed, archive |-> files.archive]

Ensured(d, k) == IF Incomplete(d) THEN Generated(disk[d], k) ELSE disk[d]

PreviousOf(files) ==
  LET kept[i \in 0..Len(files.listed)] ==
        IF i = 0 THEN << >>
        ELSE LET kid == files.listed[i]
             IN  IF files.archive[kid] = None THEN kept[i - 1]
                 ELSE Append(kept[i - 1], [kid |-> kid, key |-> files.archive[kid]])
  IN  kept[Len(files.listed)]

Loaded(d, files, limit) ==
  [dir |-> d, private |-> files.private, public |-> files.public, kid |-> files.kid,
   certificate |-> files.certificate, previous |-> PreviousOf(files), limit |-> limit]

(* Init and Restart: the service of a new process, from init_crypto_service.*)
KeysInit ==
  \E d \in Dir, s \in Service, k \in Key :
    LET files == Generated(NoFiles, k)
    IN  /\ keysDir = d
        /\ disk = [e \in Dir |-> IF e = d THEN files ELSE NoFiles]
        /\ service = [o \in Service |-> IF o = s THEN Loaded(d, files, Configured) ELSE None]
        /\ current = s
        /\ signer = None
        /\ rotation = [t \in Thread |-> Idle]
        /\ drawn = {k}
        /\ token = None
        /\ retired = [e \in Dir |-> << >>]
        /\ flaw = [e \in Dir |-> {}]

Rotating(t) == rotation[t].at # "idle"
Under(d) == {t \in Thread : Rotating(t) /\ service[rotation[t].on].dir = d}

(* What the end of the process leaves in d when it comes in the middle of  *)
(* rotations there.                                                        *)
AfterPrivate == {"public", "kid"}
AfterKid == {"loadPrivate", "loadPublic", "adopt", "certify"}

Interrupted(d) ==
  LET at == {rotation[t].at : t \in Under(d)}
  IN  (IF at \subseteq {"archive", "retire"} THEN {} ELSE {"list"})
      \cup (IF at \cap AfterPrivate = {} THEN {} ELSE {"pair"})
      \cup (IF at \cap (AfterPrivate \cup AfterKid) = {} THEN {} ELSE {"certificate"})

Restart ==
  \E k \in Drawable(keysDir) :
    LET files == Ensured(keysDir, k)
    IN  /\ disk' = [disk EXCEPT ![keysDir] = files]
        /\ service' = [o \in Service |->
                         IF o = current THEN Loaded(keysDir, files, Configured) ELSE None]
        /\ drawn' = drawn \cup {k}
        /\ rotation' = [t \in Thread |-> Idle]
        /\ signer' = None
        /\ flaw' = [d \in Dir |-> flaw[d] \cup Interrupted(d)]
        /\ retired' = [d \in Dir |-> IF "list" \in flaw'[d] THEN << >> ELSE retired[d]]
        /\ UNCHANGED <<keysDir, current, token>>

(* A reload changes keys_dir; the next get_crypto_service that notices     *)
(* makes a service for the new directory, without max_previous_keys.       *)
Reload(d) ==
  /\ keysDir' = d
  /\ UNCHANGED <<disk, service, current, signer, rotation, drawn, token, history>>

(* Overlapped(d, rotations) marks that rotations in d ran into each other, *)
(* or into the loading of its files.                                       *)
Overlapped(d, ts) ==
  [t \in Thread |-> IF t \in ts THEN [rotation[t] EXCEPT !.alone = FALSE] ELSE rotation[t]]

FlawIfOverlapped(d) ==
  [flaw EXCEPT ![d] = IF Under(d) = {} THEN @ ELSE @ \cup {"list", "pair", "certificate"}]

(* Who still holds a service but the global variable.                      *)
Held(s) == s = signer \/ \E t \in Thread : Rotating(t) /\ rotation[t].on = s

GetCryptoService ==
  /\ service[current].dir # keysDir
  /\ \E s \in Service, k \in Drawable(keysDir) :
       LET files == Ensured(keysDir, k)
       IN  /\ s # current /\ ~Held(s)
           /\ disk' = [disk EXCEPT ![keysDir] = files]
           /\ service' = [o \in Service |->
                            IF o = s THEN Loaded(keysDir, files, Default)
                            ELSE IF Held(o) THEN service[o] ELSE None]
           /\ current' = s
           /\ drawn' = drawn \cup {k}
  /\ rotation' = Overlapped(keysDir, Under(keysDir))
  /\ flaw' = FlawIfOverlapped(keysDir)
  /\ UNCHANGED <<keysDir, signer, token, retired>>

-----------------------------------------------------------------------------
(* rotate_keys, write by write.                                            *)
Step(t, from, to) ==
  /\ rotation[t].at = from
  /\ rotation' = [rotation EXCEPT ![t].at = to]

On(t) == service[rotation[t].on]

Rotate(t) ==
  LET d == service[current].dir
  IN  /\ ~Rotating(t)
      /\ d = keysDir
      /\ rotation' = [Overlapped(d, Under(d)) EXCEPT ![t] =
                        [at |-> "archive", on |-> current, old |-> service[current].kid,
                         new |-> None, alone |-> Under(d) = {}]]
      /\ flaw' = FlawIfOverlapped(d)
      /\ UNCHANGED <<runtime, disk, service, drawn, retired>>

ArchivePublic(t) ==
  /\ Step(t, "archive", "retire")
  /\ disk' = [disk EXCEPT ![On(t).dir].archive[rotation[t].old] = On(t).public]
  /\ UNCHANGED <<runtime, service, drawn, history>>

Retire(t) ==
  LET s == rotation[t].on
  IN  /\ Step(t, "retire", "prune")
      /\ service' = [service EXCEPT ![s].previous =
                       <<[kid |-> rotation[t].old, key |-> On(t).public]>> \o @]
      /\ retired' = [retired EXCEPT ![On(t).dir] =
                       IF "list" \in flaw[On(t).dir] THEN << >> ELSE <<On(t).public>> \o @]
      /\ UNCHANGED <<runtime, disk, drawn, flaw>>

OverLimitLate(s) == Len(s.previous) > s.limit + 1  \* mutant: one too many is kept
OverLimitByOne(s) == Len(s.previous) >= s.limit  \* mutant: one too few are kept
OverLimit(s) == Len(s.previous) > s.limit

Prune(t) ==
  LET s == rotation[t].on
      last == Len(On(t).previous)
  IN  /\ rotation[t].at = "prune"
      /\ OverLimit(On(t))
      /\ disk' = [disk EXCEPT ![On(t).dir].archive[On(t).previous[last].kid] = None]
      /\ service' = [service EXCEPT ![s].previous = SubSeq(@, 1, last - 1)]
      /\ UNCHANGED <<runtime, rotation, drawn, history>>

WritePrivate(t, k) ==
  /\ rotation[t].at = "prune"
  /\ ~OverLimit(On(t))
  /\ k \notin drawn
  /\ rotation' = [rotation EXCEPT ![t].at = "public", ![t].new = k]
  /\ drawn' = drawn \cup {k}
  /\ disk' = [disk EXCEPT ![On(t).dir].private = k]
  /\ UNCHANGED <<runtime, service, history>>

WritePublic(t) ==
  /\ Step(t, "public", "kid")
  /\ disk' = [disk EXCEPT ![On(t).dir].public = rotation[t].new]
  /\ UNCHANGED <<runtime, service, drawn, history>>

WriteKid(t) ==
  /\ Step(t, "kid", "loadPrivate")
  /\ disk' = [disk EXCEPT ![On(t).dir].kid = rotation[t].new]
  /\ UNCHANGED <<runtime, service, drawn, history>>

(* The files are read back: they may be another rotation's by now.         *)
LoadPrivate(t) ==
  /\ Step(t, "loadPrivate", "loadPublic")
  /\ service' = [service EXCEPT ![rotation[t].on].private = disk[On(t).dir].private]
  /\ UNCHANGED <<runtime, disk, drawn, history>>

LoadPublicLater(t) ==                       \* mutant: only a restart reads the public key
  /\ Step(t, "loadPublic", "adopt")
  /\ UNCHANGED <<runtime, disk, service, drawn, history>>
LoadPublic(t) ==
  /\ Step(t, "loadPublic", "adopt")
  /\ service' = [service EXCEPT ![rotation[t].on].public = disk[On(t).dir].public]
  /\ UNCHANGED <<runtime, disk, drawn, history>>

Adopt(t) ==
  /\ Step(t, "adopt", "certify")
  /\ service' = [service EXCEPT ![rotation[t].on].kid = rotation[t].new]
  /\ UNCHANGED <<runtime, disk, drawn, history>>

CertifyIfMissing(t) ==                      \* mutant: as _ensure_keys does it
  /\ Step(t, "certify", "list")
  /\ disk[On(t).dir].certificate # None
  /\ UNCHANGED <<runtime, disk, service, drawn, history>>
Certify(t) ==
  /\ Step(t, "certify", "list")
  /\ disk' = [disk EXCEPT ![On(t).dir].certificate = On(t).public]
  /\ service' = [service EXCEPT ![rotation[t].on].certificate = On(t).public]
  /\ UNCHANGED <<runtime, drawn, history>>

(* What keys.json will list.                                               *)
ListedBefore(t) == disk[On(t).dir].listed   \* mutant: keys.json is not rewritten
Listed(t) == [i \in DOMAIN On(t).previous |-> On(t).previous[i].kid]

(* _save_keys_metadata.  A rotation that nothing ran into leaves a pair    *)
(* and its certificate, whatever it found.                                 *)
SaveList(t) ==
  LET d == On(t).dir
  IN  /\ rotation[t].at = "list"
      /\ disk' = [disk EXCEPT ![d].listed = Listed(t)]
      /\ flaw' = [flaw EXCEPT ![d] =
                    IF rotation[t].alone THEN @ \ {"pair", "certificate"} ELSE @]
      /\ rotation' = [rotation EXCEPT ![t] = Idle]
      /\ UNCHANGED <<runtime, service, drawn, retired>>

-----------------------------------------------------------------------------
(* get_token_service: made once, with the service current at that time.    *)
GetTokenService ==
  /\ signer = None
  /\ service[current].dir = keysDir
  /\ signer' = current
  /\ UNCHANGED <<keysDir, disk, service, current, rotation, drawn, token, history>>

(* create_jwt reads the kid for the header and then the key to sign with.  *)
(* A rotation in between makes a token whose kid is not its key's: nothing *)
(* is claimed of it, nor of one signed in a directory where something went *)
(* wrong, so the history does not keep them, and one step is enough.       *)
Sign ==
  /\ signer # None
  /\ LET s == service[signer]
     IN  token' = IF Under(s.dir) = {} /\ flaw[s.dir] = {}
                  THEN [kid |-> s.kid, key |-> s.private, dir |-> s.dir]
                  ELSE None
  /\ UNCHANGED <<keysDir, disk, service, current, signer, rotation, drawn, history>>

Next ==
  \/ Restart
  \/ \E d \in Dir : Reload(d)
  \/ GetCryptoService
  \/ \E t \in Thread :
       \/ Rotate(t) \/ ArchivePublic(t) \/ Retire(t) \/ Prune(t)
       \/ \E k \in Key : WritePrivate(t, k)
       \/ WritePublic(t) \/ WriteKid(t) \/ LoadPrivate(t) \/ LoadPublic(t)
       \/ Adopt(t) \/ Certify(t) \/ SaveList(t)
  \/ GetTokenService
  \/ Sign

Spec == KeysInit /\ [][Next]_vars

-----------------------------------------------------------------------------
(* A service always has a key pair and a certificate, also the one that a  *)
(* rotation goes on with after a reload has replaced it; a rotation that   *)
(* has drawn its pair knows it; what the files lack is None.               *)
Pair(s) == {service[s].private, service[s].public, service[s].kid, service[s].certificate}

KeysType ==
  /\ keysDir \in Dir /\ current \in Service /\ drawn \subseteq Key
  /\ Pair(current) \subseteq Key /\ service[current].dir \in Dir
  /\ \A d \in Dir :
       {disk[d].private, disk[d].public, disk[d].kid, disk[d].certificate} \subseteq Key \cup {None}
  /\ \A t \in Thread : Rotating(t) =>
       /\ rotation[t].on \in Service /\ Pair(rotation[t].on) \subseteq Key
       /\ rotation[t].at \notin {"archive", "retire", "prune"} => rotation[t].new \in Key

(* JWKS: the active key and the previous ones.                             *)
Jwks(s) ==
  {[kid |-> service[s].kid, key |-> service[s].public]}
  \cup {service[s].previous[i] : i \in DOMAIN service[s].previous}

Least == IF Configured < Default THEN Configured ELSE Default
Most == IF Configured < Default THEN Default ELSE Configured

(* Where no rotation was cut short or ran into another, JWKS holds no more *)
(* previous keys than the limit and the rotations under way account for.   *)
JwksBounded ==
  \A s \in Service :
    service[s] # None /\ "list" \notin flaw[service[s].dir] =>
      Len(service[s].previous) <= Most + Cardinality({t \in Thread : rotation[t].on = s})

(* A token can be verified through JWKS from the moment it is signed until *)
(* its key has been rotated out, through every step of a rotation, through *)
(* restarts and through keys_dir going away and coming back.  Excepted are *)
(* tokens signed while the service was rotating, and directories whose     *)
(* rotations overlapped or were cut short.                                 *)
TokenStaysPublished ==
  token # None /\ token.dir = service[current].dir /\ flaw[token.dir] = {} =>
      \/ [kid |-> token.kid, key |-> token.key] \in Jwks(current)
      \/ \E i \in DOMAIN retired[token.dir] : i > Least /\ retired[token.dir][i] = token.key

(* Between rotations private key, public key and kid belong together, on   *)
(* disk and in the service; a crash can tear them apart only between the   *)
(* writes of the three files, and the next rotation repairs it.            *)
PairsMatch ==
  \A d \in Dir : Under(d) = {} /\ "pair" \notin flaw[d] =>
    /\ disk[d].private = disk[d].public /\ disk[d].public = disk[d].kid
    /\ service[current].dir = d =>
         /\ service[current].private = service[current].public
         /\ service[current].public = service[current].kid

(* Likewise for the certificate, which SAML signatures are checked with.   *)
CertificateFits ==
  \A d \in Dir : Under(d) = {} /\ flaw[d] \cap {"pair", "certificate"} = {} =>
    /\ disk[d].certificate = disk[d].private
    /\ service[current].dir = d => service[current].certificate = service[current].private

(* Between rotations a restart gives back what is in memory: the files say *)
(* all there is to say.                                                    *)
RestartKeepsKeys ==
  LET s == service[current]
  IN  Under(s.dir) = {} /\ flaw[s.dir] = {} => Loaded(s.dir, disk[s.dir], s.limit) = s

(* The docstring of get_crypto_service: when a reload changes keys_dir,    *)
(* the next call recreates the service for the new directory "instead of   *)
(* silently signing and serving JWKS from the old one".                    *)
SignsInKeysDir ==
  [][token' \notin {token, None} /\ service[current].dir = keysDir
       => token'.dir = keysDir]_vars
=============================================================================

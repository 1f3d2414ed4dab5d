------------------------------ MODULE CertStore ------------------------------
(***************************************************************************)
(* cert_store.cpp and the SNI callback of the proxy: the certificate       *)
(* authority that signs a leaf for every host name the guest connects to.  *)
(* ensure_ca loads it from /etc/ssl/webcm or creates and saves it, then    *)
(* copies the certificate to the trust store the guest's clients read.     *)
(*                                                                         *)
(* Each operation on a file is an action of its own: a file is opened, and *)
(* read whole later (it is smaller than a stdio buffer); opening one for   *)
(* writing empties it, and the content reaches it when it is closed.  A    *)
(* process may be killed in between.  The processes share the disk and     *)
(* nothing else.                                                           *)
(***************************************************************************)
EXTENDS Naturals

CONSTANTS
    Procs,     \* proxy processes
    Hosts,     \* server names
    Cas,       \* key pairs create_ca may generate; bounds how many it does
    MaxClock   \* bound of the clock, in seconds

ASSUME ClockAssumption == MaxClock \in Nat \ {0}

Files == {"cert", "key", "trust", "pem", "link"}

(* What a file holds, other than the certificate or the key of one of Cas. *)
Absent == [file |-> "absent"]
Empty == [file |-> "empty"]
System == [file |-> "system"]     \* the bundle of the root file system
Linked == [file |-> "linked"]
NoCa == [none |-> "ca"]
NoLeaf == [none |-> "leaf"]
Data == Cas \cup {Absent, Empty, System, Linked}

ASSUME CasAssumption == Cas \cap {Absent, Empty, System, Linked, NoCa} = {}

VARIABLES
    disk,        \* the files, each with its modification time
    clock,       \* the time of the guest, in seconds
    generated,   \* key pairs generated so far
    pc,          \* the next step of each process
    ca,          \* ca_cert_ and ca_key_
    ca_loaded_,
    content,     \* what was read of the certificate: cert_pem of load_ca,
                 \* cert_content of install_ca_to_trust_store
    cert_cache_,
    issued,      \* history: the leaves handed to TLS clients
    torn         \* history: a process died with cert.pem emptied, not written

diskVars == <<disk, clock>>
procVars == <<pc, ca, ca_loaded_, content, cert_cache_>>
vars == <<disk, clock, generated, pc, ca, ca_loaded_, content, cert_cache_, issued, torn>>

Leaves == [host : Hosts, issuer : Cas, signer : Cas]

Loading == {"load_none", "load_key", "read_cert", "read_key"}
Saving == {"open_cert", "write_cert", "open_key", "write_key"}
Making == {"create"} \cup Saving
Installing == {"install", "open_trust", "read_trust", "write_trust", "open_pem",
               "write_pem", "unlink", "symlink"}

TypeOK ==
    /\ disk \in [Files -> [data : Data, mtime : 0..MaxClock]]
    /\ clock \in 1..MaxClock
    /\ generated \subseteq Cas
    /\ pc \in [Procs -> {"off", "load", "create", "serving", "relock"}
                        \cup Loading \cup Saving \cup Installing]
    /\ ca \in [Procs -> [cert : Cas \cup {NoCa}, key : Cas \cup {NoCa}]]
    /\ ca_loaded_ \in [Procs -> BOOLEAN]
    /\ content \in [Procs -> Data]
    /\ cert_cache_ \in [Procs -> [Hosts -> Leaves \cup {NoLeaf}]]
    /\ issued \subseteq Leaves
    /\ torn \in BOOLEAN

(* A fresh root file system: the directories and a bundle older than boot. *)
Init ==
    /\ disk = [f \in Files |-> [data |-> IF f = "pem" THEN System ELSE Absent,
                                mtime |-> 0]]
    /\ clock = 1
    /\ generated = {}
    /\ pc = [p \in Procs |-> "off"]
    /\ ca = [p \in Procs |-> [cert |-> NoCa, key |-> NoCa]]
    /\ ca_loaded_ = [p \in Procs |-> FALSE]
    /\ content = [p \in Procs |-> Absent]
    /\ cert_cache_ = [p \in Procs |-> [h \in Hosts |-> NoLeaf]]
    /\ issued = {}
    /\ torn = FALSE
-----------------------------------------------------------------------------
At(p, here) == pc[p] = here
Goto(p, there) == pc' = [pc EXCEPT ![p] = there]
Exists(f) == disk[f].data # Absent
Put(f, d) == disk' = [disk EXCEPT ![f] = [data |-> d, mtime |-> clock]]

(* main of the proxy calls ensure_ca first. *)
Launch(p) ==
    /\ At(p, "off")
    /\ Goto(p, "load")
    /\ UNCHANGED <<diskVars, generated, ca, ca_loaded_, content, cert_cache_, issued, torn>>

LoadStep(p, from, to) ==
    /\ At(p, from)
    /\ Goto(p, to)
    /\ UNCHANGED <<diskVars, generated, cert_cache_, issued, torn>>

(* load_ca opens both files before it reads one.  A file is never removed, *)
(* so one that was there can still be read, with what it holds by then.    *)
OpenCertFile(p) ==
    /\ LoadStep(p, "load", IF Exists("cert") THEN "load_key" ELSE "load_none")
    /\ UNCHANGED <<ca, ca_loaded_, content>>

OpenKeyFile(p) ==
    /\ \/ LoadStep(p, "load_none", "create")
       \/ LoadStep(p, "load_key", IF Exists("key") THEN "read_cert" ELSE "create")
    /\ UNCHANGED <<ca, ca_loaded_, content>>

ReadCertFile(p) ==
    /\ LoadStep(p, "read_cert", "read_key")
    /\ content' = [content EXCEPT ![p] = disk["cert"].data]
    /\ UNCHANGED <<ca, ca_loaded_>>

(* The key is read last, then both parse or not.  Nothing relates one to   *)
(* the other.                                                              *)
MutLoadOpened(p) == content[p] # Absent /\ Exists("key")
MutLoadNever(p) == FALSE
Loadable(p) == content[p] \in Cas /\ disk["key"].data \in Cas

ReadKeyFile(p) ==
    /\ LoadStep(p, "read_key", IF Loadable(p) THEN "install" ELSE "create")
    /\ content' = [content EXCEPT ![p] = Absent]
    /\ IF Loadable(p)
       THEN /\ ca' = [ca EXCEPT ![p] = [cert |-> content[p], key |-> disk["key"].data]]
            /\ ca_loaded_' = [ca_loaded_ EXCEPT ![p] = TRUE]
       ELSE UNCHANGED <<ca, ca_loaded_>>

load_ca(p) == OpenCertFile(p) \/ OpenKeyFile(p) \/ ReadCertFile(p) \/ ReadKeyFile(p)

create_ca(p) ==
    /\ At(p, "create")
    /\ \E k \in Cas \ generated :
          /\ generated' = generated \cup {k}
          /\ ca' = [ca EXCEPT ![p] = [cert |-> k, key |-> k]]
    /\ Goto(p, "open_cert")
    /\ UNCHANGED <<diskVars, ca_loaded_, content, cert_cache_, issued, torn>>

(* save_ca, file by file. *)
MutSaveStep(p, from, file, data, to) ==
    /\ At(p, from)
    /\ IF disk[file].data \in Cas THEN UNCHANGED disk ELSE Put(file, data)
    /\ Goto(p, to)
    /\ UNCHANGED <<clock, generated, ca, content, cert_cache_, issued, torn>>
SaveStep(p, from, file, data, to) ==
    /\ At(p, from)
    /\ Put(file, data)
    /\ Goto(p, to)
    /\ UNCHANGED <<clock, generated, ca, content, cert_cache_, issued, torn>>

OpenCert(p) == SaveStep(p, "open_cert", "cert", Empty, "write_cert")
               /\ UNCHANGED ca_loaded_
WriteCert(p) == SaveStep(p, "write_cert", "cert", ca[p].cert, "open_key")
                /\ UNCHANGED ca_loaded_
OpenKey(p) == SaveStep(p, "open_key", "key", Empty, "write_key")
              /\ UNCHANGED ca_loaded_
WriteKey(p) == SaveStep(p, "write_key", "key", ca[p].key, "install")
               /\ ca_loaded_' = [ca_loaded_ EXCEPT ![p] = TRUE]

save_ca(p) == OpenCert(p) \/ WriteCert(p) \/ OpenKey(p) \/ WriteKey(p)

(* create_ca or save_ca failed: ensure_ca returns false and main exits, the *)
(* file being written left empty.                                          *)
Exit(p) ==
    /\ Goto(p, "off")
    /\ ca' = [ca EXCEPT ![p] = [cert |-> NoCa, key |-> NoCa]]
    /\ ca_loaded_' = [ca_loaded_ EXCEPT ![p] = FALSE]
    /\ content' = [content EXCEPT ![p] = Absent]
    /\ cert_cache_' = [cert_cache_ EXCEPT ![p] = [h \in Hosts |-> NoLeaf]]

MutGiveUp(p) ==
    /\ pc[p] \in Making
    /\ Goto(p, "serving")
    /\ UNCHANGED <<diskVars, generated, ca, ca_loaded_, content, cert_cache_, issued, torn>>
GiveUp(p) ==
    /\ pc[p] \in Making
    /\ Exit(p)
    /\ UNCHANGED <<diskVars, generated, issued, torn>>
-----------------------------------------------------------------------------
MutUpToDate ==
    /\ Exists("trust") /\ Exists("cert")
    /\ disk["trust"].mtime >= disk["cert"].mtime
UpToDate ==
    /\ Exists("trust") /\ Exists("cert") /\ Exists("pem")
    /\ disk["trust"].mtime >= disk["cert"].mtime
    /\ disk["pem"].mtime >= disk["cert"].mtime

InstallStep(p, from) ==
    /\ At(p, from)
    /\ UNCHANGED <<clock, generated, ca, ca_loaded_, cert_cache_, issued, torn>>

CheckInstalled(p) ==
    /\ InstallStep(p, "install")
    /\ Goto(p, IF UpToDate THEN "serving" ELSE "open_trust")
    /\ UNCHANGED <<disk, content>>

(* Both files open, the trust store's is emptied; then the certificate is  *)
(* read.                                                                   *)
OpenTrust(p) ==
    /\ InstallStep(p, "open_trust")
    /\ Exists("cert")
    /\ Put("trust", Empty)
    /\ Goto(p, "read_trust")
    /\ UNCHANGED content

ReadTrust(p) ==
    /\ InstallStep(p, "read_trust")
    /\ content' = [content EXCEPT ![p] = disk["cert"].data]
    /\ Goto(p, "write_trust")
    /\ UNCHANGED disk

WriteTrust(p) ==
    /\ InstallStep(p, "write_trust")
    /\ Put("trust", content[p])
    /\ Goto(p, "open_pem")
    /\ UNCHANGED content

OpenPem(p) ==
    /\ InstallStep(p, "open_pem")
    /\ Put("pem", Empty)
    /\ Goto(p, "write_pem")
    /\ UNCHANGED content

WritePem(p) ==
    /\ InstallStep(p, "write_pem")
    /\ Put("pem", content[p])
    /\ Goto(p, "unlink")
    /\ UNCHANGED content

Unlink(p) ==
    /\ InstallStep(p, "unlink")
    /\ Put("link", Absent)
    /\ Goto(p, "symlink")
    /\ UNCHANGED content

(* symlink fails, and is not checked, if another process made the link. *)
Symlink(p) ==
    /\ InstallStep(p, "symlink")
    /\ IF Exists("link") THEN UNCHANGED disk ELSE Put("link", Linked)
    /\ Goto(p, "serving")
    /\ UNCHANGED content

(* A file that cannot be opened is skipped; ensure_ca succeeds all the same. *)
SkipFile(p) ==
    /\ \/ InstallStep(p, "open_trust") /\ Goto(p, "serving")
       \/ InstallStep(p, "open_pem") /\ Goto(p, "unlink")
       \/ InstallStep(p, "unlink") /\ Goto(p, "serving")
    /\ UNCHANGED <<disk, content>>

install_ca_to_trust_store(p) ==
    \/ CheckInstalled(p) \/ OpenTrust(p) \/ ReadTrust(p) \/ WriteTrust(p)
    \/ OpenPem(p) \/ WritePem(p) \/ Unlink(p) \/ Symlink(p) \/ SkipFile(p)
-----------------------------------------------------------------------------
create_cert_for_host(p, h) == [host |-> h, issuer |-> ca[p].cert, signer |-> ca[p].key]

Serve(p, h, leaf) ==
    /\ cert_cache_' = [cert_cache_ EXCEPT ![p][h] = leaf]
    /\ issued' = issued \cup {leaf}

(* issue_for_host holds mutex_ and hands out the cached leaf or a new one. *)
(* ensure_ca, which it calls when the CA is not loaded, takes the same     *)
(* mutex again and never returns.                                          *)
issue_for_host(p, h) ==
    IF cert_cache_[p][h] # NoLeaf
    THEN Serve(p, h, cert_cache_[p][h]) /\ UNCHANGED pc
    ELSE IF ca_loaded_[p]
         THEN Serve(p, h, create_cert_for_host(p, h)) /\ UNCHANGED pc
         ELSE Goto(p, "relock") /\ UNCHANGED <<cert_cache_, issued>>

(* A client that names no host, or a leaf that cannot be made, gets no     *)
(* certificate and nothing changes.                                        *)
sni_callback(p, h) ==
    /\ At(p, "serving")
    /\ issue_for_host(p, h)
    /\ UNCHANGED <<diskVars, generated, ca, ca_loaded_, content, torn>>

(* A process is killed, or aborts. *)
Die(p) ==
    /\ ~At(p, "off")
    /\ Exit(p)
    /\ torn' = (torn \/ At(p, "write_pem"))
    /\ UNCHANGED <<diskVars, generated, issued>>

Tick ==
    /\ clock < MaxClock
    /\ clock' = clock + 1
    /\ UNCHANGED <<disk, generated, procVars, issued, torn>>

ensure_ca(p) ==
    \/ load_ca(p) \/ create_ca(p) \/ save_ca(p) \/ GiveUp(p)
    \/ install_ca_to_trust_store(p)

Next ==
    \/ Tick
    \/ \E p \in Procs : \/ Launch(p) \/ ensure_ca(p) \/ Die(p)
                        \/ \E h \in Hosts : sni_callback(p, h)

Spec == Init /\ [][Next]_vars

(* Nothing keeps two processes out of ensure_ca at once.  Some of the      *)
(* results below need that while one creates and saves a CA no other does, *)
(* nor is between the opening of the certificate and the end of load_ca    *)
(* (it would read the files of two pairs); or, besides, that no two        *)
(* create or install one.                                                  *)
Apart(steps) == \A p, q \in Procs : p # q /\ pc[p] \in steps => pc[q] \notin steps
CreateApart ==
    \A p, q \in Procs : p # q /\ pc[p] \in Making => pc[q] \notin Making \cup Loading
StartApart == CreateApart /\ Apart(Making \cup Installing)

ApartSpec == Init /\ [][Next /\ StartApart']_vars
-----------------------------------------------------------------------------
(* load_ca does not check that the key belongs to the certificate: a leaf  *)
(* signed by another key than its issuer's is refused by every client.     *)
(* The order of the writes in save_ca is enough, wherever a process died,  *)
(* unless one loads or creates a CA while another creates one.             *)
CaPairMatches == \A p \in Procs : ca_loaded_[p] => ca[p].cert = ca[p].key

(* A leaf handed out once stays good: it verifies under the certificate on *)
(* disk, which no later process replaces.                                  *)
IssuedVerify ==
    \A leaf \in issued : leaf.signer = leaf.issuer /\ disk["cert"].data = leaf.issuer

(* A process has a CA exactly from the end of load_ca or save_ca on, and   *)
(* saves a matching pair.                                                  *)
LoadedByMain ==
    \A p \in Procs :
        /\ ca_loaded_[p] <=> pc[p] \in Installing \cup {"serving"}
        /\ ca_loaded_[p] => ca[p].cert \in Cas /\ ca[p].key \in Cas
        /\ pc[p] \in Saving => ca[p].cert \in Cas /\ ca[p].key = ca[p].cert

(* While creating stays apart: what is on disk as a CA is made and used. *)
SavedInOrder ==
    /\ disk["key"].data \in Cas => disk["cert"].data = disk["key"].data
    /\ \A p \in Procs :
          /\ pc[p] \in Making => disk["key"].data \notin Cas
          /\ pc[p] = "load_none" => disk["cert"].data = Absent
          /\ pc[p] = "read_key" => content[p] = disk["cert"].data
          /\ pc[p] \in {"open_key", "write_key"} => disk["cert"].data = ca[p].cert
          /\ ca_loaded_[p] => /\ ca[p].cert = disk["cert"].data
                             /\ ca[p].key = disk["key"].data

LeavesVerify ==
    /\ issued # {} => disk["key"].data \in Cas
    /\ \A p \in Procs, h \in Hosts :
          cert_cache_[p][h] # NoLeaf => cert_cache_[p][h] \in issued

(* The inductive invariant for the proofs. *)
StoreInv == TypeOK /\ LoadedByMain /\ SavedInOrder /\ IssuedVerify /\ LeavesVerify

(* issue_for_host never calls ensure_ca, which would lock mutex_ twice:    *)
(* main serves nobody before the CA is loaded.                             *)
NoRelock == \A p \in Procs : ~At(p, "relock")

(* The comment "Already installed and up to date": when no installation is *)
(* under way, times that look up to date mean the CA is in the trust store *)
(* and in cert.pem.                                                        *)
Installed ==
    /\ disk["cert"].data \in Cas
    /\ disk["trust"].data = disk["cert"].data
    /\ disk["pem"].data = disk["cert"].data

NobodyInstalls == \A p \in Procs : pc[p] \notin Saving \cup Installing

UpToDateIsInstalled == NobodyInstalls /\ UpToDate => Installed

(* It is so unless a process died after it emptied cert.pem: every other   *)
(* death and every file that could not be opened is repaired at the next   *)
(* start.                                                                  *)
UpToDateUnlessTorn == UpToDateIsInstalled \/ torn
=============================================================================

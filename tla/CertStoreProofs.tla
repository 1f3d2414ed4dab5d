--------------------------- MODULE CertStoreProofs ---------------------------
(***************************************************************************)
(* Proofs about the certificate store for any number of hosts, key pairs   *)
(* and seconds: what holds however the processes that share the disk       *)
(* interleave, and what needs their starts to be apart.                    *)
(***************************************************************************)
EXTENDS CertStore, TLAPS

(* The steps of ensure_ca that write a file, in save_ca or in the install. *)
Write(p) ==
    \/ OpenCert(p) \/ WriteCert(p) \/ OpenKey(p) \/ WriteKey(p)
    \/ OpenTrust(p) \/ WriteTrust(p) \/ OpenPem(p) \/ WritePem(p)
    \/ Unlink(p) \/ Symlink(p)

(* The steps that write none. *)
Quiet(p) ==
    \/ Launch(p) \/ load_ca(p) \/ create_ca(p) \/ GiveUp(p) \/ CheckInstalled(p)
    \/ ReadTrust(p) \/ SkipFile(p) \/ Die(p) \/ \E h \in Hosts : sni_callback(p, h)

LEMMA NextForms == Next => Tick \/ \E p \in Procs : Quiet(p) \/ Write(p)
  BY DEF Next, ensure_ca, save_ca, install_ca_to_trust_store, Quiet, Write

LEMMA TypeInit == Init => TypeOK /\ LoadedByMain
<1> SUFFICES ASSUME Init PROVE TypeOK /\ LoadedByMain
  OBVIOUS
<1>1. disk \in [Files -> [data : Data, mtime : 0..MaxClock]]
  BY ClockAssumption DEF Init, Data
<1>2. clock \in 1..MaxClock
  BY ClockAssumption DEF Init
<1>3. content \in [Procs -> Data]
  BY DEF Init, Data
<1>4. TypeOK
  BY <1>1, <1>2, <1>3 DEF Init, TypeOK
<1>5. LoadedByMain
  BY DEF Init, LoadedByMain, Installing, Saving
<1>6. QED
  BY <1>4, <1>5

LEMMA PutType ==
    ASSUME TypeOK, NEW f \in Files, NEW d \in Data, Put(f, d)
    PROVE  disk' \in [Files -> [data : Data, mtime : 0..MaxClock]]
  BY ClockAssumption DEF TypeOK, Put

LEMMA QuietType ==
    ASSUME TypeOK, LoadedByMain, NEW p \in Procs, Quiet(p)
    PROVE  TypeOK' /\ LoadedByMain'
<1> USE DEF TypeOK, LoadedByMain, At, Goto, diskVars
<1>1. CASE Launch(p)
  BY <1>1 DEF Launch, Installing, Saving
<1>2. CASE load_ca(p)
  <2>1. CASE OpenCertFile(p) \/ OpenKeyFile(p)
    <3>1. PICK to \in {"load_none", "load_key", "read_cert", "create"} :
            pc[p] \in {"load", "load_none", "load_key"} /\ pc' = [pc EXCEPT ![p] = to]
      BY <2>1 DEF OpenCertFile, OpenKeyFile, LoadStep
    <3>2. /\ UNCHANGED <<disk, clock, generated, ca, ca_loaded_>>
          /\ UNCHANGED <<content, cert_cache_, issued, torn>>
      BY <2>1 DEF OpenCertFile, OpenKeyFile, LoadStep
    <3>3. QED
      BY <3>1, <3>2 DEF Installing, Saving, Loading
  <2>2. CASE ReadCertFile(p)
    <3>1. disk["cert"].data \in Data
      BY DEF Files
    <3>2. /\ pc[p] = "read_cert" /\ pc' = [pc EXCEPT ![p] = "read_key"]
          /\ content' = [content EXCEPT ![p] = disk["cert"].data]
          /\ UNCHANGED <<disk, clock, generated, ca, ca_loaded_, cert_cache_, issued, torn>>
      BY <2>2 DEF ReadCertFile, LoadStep
    <3>3. QED
      BY <3>1, <3>2 DEF Installing, Saving, Loading
  <2>3. CASE ReadKeyFile(p) /\ Loadable(p)
    <3> DEFINE pair == [cert |-> content[p], key |-> disk["key"].data]
    <3>1. /\ pair.cert \in Cas /\ pair.key \in Cas
          /\ ca' = [ca EXCEPT ![p] = pair]
          /\ ca_loaded_' = [ca_loaded_ EXCEPT ![p] = TRUE]
          /\ pc' = [pc EXCEPT ![p] = "install"]
          /\ content' = [content EXCEPT ![p] = Absent]
          /\ UNCHANGED <<disk, clock, generated, cert_cache_, issued, torn>>
      BY <2>3 DEF ReadKeyFile, LoadStep, Loadable
    <3>2. pair \in [cert : Cas \cup {NoCa}, key : Cas \cup {NoCa}] /\ Absent \in Data
      BY <3>1 DEF Data
    <3> HIDE DEF pair
    <3>3. TypeOK'
      BY <3>1, <3>2 DEF Installing
    <3>4. LoadedByMain'
      BY <3>1 DEF Installing, Saving
    <3>5. QED
      BY <3>3, <3>4
  <2>4. CASE ReadKeyFile(p) /\ ~Loadable(p)
    <3>1. /\ pc[p] = "read_key" /\ pc' = [pc EXCEPT ![p] = "create"]
          /\ content' = [content EXCEPT ![p] = Absent] /\ Absent \in Data
          /\ UNCHANGED <<disk, clock, generated, ca, ca_loaded_>>
          /\ UNCHANGED <<cert_cache_, issued, torn>>
      BY <2>4 DEF ReadKeyFile, LoadStep, Data
    <3>2. QED
      BY <3>1 DEF Installing, Saving
  <2>5. QED
    BY <1>2, <2>1, <2>2, <2>3, <2>4 DEF load_ca
<1>3. CASE create_ca(p)
  BY <1>3 DEF create_ca, Saving, Installing
<1>4. CASE GiveUp(p) \/ Die(p)
  <2>1. Exit(p) /\ torn' \in BOOLEAN /\ UNCHANGED <<disk, clock, generated, issued>>
    BY <1>4 DEF GiveUp, Die
  <2>2. Absent \in Data
    BY DEF Data
  <2>3. TypeOK'
    BY <2>1, <2>2 DEF Exit
  <2>4. LoadedByMain'
    BY <2>1 DEF Exit, Installing, Saving
  <2>5. QED
    BY <2>3, <2>4
<1>5. CASE CheckInstalled(p) \/ ReadTrust(p) \/ SkipFile(p)
  <2>1. disk["cert"].data \in Data
    BY DEF Files
  <2>2. QED
    <3>1. CASE ReadTrust(p)
      BY <2>1, <3>1 DEF ReadTrust, InstallStep, Installing, Saving
    <3>2. CASE CheckInstalled(p) \/ SkipFile(p)
      BY <3>2 DEF CheckInstalled, SkipFile, InstallStep, Installing, Saving
    <3>3. QED
      BY <1>5, <3>1, <3>2
<1>6. CASE \E h \in Hosts : sni_callback(p, h)
  <2>1. PICK h \in Hosts : sni_callback(p, h)
    BY <1>6
  <2>2. CASE pc' = pc
    <3>1. PICK leaf \in Leaves : Serve(p, h, leaf)
      BY <2>1, <2>2 DEF sni_callback, issue_for_host, create_cert_for_host, Leaves
    <3>2. QED
      BY <2>1, <2>2, <3>1 DEF sni_callback, issue_for_host, Serve
  <2>3. CASE pc' # pc
    BY <2>1, <2>3 DEF sni_callback, issue_for_host, Installing, Saving
  <2>4. QED
    BY <2>2, <2>3
<1>7. QED
  BY <1>1, <1>2, <1>3, <1>4, <1>5, <1>6 DEF Quiet

LEMMA WriteType ==
    ASSUME TypeOK, LoadedByMain, NEW p \in Procs, Write(p)
    PROVE  TypeOK' /\ LoadedByMain'
<1> USE DEF At, Goto
<1>1. CASE OpenCert(p) \/ WriteCert(p) \/ OpenKey(p) \/ WriteKey(p)
  <2>1. PICK f \in Files, d \in Data : Put(f, d)
    BY <1>1 DEF OpenCert, WriteCert, OpenKey, WriteKey, SaveStep, Files, Data,
                LoadedByMain, Saving
  <2>2. disk' \in [Files -> [data : Data, mtime : 0..MaxClock]]
    BY <2>1, PutType
  <2>3. TypeOK'
    BY <1>1, <2>2 DEF OpenCert, WriteCert, OpenKey, WriteKey, SaveStep, TypeOK,
                      Installing, Saving
  <2>4. LoadedByMain'
    <3>1. CASE OpenCert(p) \/ WriteCert(p) \/ OpenKey(p)
      BY <1>1, <3>1 DEF OpenCert, WriteCert, OpenKey, SaveStep, TypeOK, LoadedByMain,
                        Installing, Saving
    <3>2. CASE WriteKey(p)
      BY <1>1, <3>2 DEF WriteKey, SaveStep, TypeOK, LoadedByMain, Installing, Saving
    <3>3. QED
      BY <1>1, <3>1, <3>2
  <2>5. QED
    BY <2>3, <2>4
<1>2. CASE OpenTrust(p) \/ WriteTrust(p) \/ OpenPem(p) \/ WritePem(p)
           \/ Unlink(p) \/ Symlink(p)
  <2>1. \/ UNCHANGED disk
        \/ \E f \in Files, d \in Data : Put(f, d)
    BY <1>2 DEF OpenTrust, WriteTrust, OpenPem, WritePem, Unlink, Symlink, Files, Data,
                TypeOK
  <2>2. disk' \in [Files -> [data : Data, mtime : 0..MaxClock]]
    BY <2>1, PutType DEF TypeOK
  <2>3. content' \in [Procs -> Data]
    BY <1>2 DEF OpenTrust, WriteTrust, OpenPem, WritePem, Unlink, Symlink, TypeOK, Files
  <2>4. PICK to \in Installing \cup {"serving"} : InstallStep(p, pc[p]) /\ Goto(p, to)
    BY <1>2 DEF OpenTrust, WriteTrust, OpenPem, WritePem, Unlink, Symlink, InstallStep,
                Installing
  <2>5. pc[p] \in Installing
    BY <1>2 DEF OpenTrust, WriteTrust, OpenPem, WritePem, Unlink, Symlink, InstallStep,
                Installing
  <2>6. TypeOK'
    BY <2>2, <2>3, <2>4 DEF InstallStep, TypeOK
  <2>7. LoadedByMain'
    BY <2>4, <2>5 DEF InstallStep, TypeOK, LoadedByMain, Installing, Saving
  <2>8. QED
    BY <2>6, <2>7
<1>3. QED
  BY <1>1, <1>2 DEF Write

LEMMA TypeStep ==
    ASSUME TypeOK, LoadedByMain, [Next]_vars
    PROVE  TypeOK' /\ LoadedByMain'
<1>1. CASE Tick
  <2>1. clock' \in 1..MaxClock
    BY <1>1, ClockAssumption DEF Tick, TypeOK
  <2>2. QED
    BY <1>1, <2>1 DEF Tick, TypeOK, LoadedByMain, procVars
<1>2. CASE UNCHANGED vars
  BY <1>2 DEF vars, TypeOK, LoadedByMain
<1>3. QED
  BY <1>1, <1>2, NextForms, QuietType, WriteType
-----------------------------------------------------------------------------
(* Type correctness, however many processes share the disk. *)
THEOREM TypeCorrect == Spec => []TypeOK
<1>1. TypeOK /\ LoadedByMain /\ [Next]_vars => (TypeOK /\ LoadedByMain)'
  BY TypeStep
<1>2. QED
  BY TypeInit, <1>1, PTL DEF Spec

(* No process ever waits for the mutex it holds. *)
THEOREM NeverRelocks == Spec => []NoRelock
<1> DEFINE Inv == TypeOK /\ LoadedByMain /\ NoRelock
<1>1. Init => Inv
  BY TypeInit DEF Init, NoRelock, At
<1>2. Inv /\ [Next]_vars => Inv'
  <2> SUFFICES ASSUME Inv, [Next]_vars PROVE NoRelock'
    BY TypeStep
  <2> USE DEF NoRelock, At, Goto, TypeOK
  <2>1. CASE Tick \/ UNCHANGED vars
    BY <2>1 DEF Tick, procVars, vars
  <2>2. ASSUME NEW p \in Procs, Quiet(p) PROVE NoRelock'
    <3>1. CASE \E h \in Hosts : sni_callback(p, h)
      BY <3>1 DEF sni_callback, issue_for_host, LoadedByMain
    <3>2. CASE Launch(p) \/ load_ca(p) \/ create_ca(p)
      BY <3>2 DEF Launch, load_ca, OpenCertFile, OpenKeyFile, ReadCertFile, ReadKeyFile, LoadStep,
                  create_ca
    <3>3. CASE GiveUp(p) \/ Die(p) \/ CheckInstalled(p) \/ ReadTrust(p) \/ SkipFile(p)
      BY <3>3 DEF GiveUp, Die, Exit, Making, CheckInstalled, ReadTrust, SkipFile
    <3>4. QED
      BY <2>2, <3>1, <3>2, <3>3 DEF Quiet
  <2>3. ASSUME NEW p \in Procs, Write(p) PROVE NoRelock'
    BY <2>3 DEF Write, OpenCert, WriteCert, OpenKey, WriteKey, SaveStep, OpenTrust, WriteTrust,
                OpenPem, WritePem, Unlink, Symlink
  <2>4. QED
    BY <2>1, <2>2, <2>3, NextForms
<1>3. QED
  BY <1>1, <1>2, PTL DEF Spec
-----------------------------------------------------------------------------
(* What holds while the creating of a CA stays apart. *)
PairInv == SavedInOrder /\ IssuedVerify /\ LeavesVerify

LEMMA PairInit == Init => PairInv
  BY CasAssumption
     DEF Init, PairInv, SavedInOrder, IssuedVerify, LeavesVerify, Saving, Files

(* The steps of save_ca: the certificate is complete before the key is. *)
LEMMA SavePair ==
    ASSUME CreateApart, StoreInv, NEW p \in Procs,
           OpenCert(p) \/ WriteCert(p) \/ OpenKey(p) \/ WriteKey(p)
    PROVE  PairInv'
<1> USE DEF StoreInv, TypeOK, At, Goto, Files
<1>1. disk["key"].data \notin Cas /\ issued = {} /\ ca[p].cert \in Cas /\ ca[p].key = ca[p].cert
      /\ ~ca_loaded_[p]
  BY DEF OpenCert, WriteCert, OpenKey, WriteKey, SaveStep, Making, Saving, Installing, SavedInOrder,
         LoadedByMain, LeavesVerify
<1>2. Empty \notin Cas
  BY CasAssumption
<1>3. IssuedVerify' /\ LeavesVerify'
  BY <1>1 DEF OpenCert, WriteCert, OpenKey, WriteKey, SaveStep, IssuedVerify, LeavesVerify
<1>4. ASSUME NEW q \in Procs \ {p}
      PROVE  pc'[q] \notin Making \cup Loading /\ ~ca_loaded_'[q]
  <2>1. pc[p] \in Making /\ pc'[q] = pc[q] /\ ca_loaded_'[q] = ca_loaded_[q]
    BY DEF OpenCert, WriteCert, OpenKey, WriteKey, SaveStep, Making, Saving
  <2>2. ~ca_loaded_[q]
    BY <1>1 DEF SavedInOrder, LoadedByMain
  <2>3. QED
    BY <2>1, <2>2 DEF CreateApart
<1>5. {"open_key", "write_key"} \subseteq Making /\ {"load_none", "read_key"} \subseteq Loading
  BY DEF Making, Saving, Loading
<1>6. CASE OpenCert(p)
  <2>1. disk'["key"].data \notin Cas /\ pc'[p] = "write_cert" /\ ~ca_loaded_'[p]
    BY <1>1, <1>6 DEF OpenCert, SaveStep, Put
  <2>2. QED
    BY <1>3, <1>4, <1>5, <2>1 DEF PairInv, SavedInOrder
<1>7. CASE WriteCert(p)
  <2>1. /\ disk'["key"].data \notin Cas /\ pc'[p] = "open_key" /\ ~ca_loaded_'[p]
        /\ disk'["cert"].data = ca'[p].cert
    BY <1>1, <1>7 DEF WriteCert, SaveStep, Put
  <2>2. QED
    BY <1>3, <1>4, <1>5, <2>1 DEF PairInv, SavedInOrder
<1>8. CASE OpenKey(p)
  <2>1. /\ disk'["key"].data = Empty /\ pc'[p] = "write_key" /\ ~ca_loaded_'[p]
        /\ disk'["cert"].data = ca'[p].cert
    BY <1>1, <1>8 DEF OpenKey, SaveStep, Put, SavedInOrder
  <2>2. QED
    BY <1>2, <1>3, <1>4, <1>5, <2>1 DEF PairInv, SavedInOrder
<1>9. CASE WriteKey(p)
  <2>1. /\ disk'["key"].data = ca'[p].key /\ pc'[p] = "install"
        /\ disk'["cert"].data = ca'[p].cert /\ ca'[p].cert = ca'[p].key
    BY <1>1, <1>9 DEF WriteKey, SaveStep, Put, SavedInOrder
  <2>2. pc'[p] \notin Making
    BY <2>1 DEF Making, Saving
  <2>3. QED
    BY <1>3, <1>4, <1>5, <2>1, <2>2 DEF PairInv, SavedInOrder
<1>10. QED
  BY <1>6, <1>7, <1>8, <1>9

(* The steps of the installation leave the CA alone. *)
LEMMA InstallPair ==
    ASSUME CreateApart, StoreInv, NEW p \in Procs,
           \/ OpenTrust(p) \/ ReadTrust(p) \/ WriteTrust(p) \/ OpenPem(p) \/ WritePem(p)
           \/ Unlink(p) \/ Symlink(p) \/ CheckInstalled(p) \/ SkipFile(p)
    PROVE  PairInv'
<1> USE DEF StoreInv, TypeOK, At, Goto, Files
<1>1. disk'["key"] = disk["key"] /\ disk'["cert"] = disk["cert"]
  BY DEF OpenTrust, ReadTrust, WriteTrust, OpenPem, WritePem, Unlink, Symlink, CheckInstalled,
         SkipFile, Put
<1>2. /\ pc'[p] \in Installing \cup {"serving"}
      /\ \A q \in Procs \ {p} : pc'[q] = pc[q] /\ content'[q] = content[q]
  BY DEF OpenTrust, ReadTrust, WriteTrust, OpenPem, WritePem, Unlink, Symlink, CheckInstalled,
         SkipFile, Installing, InstallStep
<1>3. UNCHANGED <<ca, ca_loaded_, cert_cache_, issued>>
  BY DEF OpenTrust, ReadTrust, WriteTrust, OpenPem, WritePem, Unlink, Symlink, CheckInstalled,
         SkipFile, InstallStep
<1>4. SavedInOrder'
  <2>1. /\ pc'[p] \notin Making /\ {"open_key", "write_key"} \subseteq Making
        /\ pc'[p] \notin {"load_none", "read_key"}
    BY <1>2 DEF Installing, Making, Saving
  <2>2. QED
    BY <1>1, <1>2, <1>3, <2>1 DEF SavedInOrder
<1>5. QED
  BY <1>1, <1>3, <1>4 DEF PairInv, IssuedVerify, LeavesVerify

(* The steps that write no file. *)
LEMMA QuietPair ==
    ASSUME CreateApart, StoreInv, NEW p \in Procs, Quiet(p)
    PROVE  PairInv'
<1> USE DEF StoreInv, At, Goto, diskVars
<1>1. CASE Launch(p) \/ create_ca(p)
  BY <1>1 DEF Launch, create_ca, TypeOK, PairInv, SavedInOrder, IssuedVerify, LeavesVerify,
              LoadedByMain, Installing, Making, Saving
<1>2. CASE load_ca(p)
  <2>1. /\ UNCHANGED <<disk, issued, cert_cache_>>
        /\ pc[p] \in {"load"} \cup Loading /\ ~ca_loaded_[p]
    BY <1>2 DEF load_ca, OpenCertFile, OpenKeyFile, ReadCertFile, ReadKeyFile, LoadStep, Loading,
                LoadedByMain, Installing, diskVars
  <2>2. ASSUME NEW q \in Procs \ {p}
        PROVE  /\ pc'[q] = pc[q] /\ ca'[q] = ca[q] /\ ca_loaded_'[q] = ca_loaded_[q]
               /\ content'[q] = content[q]
    BY <1>2 DEF load_ca, OpenCertFile, OpenKeyFile, ReadCertFile, ReadKeyFile, LoadStep, TypeOK
  <2>3. /\ ca_loaded_'[p] => /\ ca'[p].cert = disk["cert"].data
                            /\ ca'[p].key = disk["key"].data
        /\ pc'[p] \in Making => disk["key"].data \notin Cas
        /\ pc'[p] = "load_none" => disk["cert"].data = Absent
        /\ pc'[p] = "read_key" => content'[p] = disk["cert"].data
        /\ pc'[p] \notin {"open_key", "write_key"}
    <3>1. CASE OpenCertFile(p)
      BY <2>1, <3>1 DEF OpenCertFile, LoadStep, Exists, TypeOK, Making, Saving
    <3>2. CASE OpenKeyFile(p)
      <4>1. pc'[p] \in {"read_cert", "create"} /\ ~ca_loaded_'[p]
        BY <2>1, <3>2 DEF OpenKeyFile, LoadStep, TypeOK
      <4>2. pc'[p] = "create" => disk["cert"].data = Absent \/ disk["key"].data = Absent
        BY <3>2 DEF OpenKeyFile, LoadStep, TypeOK, Exists, SavedInOrder
      <4>3. pc'[p] = "create" => disk["key"].data \notin Cas
        BY <4>2, CasAssumption DEF SavedInOrder
      <4>4. QED
        BY <4>1, <4>3 DEF Making, Saving
    <3>3. CASE ReadCertFile(p)
      BY <2>1, <3>3 DEF ReadCertFile, LoadStep, TypeOK, Making, Saving
    <3>4. CASE ReadKeyFile(p)
      <4>1. content[p] = disk["cert"].data /\ pc'[p] \in {"install", "create"}
        BY <3>4 DEF ReadKeyFile, LoadStep, TypeOK, SavedInOrder
      <4>2. CASE Loadable(p)
        BY <2>1, <3>4, <4>1, <4>2 DEF ReadKeyFile, LoadStep, TypeOK, Making, Saving
      <4>3. CASE ~Loadable(p)
        <5>1. disk["key"].data \notin Cas
          BY <4>1, <4>3 DEF Loadable, SavedInOrder
        <5>2. ~ca_loaded_'[p]
          BY <2>1, <3>4, <4>3 DEF ReadKeyFile
        <5>3. QED
          BY <4>1, <5>1, <5>2
      <4>4. QED
        BY <4>2, <4>3
    <3>5. QED
      BY <1>2, <3>1, <3>2, <3>3, <3>4 DEF load_ca
  <2>4. SavedInOrder'
    BY <2>1, <2>2, <2>3 DEF SavedInOrder
  <2>5. QED
    BY <2>1, <2>4 DEF PairInv, IssuedVerify, LeavesVerify
<1>3. CASE GiveUp(p) \/ Die(p)
  <2>1. UNCHANGED <<disk, issued>> /\ Exit(p)
    BY <1>3 DEF GiveUp, Die
  <2>2. /\ pc'[p] = "off" /\ ~ca_loaded_'[p] /\ cert_cache_'[p] = [h \in Hosts |-> NoLeaf]
        /\ \A q \in Procs \ {p} : /\ pc'[q] = pc[q] /\ ca'[q] = ca[q]
                                 /\ content'[q] = content[q]
                                 /\ ca_loaded_'[q] = ca_loaded_[q]
                                 /\ cert_cache_'[q] = cert_cache_[q]
    BY <2>1 DEF Exit, TypeOK
  <2>3. SavedInOrder'
    BY <2>1, <2>2 DEF SavedInOrder, Making, Saving
  <2>4. LeavesVerify'
    BY <2>1, <2>2 DEF LeavesVerify
  <2>5. QED
    BY <2>1, <2>3, <2>4 DEF PairInv, IssuedVerify
<1>4. CASE \E h \in Hosts : sni_callback(p, h)
  <2>1. PICK h \in Hosts : sni_callback(p, h)
    BY <1>4
  <2>2. ca_loaded_[p] /\ UNCHANGED <<disk, ca, ca_loaded_, content>>
    BY <2>1 DEF sni_callback, issue_for_host, LoadedByMain
  <2>3. PICK leaf \in Leaves : /\ Serve(p, h, leaf) /\ UNCHANGED pc
                              /\ leaf.issuer = disk["cert"].data
                              /\ leaf.signer = leaf.issuer
    <3>1. CASE cert_cache_[p][h] # NoLeaf
      BY <2>1, <3>1 DEF sni_callback, issue_for_host, LeavesVerify, IssuedVerify, TypeOK
    <3>2. CASE cert_cache_[p][h] = NoLeaf
      <4>1. ca[p].cert = disk["cert"].data /\ ca[p].key = ca[p].cert /\ ca[p].cert \in Cas
        BY <2>2 DEF LoadedByMain, SavedInOrder
      <4>2. QED
        BY <2>1, <2>2, <3>2, <4>1 DEF sni_callback, issue_for_host, create_cert_for_host, Leaves
    <3>3. QED
      BY <3>1, <3>2
  <2>4. SavedInOrder'
    BY <2>2, <2>3 DEF SavedInOrder
  <2>5. IssuedVerify'
    BY <2>2, <2>3 DEF IssuedVerify, Serve
  <2>6. disk["key"].data \in Cas
    BY <2>2 DEF LoadedByMain, SavedInOrder
  <2>7. LeavesVerify'
    BY <2>2, <2>3, <2>6 DEF LeavesVerify, Serve, TypeOK
  <2>8. QED
    BY <2>4, <2>5, <2>7 DEF PairInv
<1>5. QED
  BY <1>1, <1>2, <1>3, <1>4, InstallPair DEF Quiet

LEMMA PairStep ==
    ASSUME CreateApart, StoreInv, [Next]_vars
    PROVE  PairInv'
<1>1. CASE Tick \/ UNCHANGED vars
  BY <1>1 DEF Tick, procVars, vars, StoreInv, PairInv, SavedInOrder, IssuedVerify, LeavesVerify
<1>2. QED
  BY <1>1, NextForms, QuietPair, SavePair, InstallPair DEF Write

LEMMA StoreInvariant == Spec /\ []CreateApart => []StoreInv
<1>1. StoreInv <=> TypeOK /\ LoadedByMain /\ PairInv
  BY DEF StoreInv, PairInv
<1>2. Init => StoreInv
  BY TypeInit, PairInit, <1>1
<1>3. CreateApart /\ StoreInv /\ [Next]_vars => StoreInv'
  <2> SUFFICES ASSUME CreateApart, StoreInv, [Next]_vars PROVE StoreInv'
    OBVIOUS
  <2>1. TypeOK' /\ LoadedByMain'
    BY TypeStep DEF StoreInv
  <2>2. PairInv'
    BY PairStep
  <2>3. QED
    BY <2>1, <2>2 DEF StoreInv, PairInv
<1>4. QED
  BY <1>2, <1>3, PTL DEF Spec

(* The key a process signs with belongs to its certificate, wherever its   *)
(* predecessors died and whatever runs beside it, as long as no process    *)
(* creates a CA while another loads or creates one.                        *)
THEOREM PairMatches == Spec /\ []CreateApart => []CaPairMatches
<1>1. StoreInv => CaPairMatches
  BY DEF StoreInv, LoadedByMain, SavedInOrder, CaPairMatches
<1>2. QED
  BY StoreInvariant, <1>1, PTL

(* ... and what any of them ever issued verifies under the certificate on  *)
(* disk.                                                                   *)
THEOREM LeavesStayValid == Spec /\ []CreateApart => []IssuedVerify
<1>1. StoreInv => IssuedVerify
  BY DEF StoreInv
<1>2. QED
  BY StoreInvariant, <1>1, PTL
-----------------------------------------------------------------------------
(* The trust store and cert.pem, while one process at a time starts:       *)
(* nothing is in them before the CA is complete, the trust store is        *)
(* written before cert.pem is touched, and neither is written again once   *)
(* cert.pem has been, since their times then look up to date.  An emptied  *)
(* cert.pem is being written, or was left so by a process that died.       *)
Stored == disk["cert"].data

InOrder ==
    /\ \A f \in Files : disk[f].mtime <= clock
    /\ Exists("cert") => disk["cert"].mtime > 0
    /\ disk["key"].data \notin Cas => ~Exists("trust") /\ disk["pem"].data = System
    /\ Exists("trust") => disk["trust"].mtime >= disk["cert"].mtime

PemLast ==
    /\ disk["pem"].data \in {System, Empty, Stored}
    /\ disk["pem"].data = System => disk["pem"].mtime = 0
    /\ disk["pem"].data # System => /\ disk["trust"].data = Stored
                                    /\ disk["pem"].mtime >= disk["cert"].mtime
    /\ disk["pem"].data = Empty => torn \/ \E p \in Procs : At(p, "write_pem")

Copying(p) ==
    /\ pc[p] \in {"open_trust", "read_trust", "write_trust"} => disk["pem"].data = System
    /\ pc[p] \in {"write_trust", "open_pem", "write_pem"} => content[p] = Stored
    /\ pc[p] \in {"open_pem", "write_pem"} => disk["trust"].data = Stored

InstallInv == InOrder /\ PemLast /\ \A p \in Procs : Copying(p)

LEMMA Marks ==
    /\ {Absent, Empty, System} \cap Cas = {}
    /\ Absent # Empty /\ Absent # System /\ Empty # System
  BY CasAssumption DEF Absent, Empty, System

(* A write stamps its file with the time, and leaves the others alone.     *)
LEMMA Stamped ==
    ASSUME TypeOK, NEW f \in Files, NEW d, Put(f, d), UNCHANGED clock,
           \A g \in Files : disk[g].mtime <= clock
    PROVE  /\ disk'[f].data = d /\ disk'[f].mtime = clock
           /\ \A g \in Files \ {f} : disk'[g] = disk[g]
           /\ \A g \in Files : disk'[g].mtime <= clock'
           /\ clock \in Nat /\ clock > 0
<1>1. clock \in Nat /\ clock > 0
  BY ClockAssumption DEF TypeOK
<1>2. disk'[f].data = d /\ disk'[f].mtime = clock /\ \A g \in Files \ {f} : disk'[g] = disk[g]
  BY DEF TypeOK, Put
<1> QED
  BY <1>1, <1>2

LEMMA InstallInit == Init => InstallInv
<1> SUFFICES ASSUME Init PROVE InstallInv
  OBVIOUS
<1>1. InOrder
  BY DEF Init, InOrder, Exists, Files
<1>2. PemLast
  BY Marks DEF Init, PemLast, Files
<1>3. \A p \in Procs : Copying(p)
  BY DEF Init, Copying
<1> QED
  BY <1>1, <1>2, <1>3 DEF InstallInv

(* Beside a process that creates or installs a CA nobody is copying one.   *)
LEMMA OthersIdle ==
    ASSUME StartApart, NEW p \in Procs, pc[p] \in Making \cup Installing,
           \A q \in Procs \ {p} : pc'[q] = pc[q]
    PROVE  \A q \in Procs \ {p} : Copying(q)'
<1> SUFFICES ASSUME NEW q \in Procs \ {p} PROVE Copying(q)'
  OBVIOUS
<1>1. pc'[q] \notin Making \cup Installing
  BY DEF StartApart, Apart
<1>2. QED
  BY <1>1 DEF Copying, Installing

LEMMA StartThenCreate == StartApart => CreateApart
  BY DEF StartApart

(* A CA is saved when none was complete, and nothing has been copied.      *)
LEMMA SaveInstall ==
    ASSUME StartApart, StoreInv, InstallInv, NEW p \in Procs,
           OpenCert(p) \/ WriteCert(p) \/ OpenKey(p) \/ WriteKey(p)
    PROVE  InstallInv'
<1>1. /\ disk["key"].data \notin Cas /\ pc[p] \in Saving
      /\ pc'[p] \in Saving \cup {"install"} /\ UNCHANGED <<clock, content, torn>>
  BY DEF OpenCert, WriteCert, OpenKey, WriteKey, SaveStep, At, Goto, Making, Saving, StoreInv,
         SavedInOrder, TypeOK
<1>2. \A g \in Files : disk[g].mtime <= clock
  BY DEF InstallInv, InOrder
<1>3. PICK f \in {"cert", "key"} : \E d : Put(f, d)
  BY DEF OpenCert, WriteCert, OpenKey, WriteKey, SaveStep
<1>4. /\ disk'[f].mtime = clock /\ \A g \in Files \ {f} : disk'[g] = disk[g]
      /\ \A g \in Files : disk'[g].mtime <= clock'
      /\ clock \in Nat /\ clock > 0
  BY <1>1, <1>2, <1>3, Stamped DEF StoreInv, Files
<1>5. /\ disk'["trust"] = disk["trust"] /\ disk'["pem"] = disk["pem"]
      /\ disk["trust"].data = Absent /\ disk["pem"].data = System
  BY <1>1, <1>3, <1>4 DEF Files, InstallInv, InOrder, Exists
<1>6. InOrder'
  <2>1. Exists("cert")' => disk'["cert"].mtime > 0
    BY <1>3, <1>4 DEF InstallInv, InOrder, Exists, Files
  <2> QED
    BY <1>4, <1>5, <2>1 DEF InOrder, Exists
<1>7. PemLast'
  BY <1>5, Marks DEF InstallInv, PemLast
<1>8. Copying(p)'
  BY <1>1 DEF Copying, Saving
<1>9. \A q \in Procs \ {p} : pc'[q] = pc[q]
  BY DEF OpenCert, WriteCert, OpenKey, WriteKey, SaveStep, Goto, StoreInv, TypeOK
<1>10. \A q \in Procs \ {p} : Copying(q)'
  BY <1>1, <1>9, OthersIdle DEF Making
<1> QED
  BY <1>6, <1>7, <1>8, <1>10 DEF InstallInv

(* A process that is loaded has its CA on disk. *)
LEMMA StoredByNow ==
    ASSUME StoreInv, NEW p \in Procs, pc[p] \in Installing \cup {"serving"}
    PROVE  Stored \in Cas /\ disk["key"].data \in Cas /\ disk["key"].data = Stored
  BY DEF StoreInv, LoadedByMain, SavedInOrder, Stored

(* Once cert.pem has been touched the times are up to date.                *)
LEMMA LooksUpToDate ==
    ASSUME InstallInv, Stored \in Cas, disk["pem"].data # System
    PROVE  UpToDate
<1>1. disk["trust"].data = Stored /\ disk["pem"].mtime >= disk["cert"].mtime
      /\ disk["pem"].data \in {Empty, Stored}
  BY DEF InstallInv, PemLast
<1>2. Exists("cert") /\ Exists("trust") /\ Exists("pem")
  BY <1>1, Marks DEF Exists, Stored
<1> QED
  BY <1>1, <1>2 DEF UpToDate, InstallInv, InOrder

LEMMA CopyInstall ==
    ASSUME StartApart, StoreInv, InstallInv, NEW p \in Procs,
           OpenTrust(p) \/ WriteTrust(p) \/ OpenPem(p) \/ WritePem(p) \/ Unlink(p) \/ Symlink(p)
    PROVE  InstallInv'
<1>1. pc[p] \in Installing /\ UNCHANGED <<clock, torn>> /\ pc = [q \in Procs |-> pc[q]]
  <2>1. pc = [q \in Procs |-> pc[q]]
    BY DEF StoreInv, TypeOK
  <2> QED
    BY <2>1 DEF OpenTrust, WriteTrust, OpenPem, WritePem, Unlink, Symlink, InstallStep, At, Installing
<1>2. \A q \in Procs \ {p} : pc'[q] = pc[q] /\ Copying(q)'
  <2>1. \A q \in Procs \ {p} : pc'[q] = pc[q]
    BY DEF OpenTrust, WriteTrust, OpenPem, WritePem, Unlink, Symlink, Goto, StoreInv, TypeOK
  <2>2. QED
    BY <1>1, <2>1, OthersIdle
<1>3. Stored \in Cas /\ disk["key"].data \in Cas
  BY <1>1, StoredByNow
<1>4. \A g \in Files : disk[g].mtime <= clock
  BY DEF InstallInv, InOrder
<1>5. CASE OpenTrust(p)
  <2>1. Put("trust", Empty) /\ pc[p] = "open_trust" /\ pc'[p] = "read_trust"
    BY <1>1, <1>5 DEF OpenTrust, InstallStep, At, Goto
  <2>2. /\ disk'["trust"].data = Empty /\ disk'["trust"].mtime = clock
        /\ disk'["cert"] = disk["cert"] /\ disk'["key"] = disk["key"] /\ disk'["pem"] = disk["pem"]
        /\ \A g \in Files : disk'[g].mtime <= clock'
    BY <1>1, <1>4, <2>1, Stamped DEF StoreInv, Files
  <2>3. disk["pem"].data = System /\ disk["cert"].mtime <= clock
    BY <1>4, <2>1 DEF InstallInv, Copying, Files
  <2>4. InOrder'
    BY <1>3, <2>2, <2>3 DEF InstallInv, InOrder, Exists
  <2>5. PemLast'
    BY <2>2, <2>3, Marks DEF InstallInv, PemLast
  <2>6. Copying(p)'
    BY <2>1, <2>2, <2>3 DEF Copying, Stored
  <2> QED
    BY <1>2, <2>4, <2>5, <2>6 DEF InstallInv
<1>6. CASE WriteTrust(p)
  <2>1. /\ Put("trust", content[p]) /\ pc[p] = "write_trust" /\ pc'[p] = "open_pem"
        /\ content' = content
    BY <1>1, <1>6 DEF WriteTrust, InstallStep, At, Goto
  <2>2. /\ disk'["trust"].data = content[p] /\ disk'["trust"].mtime = clock
        /\ disk'["cert"] = disk["cert"] /\ disk'["key"] = disk["key"] /\ disk'["pem"] = disk["pem"]
        /\ \A g \in Files : disk'[g].mtime <= clock'
    BY <1>1, <1>4, <2>1, Stamped DEF StoreInv, Files
  <2>3. disk["pem"].data = System /\ content[p] = Stored /\ disk["cert"].mtime <= clock
    BY <1>4, <2>1 DEF InstallInv, Copying, Files
  <2>4. InOrder'
    BY <1>3, <2>2, <2>3 DEF InstallInv, InOrder, Exists
  <2>5. PemLast'
    BY <2>2, <2>3, Marks DEF InstallInv, PemLast
  <2>6. Copying(p)'
    BY <2>1, <2>2, <2>3 DEF Copying, Stored
  <2> QED
    BY <1>2, <2>4, <2>5, <2>6 DEF InstallInv
<1>7. CASE OpenPem(p)
  <2>1. /\ Put("pem", Empty) /\ pc[p] = "open_pem" /\ pc'[p] = "write_pem" /\ content' = content
    BY <1>1, <1>7 DEF OpenPem, InstallStep, At, Goto
  <2>2. /\ disk'["pem"].data = Empty /\ disk'["pem"].mtime = clock
        /\ disk'["cert"] = disk["cert"] /\ disk'["key"] = disk["key"] /\ disk'["trust"] = disk["trust"]
        /\ \A g \in Files : disk'[g].mtime <= clock'
    BY <1>1, <1>4, <2>1, Stamped DEF StoreInv, Files
  <2>3. disk["trust"].data = Stored /\ content[p] = Stored /\ disk["cert"].mtime <= clock
    BY <1>4, <2>1 DEF InstallInv, Copying, Files
  <2>4. InOrder'
    BY <1>3, <2>2, <2>3 DEF InstallInv, InOrder, Exists
  <2>5. PemLast'
    BY <2>1, <2>2, <2>3, Marks DEF InstallInv, PemLast, Stored, At
  <2>6. Copying(p)'
    BY <2>1, <2>2, <2>3 DEF Copying, Stored
  <2> QED
    BY <1>2, <2>4, <2>5, <2>6 DEF InstallInv
<1>8. CASE WritePem(p)
  <2>1. /\ Put("pem", content[p]) /\ pc[p] = "write_pem" /\ pc'[p] = "unlink" /\ content' = content
    BY <1>1, <1>8 DEF WritePem, InstallStep, At, Goto
  <2>2. /\ disk'["pem"].data = content[p] /\ disk'["pem"].mtime = clock
        /\ disk'["cert"] = disk["cert"] /\ disk'["key"] = disk["key"] /\ disk'["trust"] = disk["trust"]
        /\ \A g \in Files : disk'[g].mtime <= clock'
    BY <1>1, <1>4, <2>1, Stamped DEF StoreInv, Files
  <2>3. disk["trust"].data = Stored /\ content[p] = Stored /\ disk["cert"].mtime <= clock
    BY <1>4, <2>1 DEF InstallInv, Copying, Files
  <2>4. InOrder'
    BY <1>3, <2>2, <2>3 DEF InstallInv, InOrder, Exists
  <2>5. PemLast'
    BY <1>3, <2>2, <2>3, Marks DEF InstallInv, PemLast, Stored
  <2>6. Copying(p)'
    BY <2>1, <2>2, <2>3 DEF Copying, Stored
  <2> QED
    BY <1>2, <2>4, <2>5, <2>6 DEF InstallInv
<1>9. CASE Unlink(p) \/ Symlink(p)
  <2>1. /\ pc[p] \in {"unlink", "symlink"} /\ pc'[p] \in {"symlink", "serving"} /\ content' = content
        /\ UNCHANGED disk \/ \E d : Put("link", d)
    BY <1>1, <1>9 DEF Unlink, Symlink, InstallStep, At, Goto
  <2>2. /\ disk'["cert"] = disk["cert"] /\ disk'["key"] = disk["key"] /\ disk'["trust"] = disk["trust"]
        /\ disk'["pem"] = disk["pem"] /\ \A g \in Files : disk'[g].mtime <= clock'
    <3>1. CASE UNCHANGED disk
      BY <1>1, <1>4, <3>1
    <3>2. CASE \E d : Put("link", d)
      BY <1>1, <1>4, <3>2, Stamped DEF StoreInv, Files
    <3> QED
      BY <2>1, <3>1, <3>2
  <2>3. InOrder'
    BY <2>2 DEF InstallInv, InOrder, Exists
  <2>4. PemLast'
    BY <1>1, <1>2, <2>1, <2>2 DEF InstallInv, PemLast, Stored, At
  <2>5. Copying(p)'
    BY <2>1 DEF Copying
  <2> QED
    BY <1>2, <2>3, <2>4, <2>5 DEF InstallInv
<1> QED
  BY <1>5, <1>6, <1>7, <1>8, <1>9

(* A process that looks at the times installs only while cert.pem is       *)
(* untouched; one that dies while it writes it leaves it torn.             *)
LEMMA QuietInstall ==
    ASSUME StartApart, StoreInv, InstallInv, NEW p \in Procs, Quiet(p)
    PROVE  InstallInv'
<1> USE DEF At, Goto, diskVars
<1>1. UNCHANGED <<disk, clock>>
  BY DEF Quiet, Launch, load_ca, OpenCertFile, OpenKeyFile, ReadCertFile, ReadKeyFile, LoadStep,
         create_ca, GiveUp, CheckInstalled, ReadTrust, SkipFile, Die, sni_callback, InstallStep
<1>2. pc = [q \in Procs |-> pc[q]] /\ torn \in BOOLEAN
  BY DEF StoreInv, TypeOK
<1>3. \A q \in Procs \ {p} : pc'[q] = pc[q] /\ content'[q] = content[q]
  BY <1>2 DEF Quiet, Launch, load_ca, OpenCertFile, OpenKeyFile, ReadCertFile, ReadKeyFile, LoadStep,
              create_ca, GiveUp, CheckInstalled, ReadTrust, SkipFile, Die, Exit, sni_callback,
              issue_for_host, InstallStep, StoreInv, TypeOK
<1>4. \A q \in Procs \ {p} : Copying(q)'
  BY <1>1, <1>3 DEF InstallInv, Copying, Stored
<1>5. InOrder'
  BY <1>1 DEF InstallInv, InOrder, Exists
<1>6. CASE Die(p) \/ GiveUp(p)
  <2>1. pc'[p] = "off" /\ torn' = (torn \/ pc[p] = "write_pem")
    BY <1>2, <1>6 DEF Die, GiveUp, Exit, Making, Saving
  <2>2. PemLast'
    BY <1>1, <1>3, <2>1 DEF InstallInv, PemLast, Stored
  <2>3. Copying(p)'
    BY <2>1 DEF Copying
  <2> QED
    BY <1>5, <1>4, <2>2, <2>3 DEF InstallInv
<1>7. CASE CheckInstalled(p)
  <2>1. pc[p] = "install" /\ pc'[p] \in {"serving", "open_trust"} /\ UNCHANGED <<content, torn>>
        /\ (UpToDate => pc'[p] = "serving")
    BY <1>2, <1>7 DEF CheckInstalled, InstallStep
  <2>2. pc'[p] = "open_trust" => disk["pem"].data = System
    BY <2>1, StoredByNow, LooksUpToDate DEF Installing
  <2>3. PemLast'
    BY <1>1, <1>3, <2>1 DEF InstallInv, PemLast, Stored
  <2>4. Copying(p)'
    BY <1>1, <2>1, <2>2 DEF Copying
  <2> QED
    BY <1>5, <1>4, <2>3, <2>4 DEF InstallInv
<1>8. CASE ReadTrust(p)
  <2>1. /\ pc[p] = "read_trust" /\ pc'[p] = "write_trust" /\ torn' = torn
        /\ content'[p] = Stored
    BY <1>2, <1>8 DEF ReadTrust, InstallStep, StoreInv, TypeOK, Stored
  <2>2. PemLast'
    BY <1>1, <1>3, <2>1 DEF InstallInv, PemLast, Stored
  <2>3. Copying(p)'
    BY <1>1, <2>1 DEF InstallInv, Copying, Stored
  <2> QED
    BY <1>5, <1>4, <2>2, <2>3 DEF InstallInv
<1>9. CASE Launch(p) \/ load_ca(p) \/ create_ca(p) \/ SkipFile(p) \/ \E h \in Hosts : sni_callback(p, h)
  <2>1. /\ pc[p] # "write_pem" /\ torn' = torn
        /\ pc'[p] \notin {"open_trust", "read_trust", "write_trust", "open_pem", "write_pem"}
    <3>1. CASE Launch(p) \/ create_ca(p) \/ SkipFile(p)
      BY <1>2, <3>1 DEF Launch, create_ca, SkipFile, InstallStep
    <3>2. CASE load_ca(p)
      BY <1>2, <3>2 DEF load_ca, OpenCertFile, OpenKeyFile, ReadCertFile, ReadKeyFile, LoadStep
    <3>3. CASE \E h \in Hosts : sni_callback(p, h)
      BY <1>2, <3>3 DEF sni_callback, issue_for_host
    <3> QED
      BY <1>9, <3>1, <3>2, <3>3
  <2>2. PemLast'
    BY <1>1, <1>3, <2>1 DEF InstallInv, PemLast, Stored
  <2>3. Copying(p)'
    BY <2>1 DEF Copying
  <2> QED
    BY <1>5, <1>4, <2>2, <2>3 DEF InstallInv
<1> QED
  BY <1>6, <1>7, <1>8, <1>9 DEF Quiet

LEMMA InstallStays ==
    ASSUME StartApart, StoreInv, InstallInv, [Next]_vars
    PROVE  InstallInv'
<1>1. CASE Tick \/ UNCHANGED vars
  <2>1. /\ UNCHANGED <<disk, torn, pc, content>>
        /\ \A g \in Files : disk[g].mtime <= clock'
    <3>1. \A g \in Files : disk[g].mtime \in Nat /\ disk[g].mtime <= clock
      BY ClockAssumption DEF StoreInv, TypeOK, InstallInv, InOrder
    <3>2. clock \in Nat /\ (clock' = clock \/ clock' = clock + 1)
      BY <1>1, ClockAssumption DEF Tick, vars, StoreInv, TypeOK
    <3> QED
      BY <1>1, <3>1, <3>2 DEF Tick, vars, procVars
  <2>2. InOrder' /\ PemLast'
    BY <2>1 DEF InstallInv, InOrder, PemLast, Exists, Stored, At
  <2>3. \A q \in Procs : Copying(q)'
    BY <2>1 DEF InstallInv, Copying, Stored
  <2> QED
    BY <2>2, <2>3 DEF InstallInv
<1> QED
  BY <1>1, NextForms, QuietInstall, SaveInstall, CopyInstall DEF Write

(* While no two processes start at once, times that look up to date mean   *)
(* that the CA is in the trust store and in cert.pem, wherever earlier     *)
(* processes died and whatever files could not be opened, but for a        *)
(* process that died with cert.pem emptied: no later start repairs that.   *)
THEOREM UpToDateUnlessOneTear == Spec /\ []StartApart => []UpToDateUnlessTorn
<1>1. StoreInv /\ InstallInv => UpToDateUnlessTorn
  <2> SUFFICES ASSUME StoreInv, InstallInv, NobodyInstalls, UpToDate, ~torn
               PROVE  Installed
    BY DEF UpToDateUnlessTorn, UpToDateIsInstalled
  <2>1. disk["key"].data \in Cas /\ Stored \in Cas
    BY DEF StoreInv, SavedInOrder, InstallInv, InOrder, UpToDate, Stored
  <2>2. /\ disk["cert"].mtime \in Nat /\ disk["cert"].mtime > 0
        /\ disk["pem"].mtime >= disk["cert"].mtime
    BY ClockAssumption DEF StoreInv, TypeOK, Files, InstallInv, InOrder, UpToDate
  <2>3. disk["pem"].data # System
    BY <2>2 DEF InstallInv, PemLast
  <2>4. disk["pem"].data # Empty
    BY DEF InstallInv, PemLast, NobodyInstalls, Installing, At
  <2> QED
    BY <2>1, <2>3, <2>4 DEF InstallInv, PemLast, Installed, Stored
<1>2. StartApart /\ InstallInv /\ StoreInv /\ [Next]_vars => InstallInv'
  BY InstallStays
<1> QED
  BY <1>1, <1>2, StartThenCreate, InstallInit, StoreInvariant, PTL DEF Spec
=============================================================================

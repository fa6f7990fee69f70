---------------------------- MODULE KeySet_proofs ----------------------------
(***************************************************************************)
(* Proofs about KeySet, for any processes, keys, kills and faults.         *)
(*                                                                         *)
(* The inductive invariant says that the file is the only source of keys:  *)
(* as long as every read that failed did so for a file that holds none,    *)
(* each key in a process, in the store or with the API server is the one   *)
(* in the file, and Write is past its read only when the file holds none.  *)
(***************************************************************************)
EXTENDS KeySet, TLAPS

HeldOK ==
  \A p \in Procs :
    SetOf[p] \notin misread /\ jwks[p] \in Keys => keyFile[SetOf[p]] = jwks[p]

SealedOK ==
  "encryption" \notin misread => \A k \in sealed : keyFile["encryption"] = k

TokensOK ==
  "serviceaccount" \notin misread =>
    /\ \A k \in issued : keyFile["serviceaccount"] = k
    /\ fetched \in Keys => keyFile["serviceaccount"] = fetched

FreshOK ==
  pc \in {"open", "encode"} /\ S \notin misread => keyFile[S] \notin Keys

DoneOK ==
  /\ pc # "down" /\ ~failed =>
       \A i \in 1 .. 2 : i < idx => keyFile[KeySets[i]] \in Keys
  /\ pc = "up" => ~failed /\ idx = 3

SocketsOK ==
  \A p, q \in Procs :
    SetOf[p] = SetOf[q] /\ Holds(p) /\ Holds(q) => p = q

Inv ==
  TypeOK /\ HeldOK /\ SealedOK /\ TokensOK /\ FreshOK /\ DoneOK /\ SocketsOK

-----------------------------------------------------------------------------
\* The two Write calls of Init.
LEMMA TwoSets ==
  /\ Len(KeySets) = 2
  /\ KeySets[1] = "encryption" /\ KeySets[2] = "serviceaccount"
BY DEF KeySets

\* While Write works on a key set, that is one of the two.
LEMMA SetTyped == idx \in 1 .. 2 => S \in SetNames
BY TwoSets DEF S, SetNames

\* The part of the type that Init's own steps change.
InitTyped ==
  /\ pc \in {"down", "read", "open", "encode", "up"}
  /\ idx \in 1 .. 3
  /\ jwk \in Keys \cup {NoKey}
  /\ pc \in {"open", "encode"} => jwk \in Keys /\ idx <= 2

Parts ==
  /\ keyFile \in [SetNames -> Keys \cup {Absent, Empty}]
  /\ InitTyped
  /\ failed \in BOOLEAN
  /\ proc \in [Procs -> {"off", "listening", "loaded", "serving"}]
  /\ jwks \in [Procs -> Keys \cup {NoKey}]
  /\ \A p \in Procs : proc[p] \in {"loaded", "serving"} => jwks[p] \in Keys
  /\ sealed \subseteq Keys /\ issued \subseteq Keys
  /\ fetched \in Keys \cup {NoKey}
  /\ misread \subseteq SetNames
  /\ kills \in 0 .. MaxKills /\ faults \in 0 .. MaxFaults

LEMMA TypeParts == (TypeOK <=> Parts) /\ (TypeOK' <=> Parts')
<1>1. 1 .. Len(KeySets) + 1 = 1 .. 3 /\ Len(KeySets) = 2
  BY TwoSets
<1>2. TypeOK <=> Parts
  BY <1>1, Zenon DEF TypeOK, Parts, InitTyped
<1>3. TypeOK' <=> Parts'
  BY <1>1, Zenon DEF TypeOK, Parts, InitTyped
<1> QED BY <1>2, <1>3

LEMMA FreshKey == Keys \ InUse # {} => NewKey \in Keys
BY DEF NewKey

LEMMA NoKeyFile == NoKey \notin Keys /\ Absent \notin Keys /\ Empty \notin Keys
BY KeySetConstants

-----------------------------------------------------------------------------
LEMMA InitInv == Init => Inv
<1> SUFFICES ASSUME Init PROVE Inv
  OBVIOUS
<1>1. TypeOK
  <2>1. InitTyped
    BY DEF Init, InitTyped
  <2>2. failed \in BOOLEAN
    BY Zenon DEF Init
  <2> QED BY <2>1, <2>2, TypeParts, KeySetConstants DEF Parts, Init
<1>2. HeldOK /\ SealedOK /\ TokensOK /\ FreshOK /\ DoneOK
  BY NoKeyFile DEF Init, HeldOK, SealedOK, TokensOK, FreshOK, DoneOK
<1>3. SocketsOK
  BY DEF Init, SocketsOK, Holds
<1> QED BY <1>1, <1>2, <1>3 DEF Inv

-----------------------------------------------------------------------------
(* Type correctness *)

LEMMA InitStepTyped == TypeOK /\ (InitStep \/ KillInit) => TypeOK'
<1> SUFFICES ASSUME TypeOK, InitStep \/ KillInit PROVE TypeOK'
  OBVIOUS
<1> USE TwoSets, NoKeyFile
<1>1. CASE Start
  <2>1. InitTyped'
    BY <1>1, TypeParts DEF Parts, Start, InitTyped
  <2>2. failed' \in BOOLEAN
    BY <1>1, Zenon DEF Start
  <2> QED BY <1>1, <2>1, <2>2, TypeParts DEF Parts, Start, disk, plugins, made
<1>2. CASE ReadOrGenerate
  <2>1. UNCHANGED <<keyFile, failed, plugins, made, kills>>
    BY <1>2 DEF ReadOrGenerate
  <2>2. misread' \subseteq SetNames /\ faults' \in 0 .. MaxFaults
    BY <1>2, SetTyped, KeySetConstants DEF ReadOrGenerate, TypeOK, Fault
  <2>3. \/ pc' = pc /\ jwk' = jwk /\ idx' = idx + 1 /\ pc = "read" /\ idx <= 2
        \/ pc' = "open" /\ jwk' \in Keys /\ idx' = idx /\ idx <= 2
    BY <1>2, FreshKey DEF ReadOrGenerate, Generate
  <2> QED BY <2>1, <2>2, <2>3 DEF TypeOK, plugins, made
<1>3. CASE OpenFile
  <2>1. UNCHANGED <<misread, plugins, made, kills>>
    BY <1>3 DEF OpenFile
  <2>2. keyFile' \in [SetNames -> Keys \cup {Absent, Empty}]
    BY <1>3 DEF OpenFile, WriteFails, TypeOK
  <2>3. faults' \in 0 .. MaxFaults
    BY <1>3, KeySetConstants DEF OpenFile, WriteFails, Fault, TypeOK
  <2>4. \/ pc' = "encode" /\ UNCHANGED <<idx, jwk, failed>> /\ pc = "open"
        \/ pc' = "read" /\ idx' = idx + 1 /\ jwk' = NoKey /\ failed' = TRUE
           /\ pc = "open"
    BY <1>3 DEF OpenFile, WriteFails
  <2>5. InitTyped'
    BY <2>1, <2>4, TypeParts DEF Parts, InitTyped
  <2>6. failed' \in BOOLEAN
    BY <2>1, <2>4, TypeParts, Zenon DEF Parts
  <2> QED BY <2>1, <2>2, <2>3, <2>5, <2>6, TypeParts DEF Parts, plugins, made
<1>4. CASE Encode
  <2>1. UNCHANGED <<misread, plugins, made, kills>>
    BY <1>4 DEF Encode
  <2>2. keyFile' \in [SetNames -> Keys \cup {Absent, Empty}]
    BY <1>4 DEF Encode, WriteFails, TypeOK
  <2>3. faults' \in 0 .. MaxFaults
    BY <1>4, KeySetConstants DEF Encode, WriteFails, Fault, TypeOK
  <2>4. /\ pc = "encode" /\ pc' = "read" /\ idx' = idx + 1 /\ jwk' = NoKey
        /\ failed' \in {failed, TRUE}
    BY <1>4 DEF Encode, WriteFails
  <2>5. InitTyped'
    BY <2>1, <2>4, TypeParts DEF Parts, InitTyped
  <2>6. failed' \in BOOLEAN
    BY <2>1, <2>4, TypeParts, Zenon DEF Parts
  <2> QED BY <2>1, <2>2, <2>3, <2>5, <2>6, TypeParts DEF Parts, plugins, made
<1>5. CASE Finish
  BY <1>5 DEF Finish, TypeOK, disk, plugins, made
<1>6. CASE KillInit
  BY <1>6, KeySetConstants DEF KillInit, TypeOK, disk, plugins, made
<1> QED BY <1>1, <1>2, <1>3, <1>4, <1>5, <1>6 DEF InitStep

LEMMA PluginTyped ==
  ASSUME TypeOK, NEW p \in Procs,
         Plugin(p) \/ KillPlugin(p) \/ Encrypt(p) \/ Sign(p) \/ FetchKeys(p)
  PROVE  TypeOK'
<1> USE NoKeyFile
<1>0. SetOf[p] \in SetNames
  BY KeySetConstants
<1>1. CASE ReadKeys(p)
  <2>1. UNCHANGED <<disk, init, made, kills>> /\ faults' \in 0 .. MaxFaults
    BY <1>1, KeySetConstants DEF ReadKeys, Fault, TypeOK
  <2>2. \/ /\ keyFile[SetOf[p]] \in Keys
           /\ proc' = [proc EXCEPT ![p] = IF KMS(p) THEN "serving" ELSE "loaded"]
           /\ jwks' = [jwks EXCEPT ![p] = keyFile[SetOf[p]]]
        \/ Exits(p)
    BY <1>1 DEF ReadKeys
  <2> QED BY <2>1, <2>2 DEF TypeOK, Exits, disk, init, made
<1>2. CASE Listen(p)
  <2>1. UNCHANGED <<disk, init, made, kills, faults>>
    BY <1>2 DEF Listen
  <2>2. \/ /\ proc[p] = IF KMS(p) THEN "off" ELSE "loaded"
           /\ proc' = [proc EXCEPT ![p] = IF KMS(p) THEN "listening" ELSE "serving"]
           /\ jwks' = jwks
        \/ Exits(p)
    BY <1>2 DEF Listen
  <2> QED BY <2>1, <2>2 DEF TypeOK, Exits, disk, init, made
<1>3. CASE KillPlugin(p)
  BY <1>3, KeySetConstants DEF KillPlugin, Exits, TypeOK, disk, init, made
<1>4. CASE Encrypt(p)
  BY <1>4 DEF Encrypt, TypeOK, disk, init, plugins
<1>5. CASE Sign(p)
  BY <1>5 DEF Sign, TypeOK, disk, init, plugins
<1>6. CASE FetchKeys(p)
  BY <1>6 DEF FetchKeys, TypeOK, disk, init, plugins
<1> QED BY <1>1, <1>2, <1>3, <1>4, <1>5, <1>6 DEF Plugin

LEMMA NextTyped == TypeOK /\ [Next]_vars => TypeOK'
<1> SUFFICES ASSUME TypeOK, [Next]_vars PROVE TypeOK'
  OBVIOUS
<1>1. CASE InitStep \/ KillInit
  BY <1>1, InitStepTyped
<1>2. ASSUME NEW p \in Procs,
             Plugin(p) \/ KillPlugin(p) \/ Encrypt(p) \/ Sign(p) \/ FetchKeys(p)
      PROVE  TypeOK'
  BY <1>2, PluginTyped
<1>3. CASE UNCHANGED vars
  BY <1>3 DEF TypeOK, vars, disk, init, plugins, made
<1> QED BY <1>1, <1>2, <1>3 DEF Next

-----------------------------------------------------------------------------
(* Keys come from the files *)

\* A file that is not misread keeps its key; Write replaces a file only when
\* it holds none.
LEMMA FileKept ==
  ASSUME Inv, [Next]_vars, NEW s \in SetNames, s \notin misread'
  PROVE  s \notin misread /\ (keyFile'[s] = keyFile[s] \/ keyFile[s] \notin Keys)
<1>1. CASE ReadOrGenerate
  BY <1>1 DEF ReadOrGenerate
<1>2. CASE OpenFile
  BY <1>2, NoKeyFile DEF OpenFile, WriteFails, Inv, TypeOK
<1>3. CASE Encode
  BY <1>3 DEF Encode, WriteFails, Inv, TypeOK, FreshOK
<1>4. CASE UNCHANGED <<keyFile, misread>>
  BY <1>4
<1>5. Start \/ Finish \/ KillInit \/ UNCHANGED vars
        \/ (\E p \in Procs :
              Plugin(p) \/ KillPlugin(p) \/ Encrypt(p) \/ Sign(p) \/ FetchKeys(p))
        => UNCHANGED <<keyFile, misread>>
  BY DEF Start, Finish, KillInit, Plugin, ReadKeys, Listen, KillPlugin, Encrypt,
         Sign, FetchKeys, vars, disk
<1> QED BY <1>1, <1>2, <1>3, <1>4, <1>5 DEF Next, InitStep

\* A process gets its key from the file, or has the one it had, or none.
LEMMA KeyFromFile ==
  ASSUME Inv, [Next]_vars, NEW p \in Procs
  PROVE  \/ jwks'[p] = jwks[p]
         \/ jwks'[p] \notin Keys
         \/ jwks'[p] = keyFile[SetOf[p]] /\ keyFile' = keyFile
<1>1. ASSUME NEW q \in Procs, ReadKeys(q)
      PROVE  \/ jwks'[p] = jwks[p]
             \/ jwks'[p] \notin Keys
             \/ jwks'[p] = keyFile[SetOf[p]] /\ keyFile' = keyFile
  BY <1>1, NoKeyFile DEF ReadKeys, Exits, disk, Inv, TypeOK
<1>2. ASSUME NEW q \in Procs, Listen(q) \/ KillPlugin(q)
      PROVE  jwks'[p] = jwks[p] \/ jwks'[p] \notin Keys
  BY <1>2, NoKeyFile DEF Listen, KillPlugin, Exits, Inv, TypeOK
<1>3. InitStep \/ KillInit \/ UNCHANGED vars
        \/ (\E q \in Procs : Encrypt(q) \/ Sign(q) \/ FetchKeys(q))
        => jwks' = jwks
  BY DEF InitStep, Start, ReadOrGenerate, OpenFile, Encode, Finish, KillInit,
         Encrypt, Sign, FetchKeys, vars, plugins
<1> QED BY <1>1, <1>2, <1>3 DEF Next, Plugin

LEMMA HeldStep == Inv /\ [Next]_vars => HeldOK'
<1> SUFFICES ASSUME Inv, [Next]_vars, NEW p \in Procs,
                    SetOf[p] \notin misread', jwks'[p] \in Keys
             PROVE  keyFile'[SetOf[p]] = jwks'[p]
  BY DEF HeldOK
<1>1. SetOf[p] \in SetNames
  BY KeySetConstants
<1>2. SetOf[p] \notin misread
      /\ (keyFile'[SetOf[p]] = keyFile[SetOf[p]] \/ keyFile[SetOf[p]] \notin Keys)
  BY <1>1, FileKept
<1>3. CASE jwks'[p] = jwks[p]
  <2>1. keyFile[SetOf[p]] = jwks[p]
    BY <1>2, <1>3 DEF Inv, HeldOK
  <2> QED BY <1>2, <1>3, <2>1
<1>4. CASE jwks'[p] = keyFile[SetOf[p]] /\ keyFile' = keyFile
  BY <1>4
<1> QED BY <1>3, <1>4, KeyFromFile

\* A value is sealed, and a token signed, with the key of the process.
LEMMA MadeFrom ==
  ASSUME Inv, [Next]_vars
  PROVE  /\ \/ UNCHANGED sealed
            \/ \E p \in Procs : /\ SetOf[p] = "encryption" /\ jwks[p] \in Keys
                                 /\ sealed' = sealed \cup {jwks[p]}
                                 /\ UNCHANGED disk
         /\ \/ UNCHANGED <<issued, fetched>>
            \/ \E p \in Procs : /\ SetOf[p] = "serviceaccount" /\ jwks[p] \in Keys
                                 /\ \/ /\ issued' = issued \cup {jwks[p]}
                                       /\ UNCHANGED fetched
                                    \/ fetched' = jwks[p] /\ UNCHANGED issued
                                 /\ UNCHANGED disk
<1>1. ASSUME NEW p \in Procs, Encrypt(p)
      PROVE  /\ SetOf[p] = "encryption" /\ jwks[p] \in Keys
             /\ sealed' = sealed \cup {jwks[p]}
             /\ UNCHANGED disk /\ UNCHANGED <<issued, fetched>>
  BY <1>1 DEF Encrypt, KMS, Inv, TypeOK
<1>2. ASSUME NEW p \in Procs, Sign(p) \/ FetchKeys(p)
      PROVE  /\ SetOf[p] = "serviceaccount" /\ jwks[p] \in Keys
             /\ \/ issued' = issued \cup {jwks[p]} /\ UNCHANGED fetched
                \/ fetched' = jwks[p] /\ UNCHANGED issued
             /\ UNCHANGED disk /\ UNCHANGED sealed
  BY <1>2, KeySetConstants DEF Sign, FetchKeys, KMS, SetNames, Inv, TypeOK
<1>3. InitStep \/ KillInit \/ UNCHANGED vars
        \/ (\E p \in Procs : Plugin(p) \/ KillPlugin(p)) => UNCHANGED made
  BY DEF InitStep, Start, ReadOrGenerate, OpenFile, Encode, Finish, KillInit,
         Plugin, ReadKeys, Listen, KillPlugin, vars
<1> QED BY <1>1, <1>2, <1>3 DEF Next, made

LEMMA MadeStep == Inv /\ [Next]_vars => SealedOK' /\ TokensOK'
<1> SUFFICES ASSUME Inv, [Next]_vars PROVE SealedOK' /\ TokensOK'
  OBVIOUS
<1>1. SealedOK'
  <2> SUFFICES ASSUME "encryption" \notin misread', NEW k \in sealed'
               PROVE  keyFile'["encryption"] = k
    BY DEF SealedOK
  <2>1. /\ "encryption" \notin misread
        /\ keyFile'["encryption"] = keyFile["encryption"]
             \/ keyFile["encryption"] \notin Keys
    BY FileKept DEF SetNames
  <2>2. CASE k \in sealed
    BY <2>1, <2>2 DEF Inv, SealedOK, TypeOK
  <2>3. CASE k \notin sealed
    <3>1. PICK p \in Procs : /\ SetOf[p] = "encryption" /\ jwks[p] \in Keys
                             /\ k = jwks[p] /\ UNCHANGED disk
      BY <2>3, MadeFrom
    <3> QED BY <2>1, <3>1 DEF Inv, HeldOK, disk
  <2> QED BY <2>2, <2>3
<1>2. TokensOK'
  <2> SUFFICES ASSUME "serviceaccount" \notin misread',
                      NEW k \in Keys, k \in issued' \/ k = fetched'
               PROVE  keyFile'["serviceaccount"] = k
    BY NextTyped DEF TokensOK, Inv, TypeOK
  <2>1. /\ "serviceaccount" \notin misread
        /\ keyFile'["serviceaccount"] = keyFile["serviceaccount"]
             \/ keyFile["serviceaccount"] \notin Keys
    BY FileKept DEF SetNames
  <2>2. CASE k \in issued \/ k = fetched
    BY <2>1, <2>2 DEF Inv, TokensOK
  <2>3. CASE ~(k \in issued \/ k = fetched)
    <3>1. PICK p \in Procs : /\ SetOf[p] = "serviceaccount" /\ jwks[p] \in Keys
                             /\ k = jwks[p] /\ UNCHANGED disk
      BY <2>3, MadeFrom
    <3> QED BY <2>1, <3>1 DEF Inv, HeldOK, disk
  <2> QED BY <2>2, <2>3
<1> QED BY <1>1, <1>2

-----------------------------------------------------------------------------
(* Init *)

LEMMA FreshStep == Inv /\ [Next]_vars => FreshOK'
<1> SUFFICES ASSUME Inv, [Next]_vars PROVE FreshOK'
  OBVIOUS
<1> USE NoKeyFile, SetTyped DEF FreshOK, S
<1>1. CASE Start \/ Encode \/ Finish \/ KillInit
  BY <1>1 DEF Start, Encode, Finish, KillInit, WriteFails
<1>2. CASE ReadOrGenerate
  BY <1>2 DEF ReadOrGenerate, Generate
<1>3. CASE OpenFile
  <2>1. pc = "open" /\ S \in SetNames
    BY <1>3, TypeParts DEF OpenFile, Inv, Parts, InitTyped
  <2> QED BY <1>3, <2>1 DEF OpenFile, WriteFails, Inv, TypeOK
<1>4. CASE UNCHANGED <<disk, init>>
  BY <1>4 DEF Inv, disk, init
<1>5. UNCHANGED vars
        \/ (\E p \in Procs :
              Plugin(p) \/ KillPlugin(p) \/ Encrypt(p) \/ Sign(p) \/ FetchKeys(p))
        => UNCHANGED <<disk, init>>
  BY DEF Plugin, ReadKeys, Listen, KillPlugin, Encrypt, Sign, FetchKeys, vars
<1> QED BY <1>1, <1>2, <1>3, <1>4, <1>5 DEF Next, InitStep

LEMMA DoneStep == Inv /\ [Next]_vars => DoneOK'
<1> SUFFICES ASSUME Inv, [Next]_vars PROVE DoneOK'
  OBVIOUS
<1>0. /\ idx \in 1 .. 3 /\ (pc \in {"open", "encode"} => jwk \in Keys /\ idx <= 2)
      /\ keyFile \in [SetNames -> Keys \cup {Absent, Empty}]
      /\ \A i \in 1 .. 2 : KeySets[i] \in SetNames
      /\ Len(KeySets) = 2
  BY TypeParts, TwoSets DEF Inv, Parts, InitTyped, SetNames
<1>1. CASE Start
  BY <1>1 DEF Start, DoneOK
<1>2. CASE ReadOrGenerate
  BY <1>0, <1>2 DEF ReadOrGenerate, Generate, S, Inv, DoneOK
<1>3. CASE OpenFile
  BY <1>0, <1>3, NoKeyFile DEF OpenFile, WriteFails, Inv, DoneOK
<1>4. CASE Encode
  BY <1>0, <1>4 DEF Encode, WriteFails, S, Inv, DoneOK
<1>5. CASE Finish
  BY <1>0, <1>5 DEF Finish, disk, Inv, DoneOK
<1>6. CASE KillInit
  BY <1>6 DEF KillInit, DoneOK
<1>7. CASE UNCHANGED <<disk, init>>
  BY <1>7 DEF Inv, DoneOK, disk, init
<1>8. UNCHANGED vars
        \/ (\E p \in Procs :
              Plugin(p) \/ KillPlugin(p) \/ Encrypt(p) \/ Sign(p) \/ FetchKeys(p))
        => UNCHANGED <<disk, init>>
  BY DEF Plugin, ReadKeys, Listen, KillPlugin, Encrypt, Sign, FetchKeys, vars
<1> QED BY <1>1, <1>2, <1>3, <1>4, <1>5, <1>6, <1>7, <1>8 DEF Next, InitStep

-----------------------------------------------------------------------------
(* Sockets *)

LEMMA SocketsStep == Inv /\ [Next]_vars => SocketsOK'
<1> SUFFICES ASSUME Inv, [Next]_vars,
                    NEW p \in Procs, NEW q \in Procs, SetOf[p] = SetOf[q],
                    Holds(p)', Holds(q)'
             PROVE  p = q
  BY DEF SocketsOK
<1>1. ASSUME NEW r \in Procs, Listen(r) PROVE p = q
  BY <1>1 DEF Listen, Exits, SocketFree, Holds, Inv, SocketsOK, TypeOK
<1>2. ASSUME NEW r \in Procs, ReadKeys(r) \/ KillPlugin(r) PROVE p = q
  <2>1. Holds(p) /\ Holds(q)
    BY <1>2 DEF ReadKeys, KillPlugin, Exits, Holds, Inv, TypeOK
  <2> QED BY <2>1 DEF Inv, SocketsOK
<1>3. CASE UNCHANGED proc
  BY <1>3 DEF Inv, SocketsOK, Holds
<1>4. InitStep \/ KillInit \/ UNCHANGED vars
        \/ (\E r \in Procs : Encrypt(r) \/ Sign(r) \/ FetchKeys(r))
        => UNCHANGED proc
  BY DEF InitStep, Start, ReadOrGenerate, OpenFile, Encode, Finish, KillInit,
         Encrypt, Sign, FetchKeys, vars, plugins
<1> QED BY <1>1, <1>2, <1>3, <1>4 DEF Next, Plugin

-----------------------------------------------------------------------------
LEMMA InvHolds == Spec => []Inv
<1>1. Inv /\ [Next]_vars => Inv'
  BY NextTyped, HeldStep, MadeStep, FreshStep, DoneStep, SocketsStep DEF Inv
<1> QED BY InitInv, <1>1, PTL DEF Spec

\* Every variable keeps its type, and a process that serves has a key,
\* whatever Read found in its file.
THEOREM TypeCorrect == Spec => []TypeOK
<1>1. Inv => TypeOK
  BY DEF Inv
<1> QED BY InvHolds, <1>1, PTL

\* Values sealed by kms.Encrypt can be decrypted by the process that serves
\* and by every later one, unless Init took a key set it could not open for
\* a missing one.
THEOREM SealedStaysReadable == Spec => []Decryptable
<1>1. Inv => Decryptable
  BY KeySetConstants DEF Inv, TypeOK, HeldOK, SealedOK, Decryptable, Serving,
                         Decrypts, KMS
<1> QED BY InvHolds, <1>1, PTL

\* Tokens signed by jwtsigner.Sign verify against every public key that
\* FetchKeys has answered, under the same condition.
THEOREM TokensStayValid == Spec => []TokensVerify
<1>1. Inv => TokensVerify
  BY KeySetConstants DEF Inv, TypeOK, HeldOK, TokensOK, TokensVerify, Serving,
                         KMS, SetNames
<1> QED BY InvHolds, <1>1, PTL

\* At most one process answers on the socket of each plugin.
THEOREM OneServerOnly == Spec => []OneServer
<1>1. Inv => OneServer
  BY DEF Inv, SocketsOK, OneServer, Serving, Holds
<1> QED BY InvHolds, <1>1, PTL

\* When Init has returned nil, both key sets are on disk.
THEOREM KeySetsEstablished == Spec => []InitEstablishes
<1>1. Inv => InitEstablishes
  BY TwoSets DEF Inv, DoneOK, InitEstablishes, SetNames
<1> QED BY InvHolds, <1>1, PTL
=============================================================================

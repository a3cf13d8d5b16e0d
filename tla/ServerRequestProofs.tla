------------------------- MODULE ServerRequestProofs -------------------------
(***************************************************************************)
(* Proofs about ServerRequest for any Machines, secrets, contents of them  *)
(* and number of changes to them.                                          *)
(***************************************************************************)
EXTENDS ServerRequest, TLAPS

(* Type correctness *)

LEMMA IdleTyped == Idle \in Workers /\ Idle.listed \in Listed
<1>1. Idle.listed \in [{} -> Values] /\ {} \in SUBSET SecretKey
  BY DEF Idle
<1>2. Idle.listed \in Listed
  BY <1>1 DEF Listed
<1> QED BY <1>2 DEF Workers

\* What is read of a secret that is there is one of the values it may have.
LEMMA SecretRead ==
  ASSUME TypeOK, NEW key, NEW field, HasKey(key, field)
  PROVE  /\ key \in SecretKey
         /\ secrets[key] \in Contents[key]
         /\ secrets[key] \in Values
         /\ field \in DOMAIN secrets[key].data
  BY DEF TypeOK, HasKey, HasKeyIn, PresentIn, Values

LEMMA TokenRead ==
  ASSUME TypeOK, HasKey(TokenKey, "token")
  PROVE  /\ TokenKey \in SecretKey
         /\ secrets[TokenKey].data.token \in Tokens(TokenKey)
         /\ secrets[TokenKey].data.token \in AllTokens
<1>1. /\ TokenKey \in SecretKey
      /\ secrets[TokenKey] \in Contents[TokenKey]
      /\ "token" \in DOMAIN secrets[TokenKey].data
  BY SecretRead
<1>2. secrets[TokenKey].data.token \in Tokens(TokenKey)
  BY <1>1 DEF Tokens
<1> QED BY <1>1, <1>2 DEF AllTokens

\* The tokens getMachineContext may go on with.
Granted(token) ==
  IF spec.tokenSecret = Nil THEN token = DefaultToken
  ELSE TokenKey \in SecretKey /\ token \in Tokens(TokenKey)

LEMMA GrantedTyped ==
  ASSUME NEW token, Granted(token) PROVE token \in AllTokens
  BY DEF Granted, AllTokens

\* getMachineContext fails or goes on with a token of the machine's own.
LEMMA Context ==
  ASSUME TypeOK, getMachineContext
  PROVE  /\ UNCHANGED <<machine, secrets, server, deletion, changes>>
         /\ Wanted
         /\ \/ w' = Idle
            \/ \E token : Granted(token) /\ Proceed(token)
<1>1. CASE Error
  BY <1>1 DEF getMachineContext, Error
<1>2. CASE spec.tokenSecret = Nil /\ Proceed(DefaultToken)
  BY <1>2 DEF getMachineContext, Granted
<1>3. CASE /\ spec.tokenSecret # Nil /\ HasKey(TokenKey, "token")
           /\ Proceed(secrets[TokenKey].data.token)
  BY <1>3, TokenRead DEF getMachineContext, Granted
<1> QED BY <1>1, <1>2, <1>3 DEF getMachineContext

LEMMA ProceedTyped ==
  ASSUME TypeOK, Wanted, NEW token \in AllTokens, Proceed(token)
  PROVE  /\ w' \in Workers
         /\ w'.token = token /\ w'.pc # "idle"
         /\ w'.op # "create" => deletion = "asked"
<1>1. CASE deletion = "no"
  <2>1. w = Idle
    BY <1>1 DEF TypeOK, Workers, Wanted
  <2>2. w' = [op |-> "create", pc |-> "userData", token |-> token,
              data |-> Nil, listed |-> Idle.listed,
              began |-> [secrets |-> secrets, changes |-> changes]]
    BY <1>1, <2>1 DEF Proceed, Idle
  <2> QED BY <2>2, IdleTyped DEF Workers, TypeOK
<1>2. CASE deletion = "asked"
  <2>1. /\ w.data = Nil /\ w.listed = Idle.listed
        /\ w.op \in {"create", "delete", "exists"}
    BY <1>2 DEF TypeOK, Workers, Wanted, Idle
  <2>2. w' = [op |-> IF w.op = "create" THEN "delete" ELSE w.op, pc |-> "find",
              token |-> token, data |-> Nil, listed |-> Idle.listed,
              began |-> Nil]
    BY <1>2, <2>1 DEF Proceed, TypeOK, Workers, Idle
  <2> QED BY <1>2, <2>1, <2>2 DEF Workers
<1> QED BY <1>1, <1>2 DEF Wanted

LEMMA ContextTyped ==
  ASSUME TypeOK, getMachineContext
  PROVE  TypeOK'
<1>1. w' \in Workers /\ (w'.op # "create" => deletion = "asked")
  <2>1. CASE w' = Idle
    BY <2>1, IdleTyped DEF Idle
  <2>2. CASE \E token : Granted(token) /\ Proceed(token)
    BY <2>2, Context, GrantedTyped, ProceedTyped
  <2> QED BY <2>1, <2>2, Context
<1> QED BY <1>1, Context DEF TypeOK

\* The steps of Create after the context.
LEMMA LoadUserDataTyped ==
  ASSUME TypeOK, LoadUserData
  PROVE  TypeOK'
<1>1. w \in [op : {"create"}, pc : {"userData", "list", "send"},
             token : AllTokens, data : {v.data : v \in Values} \cup {Nil},
             listed : Listed,
             began : [secrets : [SecretKey -> Values \cup {Nil}],
                      changes : 0..MaxChanges]]
  <2>1. w \in Workers /\ w.pc = "userData"
    BY DEF TypeOK, LoadUserData
  <2> QED BY <2>1 DEF Workers, Idle
<1>2. CASE w' = Idle
  <2>1. w'.op = "create" /\ w' \in Workers
    BY <1>2, IdleTyped DEF Idle
  <2> QED BY <2>1 DEF LoadUserData, TypeOK
<1>3. CASE w' = [w EXCEPT !.pc = "send"]
  BY <1>1, <1>3 DEF LoadUserData, TypeOK, Workers
<1>4. CASE /\ HasKey(UserDataKey, "userData")
           /\ w' = [w EXCEPT !.pc = "list", !.data = secrets[UserDataKey].data]
  <2>1. secrets[UserDataKey].data \in {v.data : v \in Values}
    BY <1>4, SecretRead
  <2>2. w' \in Workers /\ w'.op = "create"
    BY <1>1, <1>4, <2>1 DEF Workers
  <2> QED BY <2>2 DEF LoadUserData, TypeOK
<1> QED BY <1>2, <1>3, <1>4 DEF LoadUserData, Error

LEMMA ListSecretsTyped ==
  ASSUME TypeOK, ListSecrets
  PROVE  TypeOK'
<1>1. w \in [op : {"create"}, pc : {"userData", "list", "send"},
             token : AllTokens, data : {v.data : v \in Values} \cup {Nil},
             listed : Listed,
             began : [secrets : [SecretKey -> Values \cup {Nil}],
                      changes : 0..MaxChanges]]
  <2>1. w \in Workers /\ w.pc = "list"
    BY DEF TypeOK, ListSecrets
  <2> QED BY <2>1 DEF Workers, Idle
<1>2. PICK keys : /\ keys = Selected({key \in SecretKey : key[1] = machine.ns})
                  /\ w' = [w EXCEPT !.pc = "send",
                                    !.listed = [key \in keys |-> secrets[key]]]
  BY DEF ListSecrets
<1>3. \A key \in keys : key \in SecretKey /\ secrets[key] \in Values
  BY <1>2 DEF Selected, Present, PresentIn, TypeOK, Values
<1>4. [key \in keys |-> secrets[key]] \in Listed
  BY <1>3 DEF Listed
<1>5. w' \in Workers /\ w'.op = "create"
  BY <1>1, <1>2, <1>4 DEF Workers
<1> QED BY <1>5 DEF ListSecrets, TypeOK

\* The server is in the project of the token that was read.
LEMMA Sent ==
  ASSUME TypeOK, Send
  PROVE  /\ UNCHANGED server \/ server'.token = w.token
         /\ w' = Idle /\ UNCHANGED <<machine, secrets, deletion, changes>>
         /\ w.token \in AllTokens /\ w.op = "create" /\ w.pc # "idle"
<1>1. w.token \in AllTokens /\ w.op = "create" /\ w.pc # "idle"
  BY DEF TypeOK, Send, Workers, Idle
<1> QED BY <1>1 DEF Send, ServerFor, Request

LEMMA SendTyped ==
  ASSUME TypeOK, Send
  PROVE  TypeOK'
  BY Sent, IdleTyped DEF TypeOK, Idle

\* The steps of a deletion.
LEMMA DeletionTyped ==
  ASSUME TypeOK, Delete \/ ExistsAfterDelete
  PROVE  TypeOK'
<1>1. deletion = "asked"
  BY DEF TypeOK, Delete, ExistsAfterDelete
<1>2. w' \in Workers /\ (w'.op # "create" => deletion' = "asked")
  BY <1>1, IdleTyped DEF Delete, ExistsAfterDelete, Workers, Idle
<1> QED BY <1>1, <1>2 DEF Delete, ExistsAfterDelete, TypeOK

LEMMA OthersTyped ==
  ASSUME TypeOK, SecretChanges \/ DeletionAsked
  PROVE  TypeOK'
<1>1. CASE SecretChanges
  <2>1. PICK key \in SecretKey : \E c \in Contents[key] \cup {Nil} :
          secrets' = [secrets EXCEPT ![key] = c]
    BY <1>1 DEF SecretChanges
  <2>2. secrets' \in [SecretKey -> Values \cup {Nil}]
    BY <2>1 DEF TypeOK, Values
  <2>3. \A k \in SecretKey : secrets'[k] \in Contents[k] \cup {Nil}
    BY <2>1 DEF TypeOK
  <2>4. changes' \in 0..MaxChanges
    BY <1>1, SecretAssumption DEF SecretChanges, TypeOK
  <2> QED BY <1>1, <2>2, <2>3, <2>4 DEF SecretChanges, TypeOK
<1>2. CASE DeletionAsked
  BY <1>2 DEF DeletionAsked, TypeOK
<1> QED BY <1>1, <1>2

LEMMA InitTyped ==
  ASSUME Init PROVE TypeOK
<1>1. secrets \in [SecretKey -> Values \cup {Nil}]
  BY DEF Init, Values
<1> QED BY <1>1, IdleTyped, SecretAssumption DEF Init, TypeOK, Idle

LEMMA NextTyped ==
  ASSUME TypeOK, [Next]_vars PROVE TypeOK'
<1>1. CASE UNCHANGED vars
  BY <1>1 DEF vars, TypeOK
<1> QED BY <1>1, ContextTyped, LoadUserDataTyped, ListSecretsTyped, SendTyped,
           DeletionTyped, OthersTyped
        DEF Next, Step, Settled

\* Every variable has its type: what the worker holds was read from secrets that
\* were there, and a worker deletes only what is to be deleted.
THEOREM TypeCorrect == Spec => []TypeOK
  BY InitTyped, NextTyped, PTL DEF Spec

-----------------------------------------------------------------------------
(* The project of the server *)

\* The inductive invariant: a worker under way and the server have tokens of
\* the machine's own, and after a deletion there is neither.
Safe ==
  /\ w.pc # "idle" => Granted(w.token)
  /\ server # Nil => Granted(server.token)
  /\ deletion = "done" => server = Nil /\ w = Idle

LEMMA SameProject ==
  ASSUME NEW t, NEW u, Granted(t), Granted(u) PROVE Project[t] = Project[u]
  BY RotationAssumption DEF Granted

\* A token stays granted, whatever happens to the secrets.
LEMMA GrantedForever ==
  ASSUME NEW t, UNCHANGED machine, Granted(t) PROVE Granted(t)'
  BY DEF Granted, TokenKey, spec

LEMMA ContextSafe ==
  ASSUME TypeOK, Safe, getMachineContext
  PROVE  Safe'
<1>1. UNCHANGED <<machine, server, deletion>> /\ Wanted
  BY Context
<1>2. deletion # "done"
  BY <1>1 DEF Wanted
<1>3. w'.pc # "idle" => Granted(w'.token)
  <2>1. CASE w' = Idle
    BY <2>1 DEF Idle
  <2>2. CASE \E token : Granted(token) /\ Proceed(token)
    BY <1>1, <2>2, GrantedTyped, ProceedTyped
  <2> QED BY <2>1, <2>2, Context
<1> QED BY <1>1, <1>2, <1>3, GrantedForever DEF Safe

LEMMA CreateSafe ==
  ASSUME TypeOK, Safe, LoadUserData \/ ListSecrets \/ Send
  PROVE  Safe'
<1>1. UNCHANGED <<machine, deletion>> /\ w.pc # "idle"
  BY DEF LoadUserData, ListSecrets, Send
<1>2. Granted(w.token) /\ deletion # "done"
  BY <1>1 DEF Safe, Idle
<1>3. CASE LoadUserData \/ ListSecrets
  <2>1. w \in Workers /\ w.pc \in {"userData", "list"}
    BY <1>3 DEF TypeOK, LoadUserData, ListSecrets
  <2>2. w' = Idle \/ w'.token = w.token
    BY <1>3, <2>1 DEF LoadUserData, ListSecrets, Error, Workers, Idle
  <2>3. UNCHANGED server
    BY <1>3 DEF LoadUserData, ListSecrets
  <2> QED BY <1>1, <1>2, <2>2, <2>3, GrantedForever DEF Safe, Idle
<1>4. CASE Send
  <2>1. w' = Idle /\ (UNCHANGED server \/ server'.token = w.token)
    BY <1>4, Sent
  <2> QED BY <1>1, <1>2, <2>1, GrantedForever DEF Safe, Idle
<1> QED BY <1>3, <1>4

\* The token that finds no server is one of the server's project, so that there
\* is none.
LEMMA DeletionSafe ==
  ASSUME TypeOK, Safe, Delete \/ ExistsAfterDelete
  PROVE  Safe'
<1>1. UNCHANGED machine /\ w.pc = "find" /\ w'.pc = "idle"
  BY DEF Delete, ExistsAfterDelete, Idle
<1>2. Granted(w.token) /\ deletion # "done"
  BY <1>1 DEF Safe, Idle
<1>3. Found <=> server # Nil
  BY <1>2, SameProject DEF Safe, Found
<1>4. CASE Delete
  BY <1>1, <1>2, <1>3, <1>4 DEF Delete, Safe
<1>5. CASE ExistsAfterDelete
  BY <1>1, <1>2, <1>3, <1>5, GrantedForever DEF ExistsAfterDelete, Safe
<1> QED BY <1>4, <1>5

LEMMA NextSafe ==
  ASSUME TypeOK, Safe, [Next]_vars
  PROVE  Safe'
<1>1. CASE SecretChanges \/ DeletionAsked
  <2>1. UNCHANGED <<machine, w, server>>
        /\ (deletion' = deletion \/ deletion' = "asked")
    BY <1>1 DEF SecretChanges, DeletionAsked
  <2> QED BY <2>1, GrantedForever DEF Safe
<1>2. CASE UNCHANGED vars
  BY <1>2, GrantedForever DEF vars, Safe
<1> QED BY <1>1, <1>2, ContextSafe, CreateSafe, DeletionSafe
        DEF Next, Step, Settled

LEMMA AlwaysSafe == Spec => []Safe
<1>1. Init => Safe
  BY DEF Init, Safe, Idle
<1>2. TypeOK /\ Safe /\ [Next]_vars => Safe'
  BY NextSafe
<1> QED BY <1>1, <1>2, TypeCorrect, PTL DEF Spec

\* A machine that names a token secret is created with a token of that secret
\* only (getMachineContext), whatever happens to the secrets meanwhile.
THEOREM OwnProject == Spec => []RightProject
<1>1. Safe => RightProject
  BY DEF Safe, RightProject, Granted
<1> QED BY <1>1, AlwaysSafe, PTL

\* The finalizer of a deleted machine goes only after its server, as long as
\* tokens are replaced by tokens of the same project (Delete, Exists).
THEOREM ServerGoesFirst == Spec => []NothingLeftBehind
<1>1. Safe => NothingLeftBehind
  BY DEF Safe, NothingLeftBehind
<1> QED BY <1>1, AlwaysSafe, PTL

-----------------------------------------------------------------------------
(* The names and addresses of the server *)

\* What a machine's spec asks for, whatever becomes of the secrets.
Shaped(s) ==
  \E req : /\ s = ServerFor(req) /\ req.name = ServerName
           /\ req.interfaces =
                cloudscaleServerInterfacesFromProviderSpecInterfaces(spec.interfaces)

\* A worker under way has read a spec, and the server has its shape.
AsSpecified == /\ w.pc # "idle" => spec # SpecError
               /\ server # Nil => spec # SpecError /\ Shaped(server)

LEMMA ShapedForever ==
  ASSUME AsSpecified, UNCHANGED machine, server' \in {Nil, server}
  PROVE  server' # Nil => spec' # SpecError' /\ Shaped(server)'
<1>1. UNCHANGED <<spec, ServerName, SpecError>>
  BY DEF spec, ServerName, SpecError
<1>2. server' # Nil => Shaped(server)'
  BY <1>1 DEF AsSpecified, Shaped
<1> QED BY <1>1, <1>2 DEF AsSpecified

LEMMA SendAsSpecified ==
  ASSUME TypeOK, AsSpecified, Send
  PROVE  AsSpecified'
<1>1. UNCHANGED machine /\ w.pc # "idle" /\ w' = Idle
  BY DEF Send
<1>2. spec # SpecError
  BY <1>1 DEF AsSpecified
<1>3. UNCHANGED server \/ server' = ServerFor(Request)
  BY DEF Send
<1>4. Shaped(ServerFor(Request))
  BY DEF Shaped, Request
<1>5. server' # Nil => Shaped(server')
  BY <1>3, <1>4 DEF AsSpecified
<1>6. server' # Nil => Shaped(server)'
  BY <1>1, <1>5 DEF Shaped, ServerName, spec
<1>7. UNCHANGED spec
  BY <1>1 DEF spec
<1> QED BY <1>1, <1>2, <1>6, <1>7 DEF AsSpecified, Idle, SpecError

LEMMA NextAsSpecified ==
  ASSUME TypeOK, AsSpecified, [Next]_vars
  PROVE  AsSpecified'
<1>1. CASE Send
  BY <1>1, SendAsSpecified
<1>2. CASE ~Send
  <2>1. UNCHANGED <<machine, spec>>
    BY <1>2 DEF Next, Step, vars, getMachineContext, LoadUserData, ListSecrets,
                Delete, ExistsAfterDelete, SecretChanges, DeletionAsked, Settled,
                spec
  <2>2. server' \in {Nil, server}
    BY <1>2 DEF Next, Step, vars, getMachineContext, LoadUserData, ListSecrets,
                Delete, ExistsAfterDelete, SecretChanges, DeletionAsked, Settled
  <2>3. CASE getMachineContext
    <3>1. w' = Idle \/ spec # SpecError
      BY <2>3 DEF getMachineContext, Error
    <3> QED BY <2>1, <2>2, <3>1, ShapedForever DEF AsSpecified, Idle
  <2>4. CASE LoadUserData \/ ListSecrets \/ Delete \/ ExistsAfterDelete
    <3>1. w.pc # "idle"
      BY <2>4 DEF LoadUserData, ListSecrets, Delete, ExistsAfterDelete
    <3> QED BY <2>1, <2>2, <3>1, ShapedForever DEF AsSpecified
  <2>5. CASE UNCHANGED w
    BY <2>1, <2>2, <2>5, ShapedForever DEF AsSpecified
  <2> QED BY <1>2, <2>3, <2>4, <2>5
          DEF Next, Step, SecretChanges, DeletionAsked, Settled, vars
<1> QED BY <1>1, <1>2

LEMMA AlwaysAsSpecified == Spec => []AsSpecified
<1>1. Init => AsSpecified
  BY DEF Init, AsSpecified, Idle
<1>2. TypeOK /\ AsSpecified /\ [Next]_vars => AsSpecified'
  BY NextAsSpecified
<1> QED BY <1>1, <1>2, TypeCorrect, PTL DEF Spec

\* The given spec, as far as the names and addresses are concerned.
LEMMA SpecGiven ==
  ASSUME machine \in Input, spec # SpecError
  PROVE  /\ machine.name \in Seq(STRING) \ {<<>>} /\ spec.baseDomain \in Seq(STRING)
         /\ spec.interfaces # Nil =>
              /\ cloudscaleServerInterfacesFromProviderSpecInterfaces(spec.interfaces) # Nil
              /\ \A i \in DOMAIN spec.interfaces : InterfaceGiven(spec.interfaces[i])
<1>1. InputGiven(machine)
  BY InputAssumption
<1>2. CASE machine.value.raw = "spec"
  <2>1. spec = machine.value.spec
    BY <1>2 DEF spec, ProviderSpecFromRawExtension
  <2> QED BY <1>1, <1>2, <2>1 DEF InputGiven
<1>3. CASE machine.value.raw = "absent"
  <2>1. spec = EmptySpec
    BY <1>3 DEF spec, ProviderSpecFromRawExtension
  <2>2. <<>> \in Seq(STRING)
    OBVIOUS
  <2>3. spec.baseDomain = <<>> /\ spec.interfaces = Nil
    BY <2>1 DEF EmptySpec
  <2> QED BY <1>1, <2>2, <2>3 DEF InputGiven
<1> QED BY <1>1, <1>2, <1>3 DEF InputGiven, spec, ProviderSpecFromRawExtension

LEMMA FirstOfConcat ==
  ASSUME NEW s \in Seq(STRING), NEW t \in Seq(STRING), s # <<>>
  PROVE  Head(s \o t) = s[1]
<1>1. Len(s) >= 1
  OBVIOUS
<1>2. s \o t \in Seq(STRING) /\ Len(s \o t) >= 1 /\ (s \o t)[1] = s[1]
  BY <1>1
<1> QED BY <1>2

\* The first part of the server's name is that of the machine.
LEMMA FirstPart ==
  ASSUME machine \in Input, spec # SpecError, Len(machine.name) = 1
  PROVE  <<Head(ServerName)>> = NodeName
<1>1. machine.name \in Seq(STRING) /\ spec.baseDomain \in Seq(STRING)
  BY SpecGiven
<1>2. Head(ServerName) = machine.name[1]
  <2>1. machine.name # <<>>
    BY SpecGiven
  <2> QED BY <1>1, <2>1, FirstOfConcat DEF ServerName
<1>3. \A name \in Seq(STRING) : Len(name) = 1 => <<name[1]>> = name
  OBVIOUS
<1> QED BY <1>1, <1>2, <1>3 DEF NodeName

\* The interfaces that cloudscale makes of those of the spec.
LEMMA InterfacesMade ==
  ASSUME machine \in Input, spec # SpecError, NEW s, Shaped(s),
         spec.interfaces # Nil
  PROVE  /\ DOMAIN s.interfaces = DOMAIN spec.interfaces
         /\ \A i \in DOMAIN spec.interfaces :
              LET n == spec.interfaces[i] IN
              /\ s.interfaces[i].type =
                   IF n.type = Public THEN "public" ELSE "private"
              /\ s.interfaces[i].addresses =
                   IF n.type = Public \/ n.addresses = Nil THEN <<Assigned>>
                   ELSE n.addresses
<1> DEFINE made == cloudscaleServerInterfacesFromProviderSpecInterfaces(spec.interfaces)
<1>1. PICK req : /\ s = ServerFor(req) /\ req.name = ServerName
                 /\ req.interfaces = made
  BY DEF Shaped
<1>2. made # Nil /\ \A i \in DOMAIN spec.interfaces : InterfaceGiven(spec.interfaces[i])
  BY SpecGiven
<1>3. /\ DOMAIN made = DOMAIN spec.interfaces
      /\ \A i \in DOMAIN spec.interfaces :
           made[i] = IF spec.interfaces[i].type = Public
                     THEN [network |-> "public", addresses |-> Nil]
                     ELSE [network |-> spec.interfaces[i].network,
                           addresses |-> spec.interfaces[i].addresses]
  BY DEF cloudscaleServerInterfacesFromProviderSpecInterfaces
<1> HIDE DEF made
<1>4. s.interfaces = [i \in DOMAIN made |->
         [type |-> IF made[i].network = "public" THEN "public" ELSE "private",
          addresses |-> IF made[i].addresses = Nil THEN <<Assigned>>
                        ELSE made[i].addresses]]
  BY <1>1, <1>2 DEF ServerFor
<1>5. DOMAIN s.interfaces = DOMAIN spec.interfaces
  BY <1>3, <1>4
<1>6. ASSUME NEW i \in DOMAIN spec.interfaces
      PROVE  LET n == spec.interfaces[i] IN
              /\ s.interfaces[i].type =
                   IF n.type = Public THEN "public" ELSE "private"
              /\ s.interfaces[i].addresses =
                   IF n.type = Public \/ n.addresses = Nil THEN <<Assigned>>
                   ELSE n.addresses
  <2>1. s.interfaces[i] =
         [type |-> IF made[i].network = "public" THEN "public" ELSE "private",
          addresses |-> IF made[i].addresses = Nil THEN <<Assigned>>
                        ELSE made[i].addresses]
    BY <1>3, <1>4
  <2>2. CASE spec.interfaces[i].type = Public
    <3>1. made[i] = [network |-> "public", addresses |-> Nil]
      BY <1>3, <2>2
    <3> QED BY <2>1, <2>2, <3>1
  <2>3. CASE spec.interfaces[i].type # Public
    <3>1. made[i] = [network |-> spec.interfaces[i].network,
                     addresses |-> spec.interfaces[i].addresses]
      BY <1>3, <2>3
    <3>2. made[i].network # "public"
      BY <1>2, <2>3, <3>1 DEF InterfaceGiven
    <3> QED BY <2>1, <2>3, <3>1, <3>2
  <2> QED BY <2>2, <2>3
<1> QED BY <1>5, <1>6

\* The addresses reported for an interface, among those of all of them.
LEMMA InterfaceReported ==
  ASSUME NEW i \in DOMAIN server.interfaces,
         NEW j \in DOMAIN server.interfaces[i].addresses
  PROVE  Address(IF server.interfaces[i].type = "public" THEN "ExternalIP"
                 ELSE "InternalIP", server.interfaces[i].addresses[j])
           \in Reported
  BY DEF Reported, machineAddressesFromCloudscaleServer, InterfaceAddresses

LEMMA ExternalReported ==
  ASSUME NEW a, Address("ExternalIP", a) \in Reported
  PROVE  \E i \in DOMAIN server.interfaces :
           /\ server.interfaces[i].type = "public"
           /\ \E j \in DOMAIN server.interfaces[i].addresses :
                a = server.interfaces[i].addresses[j]
<1>1. Address("ExternalIP", a) \notin HostNames(server)
  BY DEF HostNames, Address
<1>2. PICK i \in DOMAIN server.interfaces :
             Address("ExternalIP", a) \in InterfaceAddresses(server.interfaces[i])
  BY <1>1 DEF Reported, machineAddressesFromCloudscaleServer
<1> QED BY <1>2 DEF InterfaceAddresses, Address

\* The certificate of the node is approved, for any names, networks and
\* addresses: what the machine reports (machineAddressesFromCloudscaleServer) of
\* the server that was made from its spec has the name of the node, the pinned
\* addresses as internal ones and no others as external ones.
THEOREM Approved == Spec => []NodeIsApproved
<1>1. TypeOK /\ AsSpecified => NodeIsApproved
  <2> SUFFICES ASSUME TypeOK, AsSpecified, server # Nil, Len(machine.name) = 1
               PROVE  NodeIsApproved
    BY DEF NodeIsApproved
  <2>1. machine \in Input /\ spec # SpecError /\ Shaped(server)
    BY DEF TypeOK, AsSpecified
  <2>2. Address("InternalDNS", NodeName) \in Reported
    <3>1. server.name = ServerName
      BY <2>1 DEF Shaped, ServerFor
    <3>2. <<Head(server.name)>> = NodeName
      BY <2>1, <3>1, FirstPart
    <3> QED BY <3>2 DEF Reported, machineAddressesFromCloudscaleServer, HostNames
  <2>3. ASSUME spec.interfaces # Nil, NEW i \in DOMAIN spec.interfaces,
               spec.interfaces[i].type = Public
        PROVE  Address("ExternalIP", Assigned) \in Reported
    <3>1. /\ i \in DOMAIN server.interfaces
          /\ server.interfaces[i].type = "public"
          /\ server.interfaces[i].addresses = <<Assigned>>
      BY <2>1, <2>3, InterfacesMade
    <3>2. 1 \in DOMAIN server.interfaces[i].addresses
          /\ server.interfaces[i].addresses[1] = Assigned
      BY <3>1
    <3> QED BY <3>1, <3>2, InterfaceReported
  <2>4. ASSUME spec.interfaces # Nil, NEW i \in DOMAIN spec.interfaces,
               spec.interfaces[i].type # Public,
               spec.interfaces[i].addresses # Nil,
               NEW j \in DOMAIN spec.interfaces[i].addresses
        PROVE  /\ Address("InternalIP", spec.interfaces[i].addresses[j]) \in Reported
               /\ Address("ExternalIP", spec.interfaces[i].addresses[j]) \notin Reported
    <3>1. /\ i \in DOMAIN server.interfaces
          /\ server.interfaces[i].type = "private"
          /\ server.interfaces[i].addresses = spec.interfaces[i].addresses
      BY <2>1, <2>4, InterfacesMade
    <3>2. spec.interfaces[i].addresses[j] # Assigned
      BY <2>1, <2>4, SpecGiven DEF InterfaceGiven
    <3>3. ASSUME NEW k \in DOMAIN server.interfaces,
                 server.interfaces[k].type = "public",
                 NEW l \in DOMAIN server.interfaces[k].addresses
          PROVE  server.interfaces[k].addresses[l] = Assigned
      <4>1. server.interfaces[k].addresses = <<Assigned>>
        BY <2>1, <2>4, <3>3, InterfacesMade
      <4> QED BY <4>1
    <3>4. Address("ExternalIP", spec.interfaces[i].addresses[j]) \notin Reported
      BY <3>2, <3>3, ExternalReported
    <3>5. Address("InternalIP", spec.interfaces[i].addresses[j]) \in Reported
      BY <2>4, <3>1, InterfaceReported
    <3> QED BY <3>4, <3>5
  <2> QED BY <2>2, <2>3, <2>4 DEF NodeIsApproved
<1> QED BY <1>1, TypeCorrect, AlwaysAsSpecified, PTL

-----------------------------------------------------------------------------
(* The user data *)

\* What ListSecrets reads in some state of the secrets.
ListingIn(state) ==
  [key \in {k \in SecretKey : /\ k[1] = machine.ns /\ spec.selector # Nil
                              /\ PresentIn(state, k)
                              /\ spec.selector \subseteq state[k].labels}
     |-> state[key]]

PlainIn(state) ==
  \/ spec.userDataSecret = Nil
  \/ /\ HasKeyIn(state, UserDataKey, "userData")
     /\ state[UserDataKey].data.userData = ""

\* What the worker x has loaded and listed, it could have read at once.
LoadedIn(x, state) ==
  IF x.data = Nil THEN PlainIn(state)
  ELSE /\ spec.userDataSecret # Nil /\ ~PlainIn(state)
       /\ UserDataKey \in SecretKey /\ x.data = state[UserDataKey].data

ListedIn(x, state) == x.data # Nil => x.listed = ListingIn(state)

\* One secret at most makes the difference.
Near(state, other) ==
  \E key \in SecretKey : \A k \in SecretKey \ {key} : state[k] = other[k]

States == [SecretKey -> Values \cup {Nil}]

\* For the worker x after c changes of the secrets: unless there was more than
\* one change since it began, each of its reads is what it would have been then,
\* or would be now.
InTime(x, c, state) ==
  x.pc \in {"userData", "list", "send"} =>
    /\ x.began.changes <= c /\ x.began.secrets \in States
    /\ c = x.began.changes => state = x.began.secrets
    /\ c = x.began.changes + 1 => Near(x.began.secrets, state)
    /\ x.pc = "userData" => x.data = Nil
    /\ x.pc = "list" => x.data # Nil
    /\ c <= x.began.changes + 1 =>
         /\ x.pc # "userData" => \/ LoadedIn(x, x.began.secrets)
                                 \/ LoadedIn(x, state)
         /\ x.pc = "send" => \/ ListedIn(x, x.began.secrets)
                             \/ ListedIn(x, state)

ReadInTime == InTime(w, changes, secrets)

LEMMA Later ==
  ASSUME UNCHANGED machine, InTime(w', changes', secrets')
  PROVE  ReadInTime'
<1>1. UNCHANGED <<spec, UserDataKey>>
  BY DEF spec, UserDataKey
<1> QED BY <1>1 DEF ReadInTime, InTime, LoadedIn, ListedIn, ListingIn, PlainIn,
                    HasKeyIn, PresentIn, Near, States

\* The types that are needed of a worker in Create.
LEMMA Creating ==
  ASSUME TypeOK, w.pc \in {"userData", "list", "send"}
  PROVE  /\ w \in [op : {"create"}, pc : {"userData", "list", "send"},
                   token : AllTokens, data : {v.data : v \in Values} \cup {Nil},
                   listed : Listed,
                   began : [secrets : States, changes : 0..MaxChanges]]
         /\ w.began.changes \in Nat /\ changes \in Nat
         /\ secrets \in States
<1>1. w \in [op : {"create"}, pc : {"userData", "list", "send"},
             token : AllTokens, data : {v.data : v \in Values} \cup {Nil},
             listed : Listed,
             began : [secrets : States, changes : 0..MaxChanges]]
  BY DEF TypeOK, Workers, Idle, States
<1> QED BY <1>1, SecretAssumption DEF TypeOK, States

LEMMA ContextInTime ==
  ASSUME TypeOK, getMachineContext
  PROVE  InTime(w', changes', secrets')
<1>1. CASE w' = Idle
  BY <1>1 DEF Idle, InTime
<1>2. ASSUME NEW token, Proceed(token) PROVE InTime(w', changes', secrets')
  <2>1. /\ w.data = Nil /\ UNCHANGED <<secrets, changes>>
        /\ secrets \in States /\ changes \in Nat
    BY SecretAssumption
       DEF TypeOK, Workers, Wanted, getMachineContext, Idle, States
  <2>2. CASE deletion = "asked"
    <3>1. w'.pc = "find"
      BY <1>2, <2>2 DEF Proceed, TypeOK, Workers, Idle
    <3> QED BY <3>1 DEF InTime
  <2>3. CASE deletion # "asked"
    <3>1. /\ w'.pc = "userData" /\ w'.data = Nil
          /\ w'.began = [secrets |-> secrets, changes |-> changes]
      BY <1>2, <2>1, <2>3 DEF Proceed, TypeOK, Workers, Idle
    <3>2. w'.began.secrets = secrets /\ w'.began.changes = changes
      BY <3>1
    <3> QED BY <2>1, <3>1, <3>2 DEF InTime
  <2> QED BY <2>2, <2>3
<1> QED BY <1>1, <1>2, Context

LEMMA LoadInTime ==
  ASSUME TypeOK, ReadInTime, LoadUserData
  PROVE  InTime(w', changes', secrets')
<1>1. /\ w.pc = "userData" /\ w.data = Nil
      /\ UNCHANGED <<secrets, changes>>
  BY DEF ReadInTime, InTime, LoadUserData
<1>2. CASE w' = Idle
  BY <1>2 DEF Idle, InTime
<1>3. CASE w' = [w EXCEPT !.pc = "send"] /\ PlainIn(secrets)
  <2>1. /\ w'.pc = "send" /\ w'.data = Nil /\ w'.began = w.began
    BY <1>1, <1>3, Creating
  <2> QED BY <1>1, <1>3, <2>1 DEF ReadInTime, InTime, LoadedIn, ListedIn
<1>4. CASE /\ spec.userDataSecret # Nil /\ HasKey(UserDataKey, "userData")
           /\ secrets[UserDataKey].data.userData # ""
           /\ w' = [w EXCEPT !.pc = "list", !.data = secrets[UserDataKey].data]
  <2>1. /\ w'.pc = "list" /\ w'.data = secrets[UserDataKey].data
        /\ w'.began = w.began
    BY <1>1, <1>4, Creating
  <2>2. UserDataKey \in SecretKey /\ w'.data # Nil
    BY <1>4, <2>1, SecretRead, SecretAssumption
  <2>3. LoadedIn(w', secrets)
    BY <1>4, <2>1, <2>2 DEF LoadedIn, PlainIn, HasKey
  <2> QED BY <1>1, <2>1, <2>2, <2>3 DEF ReadInTime, InTime
<1> QED BY <1>2, <1>3, <1>4 DEF LoadUserData, Error, PlainIn, HasKey

LEMMA ListInTime ==
  ASSUME TypeOK, ReadInTime, ListSecrets
  PROVE  InTime(w', changes', secrets')
<1>1. w.pc = "list" /\ UNCHANGED <<secrets, changes>>
  BY DEF ListSecrets
<1>2. w' = [w EXCEPT !.pc = "send", !.listed = ListingIn(secrets)]
  BY DEF ListSecrets, ListingIn, Selected, Present
<1>3. /\ w'.pc = "send" /\ w'.data = w.data /\ w'.began = w.began
      /\ w'.listed = ListingIn(secrets)
  BY <1>1, <1>2, Creating
<1> QED BY <1>1, <1>3 DEF ReadInTime, InTime, LoadedIn, ListedIn

\* What was read before a change is what would have been read at the beginning,
\* if this change is the only one.
LEMMA ChangesInTime ==
  ASSUME TypeOK, ReadInTime, SecretChanges
  PROVE  InTime(w', changes', secrets')
<1> SUFFICES ASSUME w.pc \in {"userData", "list", "send"}
             PROVE  InTime(w, changes', secrets')
  BY DEF SecretChanges, InTime
<1>1. /\ w.began.changes \in Nat /\ changes \in Nat /\ changes' = changes + 1
      /\ w.began.changes <= changes
  BY Creating DEF SecretChanges, ReadInTime, InTime
<1>2. Near(secrets, secrets')
  BY DEF Near, SecretChanges, TypeOK
<1>3. changes' # w.began.changes
  BY <1>1
<1>4. changes' <= w.began.changes + 1 =>
        changes = w.began.changes /\ secrets = w.began.secrets
  BY <1>1 DEF ReadInTime, InTime
<1> QED BY <1>1, <1>2, <1>3, <1>4 DEF ReadInTime, InTime

LEMMA NextInTime ==
  ASSUME TypeOK, ReadInTime, [Next]_vars
  PROVE  ReadInTime'
<1>1. UNCHANGED machine
  BY DEF Next, Step, vars, getMachineContext, LoadUserData, ListSecrets, Send,
         Delete, ExistsAfterDelete, SecretChanges, DeletionAsked, Settled
<1>2. CASE Send \/ Delete \/ ExistsAfterDelete
  <2>1. w'.pc = "idle"
    BY <1>2 DEF Send, Delete, ExistsAfterDelete, Idle
  <2> QED BY <1>1, <2>1, Later DEF InTime
<1>3. CASE DeletionAsked \/ UNCHANGED vars
  <2>1. UNCHANGED <<w, changes, secrets>>
    BY <1>3 DEF DeletionAsked, vars
  <2> QED BY <1>1, <2>1, Later DEF ReadInTime
<1> QED BY <1>1, <1>2, <1>3, Later, ContextInTime, LoadInTime, ListInTime,
           ChangesInTime DEF Next, Step, Settled

\* The user data of a server whose template and list are read in given states.
Choice(state) ==
  IF ManagedGivenIn(state)
  THEN [from |-> ManagedSecret[machine.set], role |-> "managed"]
  ELSE [from |-> spec.userDataSecret,
        role |-> IF machine.master THEN "master" ELSE "worker"]

\* The secrets in a list that are named after the MachineSet are at most one.
LEMMA OnlyManaged ==
  ASSUME NEW state
  PROVE  /\ Named(ListingIn(state)) \subseteq {ManagedKey}
         /\ ManagedSelectedIn(state) <=> ManagedKey \in Named(ListingIn(state))
         /\ \A key \in Named(ListingIn(state)) : ListingIn(state)[key] = state[key]
<1>1. \A key : key \in Named(ListingIn(state)) <=>
                 /\ machine.set # Nil /\ spec.selector # Nil
                 /\ key \in SecretKey /\ key[1] = machine.ns
                 /\ key[2] = ManagedSecret[machine.set]
                 /\ PresentIn(state, key) /\ spec.selector \subseteq state[key].labels
  BY DEF Named, ListingIn
<1>2. \A key \in Named(ListingIn(state)) : ListingIn(state)[key] = state[key]
  BY DEF Named, ListingIn
<1>3. \A key \in Named(ListingIn(state)) : key = ManagedKey
  BY <1>1, SecretAssumption DEF ManagedKey
<1>4. ManagedKey[1] = machine.ns /\ ManagedKey[2] = ManagedSecret[machine.set]
  BY DEF ManagedKey
<1> QED BY <1>1, <1>2, <1>3, <1>4 DEF ManagedSelectedIn, PresentIn

\* The template takes the managed user data exactly if it is given.
LEMMA Rendered ==
  ASSUME NEW state, NEW data, Render(data, ListingIn(state)) # RenderError
  PROVE  Render(data, ListingIn(state)) = Choice(state)
<1> DEFINE listed == ListingIn(state)
           uds == Named(listed)
<1>1. Fallback(data) # RenderError =>
        Fallback(data) = [from |-> spec.userDataSecret,
                          role |-> IF machine.master THEN "master" ELSE "worker"]
  BY DEF Fallback
<1>2. CASE ManagedKey \notin uds
  <2>1. uds = {} /\ ~ManagedGivenIn(state)
    BY <1>2, OnlyManaged DEF ManagedGivenIn
  <2>2. Render(data, listed) = Fallback(data)
    BY <2>1 DEF Render
  <2> QED BY <1>1, <2>1, <2>2 DEF Choice
<1>3. CASE ManagedKey \in uds
  <2> DEFINE found == state[ManagedKey].data
  <2>1. /\ uds = {ManagedKey} /\ listed[ManagedKey].data = found
        /\ ManagedGivenIn(state) <=> "userData" \in DOMAIN found
    BY <1>3, OnlyManaged DEF ManagedGivenIn, ManagedSelectedIn, HasKeyIn
  <2>2. (CHOOSE k \in uds : TRUE) = ManagedKey
    BY <2>1
  <2>3. CASE "userData" \in DOMAIN found
    <3>1. Render(data, listed) = [from |-> ManagedKey[2], role |-> "managed"]
      BY <2>1, <2>2, <2>3 DEF Render
    <3>2. ManagedKey[2] = ManagedSecret[machine.set]
      BY DEF ManagedKey
    <3> QED BY <2>1, <2>3, <3>1, <3>2 DEF Choice
  <2>4. CASE "userData" \notin DOMAIN found
    <3>1. Render(data, listed) = Fallback(data)
      BY <2>1, <2>2, <2>4 DEF Render
    <3> QED BY <1>1, <2>1, <2>4, <3>1 DEF Choice
  <2> QED BY <2>3, <2>4
<1> QED BY <1>2, <1>3

\* Template and managed user data are in two secrets, so that one change leaves
\* one of them as it is.
LEMMA Apart ==
  ASSUME NEW s \in States, NEW t \in States, s = t \/ Near(s, t) \/ Near(t, s),
         machine.set # Nil => UserDataKey # ManagedKey,
         UserDataKey \in SecretKey
  PROVE  \/ s[UserDataKey] = t[UserDataKey]
         \/ ManagedGivenIn(s) <=> ManagedGivenIn(t)
<1>1. CASE machine.set = Nil
  BY <1>1 DEF ManagedGivenIn, ManagedSelectedIn
<1>2. CASE ManagedKey \in SecretKey => s[ManagedKey] = t[ManagedKey]
  BY <1>2 DEF ManagedGivenIn, ManagedSelectedIn, HasKeyIn, PresentIn
<1> QED BY <1>1, <1>2 DEF Near

LEMMA SendBoots ==
  ASSUME TypeOK, ReadInTime, Send, server' # server,
         changes <= w.began.changes + 1,
         machine.set # Nil => UserDataKey # ManagedKey
  PROVE  server'.userData \in {SpecifiedIn(w.began.secrets), SpecifiedIn(secrets)}
<1>1. /\ w.pc = "send" /\ UserData # RenderError
      /\ server'.userData = UserData
  BY DEF Send, ServerFor, Request
<1>2. PICK s \in {w.began.secrets, secrets} : LoadedIn(w, s)
  BY <1>1 DEF ReadInTime, InTime
<1>3. CASE w.data = Nil
  <2>1. PlainIn(s) /\ UserData = Nil
    BY <1>2, <1>3 DEF LoadedIn, UserData
  <2>2. SpecifiedIn(s) = Nil
    BY <2>1 DEF PlainIn, SpecifiedIn
  <2> QED BY <1>1, <1>2, <2>1, <2>2
<1>4. CASE w.data # Nil
  <2>1. PICK t \in {w.began.secrets, secrets} : w.listed = ListingIn(t)
    BY <1>1, <1>4 DEF ReadInTime, InTime, ListedIn
  <2>2. UserData = Choice(t)
    BY <1>1, <1>4, <2>1, Rendered DEF UserData
  <2>3. /\ spec.userDataSecret # Nil /\ ~PlainIn(s)
        /\ UserDataKey \in SecretKey
    BY <1>2, <1>4 DEF LoadedIn
  <2>4. s \in States /\ t \in States /\ (s = t \/ Near(s, t) \/ Near(t, s))
    <3>1. /\ w.began.changes \in Nat /\ changes \in Nat
          /\ secrets \in States
      BY <1>1, Creating
    <3>2. /\ w.began.secrets \in States
          /\ w.began.secrets = secrets \/ Near(w.began.secrets, secrets)
      BY <1>1, <3>1 DEF ReadInTime, InTime
    <3> QED BY <1>2, <2>1, <3>1, <3>2
  <2>5. \A u : ~PlainIn(u) => SpecifiedIn(u) = Choice(u)
    BY DEF PlainIn, SpecifiedIn, Choice
  <2>6. CASE s[UserDataKey] = t[UserDataKey]
    <3>1. ~PlainIn(t)
      BY <2>3, <2>6 DEF PlainIn, HasKeyIn, PresentIn
    <3> QED BY <1>1, <2>1, <2>2, <2>5, <3>1
  <2>7. CASE ManagedGivenIn(s) <=> ManagedGivenIn(t)
    <3>1. Choice(s) = Choice(t)
      BY <2>7 DEF Choice
    <3> QED BY <1>1, <1>2, <2>2, <2>3, <2>5, <3>1
  <2> QED BY <2>3, <2>4, <2>6, <2>7, Apart
<1> QED BY <1>3, <1>4

\* A server boots as specified, for any secrets in any namespaces, with the
\* user data of its MachineSet or the default sources for a master or a worker:
\* the calls that read the secrets (loadAndRenderUserDataSecret) add up to one
\* read when one of them changes meanwhile, and the template takes the one
\* secret that is meant (userdata.jsonnet).
THEOREM Boots == Spec => BootsAsSpecified
<1>1. Init => ReadInTime
  BY DEF Init, ReadInTime, InTime, Idle
<1>2. TypeOK /\ ReadInTime /\ [Next]_vars => ReadInTime'
  BY NextInTime
<1> DEFINE A == /\ server = Nil /\ server' # Nil
                /\ changes <= w.began.changes + 1
                /\ machine.set # Nil => UserDataKey # ManagedKey
                => server'.userData \in {SpecifiedIn(w.began.secrets),
                                         SpecifiedIn(secrets)}
<1>3. TypeOK /\ ReadInTime /\ [Next]_vars => [A]_vars
  <2> SUFFICES ASSUME TypeOK, ReadInTime, Next, server = Nil, server' # Nil,
                      changes <= w.began.changes + 1,
                      machine.set # Nil => UserDataKey # ManagedKey
               PROVE  server'.userData \in {SpecifiedIn(w.began.secrets),
                                            SpecifiedIn(secrets)}
    OBVIOUS
  <2>1. Send
    BY DEF Next, Step, getMachineContext, LoadUserData, ListSecrets, Delete,
           ExistsAfterDelete, SecretChanges, DeletionAsked, Settled, vars
  <2> QED BY <2>1, SendBoots
<1> QED BY <1>1, <1>2, <1>3, TypeCorrect, PTL DEF Spec, BootsAsSpecified
===============================================================================

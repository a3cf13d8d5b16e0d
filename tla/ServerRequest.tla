---------------------------- MODULE ServerRequest ----------------------------
(***************************************************************************)
(* What Actuator.Create asks cloudscale for, and what of the answer is     *)
(* reported on the Machine: the API token, the user data, the interfaces   *)
(* and the addresses (pkg/machine/actuator.go), with the user data         *)
(* template the repository ships (pkg/machine/userdata/userdata.jsonnet).  *)
(*                                                                         *)
(* The request is put together from several reads of secrets, which others *)
(* write at any time; some secrets may not be there yet, or be gone when   *)
(* Delete and Exists need them.  Module Actuator has all the other calls.  *)
(***************************************************************************)
EXTENDS Naturals, Sequences

CONSTANTS
  Input,          \* Machines that may be given
  SecretKey,      \* <<namespace, name>> of the secrets there may be
  Contents,       \* the contents each of them takes, as [labels, data]
  ManagedSecret,  \* the name <machineset>-user-data-managed of a MachineSet
  DefaultToken,   \* CLOUDSCALE_API_TOKEN
  Project,        \* the project of each token, which is all it gives access to
  Nil,
  MaxChanges      \* how often secrets are changed, at most

ASSUME SecretAssumption ==
  /\ DOMAIN Contents = SecretKey
  /\ \A key \in SecretKey : key = <<key[1], key[2]>>
  /\ \A key \in SecretKey : \A c \in Contents[key] : c # Nil /\ c.data # Nil
  /\ MaxChanges \in Nat

Tokens(key) == {c.data.token : c \in {d \in Contents[key] : "token" \in DOMAIN d.data}}

\* Somebody who replaces a token does so with one of the same project: nothing
\* in the code remembers the project a server is in.
ASSUME RotationAssumption ==
  \A key \in SecretKey : \A t, u \in Tokens(key) : Project[t] = Project[u]

VARIABLES
  machine,   \* the Machine to be created
  secrets,   \* the secrets, as the informer cache has them
  w,         \* the worker: operation, program counter, token, data and secrets;
             \* and for BootsAsSpecified, what it began with
  server,    \* the server that was created, or Nil
  deletion,  \* of the Machine: "no", "asked" or "done"
  changes

vars == <<machine, secrets, w, server, deletion, changes>>

\* In some state of the secrets, and in the current one.
PresentIn(state, key) == key \in SecretKey /\ state[key] # Nil

HasKeyIn(state, key, field) ==
  PresentIn(state, key) /\ field \in DOMAIN state[key].data

Present(key) == PresentIn(secrets, key)

HasKey(key, field) == HasKeyIn(secrets, key, field)

-----------------------------------------------------------------------------
(* The provider spec *)

\* What a missing provider spec reads as.
EmptySpec == [flavor |-> "", tokenSecret |-> Nil, userDataSecret |-> Nil,
              selector |-> Nil, baseDomain |-> <<>>, interfaces |-> Nil]

\* Malformed JSON is an error; null is taken for a spec that is not there, and
\* dereferenced: the reconcile panics, which ends it like an error.
SpecError == Nil

ProviderSpecFromRawExtension(value) ==
  CASE value.raw = "absent"                -> EmptySpec
    [] value.raw \in {"malformed", "null"} -> SpecError
    [] value.raw = "spec"                  -> value.spec

spec == ProviderSpecFromRawExtension(machine.value)

-----------------------------------------------------------------------------
(* Helpers of Create *)

Public == "Public"

\* Nil interfaces are left out of the request.  Public ones have no options;
\* addresses that are not given are left out, no addresses are asked for.
cloudscaleServerInterfacesFromProviderSpecInterfaces(interfaces) ==
  IF interfaces = Nil THEN Nil
  ELSE [i \in DOMAIN interfaces |->
          IF interfaces[i].type = Public
          THEN [network |-> "public", addresses |-> Nil]
          ELSE [network |-> interfaces[i].network,
                addresses |-> interfaces[i].addresses]]

\* metadata.name, and the base domain if there is one; names are sequences of
\* the parts between the dots.
ServerName == machine.name \o spec.baseDomain

\* The secrets, of those listed, that are named after the MachineSet.
Named(listed) ==
  {key \in DOMAIN listed : machine.set # Nil /\ key[2] = ManagedSecret[machine.set]}

RenderError == [error |-> TRUE]

\* What the default sources take of the user data secret.
FallbackFields == {"ignitionHost", "ignitionCA"}

\* Mutant: masters boot like workers.
FallbackToWorker(data) ==
  IF FallbackFields \subseteq DOMAIN data
  THEN [from |-> spec.userDataSecret, role |-> "worker"]
  ELSE RenderError

Fallback(data) ==
  IF FallbackFields \subseteq DOMAIN data
  THEN [from |-> spec.userDataSecret,
        role |-> IF machine.master THEN "master" ELSE "worker"]
  ELSE RenderError

\* The template takes the user data of the MachineSet if exactly one secret has
\* its name, and else the default sources.  A secret without any data has no
\* field to look it up in.
Render(data, listed) ==
  LET uds == Named(listed) IN
  IF \A key \in uds : uds # {key} THEN Fallback(data)
  ELSE LET key == CHOOSE k \in uds : TRUE
           found == listed[key].data
       IN  CASE DOMAIN found = {} -> RenderError
             [] DOMAIN found # {} /\ "userData" \notin DOMAIN found -> Fallback(data)
             [] "userData" \in DOMAIN found ->
                  IF found.userData = "broken" THEN RenderError
                  ELSE [from |-> key[2], role |-> "managed"]

-----------------------------------------------------------------------------
(* The context of each operation *)

Idle == [op |-> "create", pc |-> "idle", token |-> Nil, data |-> Nil,
         listed |-> [key \in {} |-> Nil], began |-> Nil]

\* Every error ends the reconcile; it is repeated later.
Error == w' = Idle

\* The machine controller deletes a machine that is to be deleted, then asks
\* whether it exists, and creates one that does not exist.
Wanted ==
  /\ w.pc = "idle"
  /\ \/ w.op = "create" /\ deletion = "no" /\ server = Nil
     \/ deletion = "asked"

Proceed(token) ==
  w' = [w EXCEPT
          !.op = IF deletion = "asked" /\ @ = "create" THEN "delete" ELSE @,
          !.pc = IF deletion = "asked" THEN "find" ELSE "userData",
          !.token = token,
          !.began = IF deletion = "asked" THEN Nil
                    ELSE [secrets |-> secrets, changes |-> changes]]

TokenKey == <<machine.ns, spec.tokenSecret>>

\* Mutant: a secret that cannot be used is not an error.
getTokenOrDefault ==
  LET usable == spec.tokenSecret # Nil /\ HasKey(TokenKey, "token") IN
  /\ Wanted
  /\ \/ (~machine.cluster \/ spec = SpecError) /\ Error
     \/ /\ machine.cluster /\ spec # SpecError
        /\ Proceed(IF usable THEN secrets[TokenKey].data.token ELSE DefaultToken)
  /\ UNCHANGED <<machine, secrets, server, deletion, changes>>

\* Mutant: that the key may be missing is overlooked; it reads as "".
getTokenUnchecked ==
  /\ Wanted
  /\ \/ (~machine.cluster \/ spec = SpecError) /\ Error
     \/ /\ machine.cluster /\ spec # SpecError
        /\ \/ spec.tokenSecret = Nil /\ Proceed(DefaultToken)
           \/ spec.tokenSecret # Nil /\ ~Present(TokenKey) /\ Error
           \/ /\ spec.tokenSecret # Nil /\ Present(TokenKey)
              /\ Proceed(IF HasKey(TokenKey, "token")
                         THEN secrets[TokenKey].data.token ELSE "")
  /\ UNCHANGED <<machine, secrets, server, deletion, changes>>

\* The cluster-id label and a spec are required; the token is that of the
\* machine's own secret, or the default.
getMachineContext ==
  /\ Wanted
  /\ \/ ~machine.cluster /\ Error
     \/ machine.cluster /\ spec = SpecError /\ Error
     \/ /\ machine.cluster /\ spec # SpecError
        /\ \/ spec.tokenSecret = Nil /\ Proceed(DefaultToken)
           \/ spec.tokenSecret # Nil /\ ~HasKey(TokenKey, "token") /\ Error
           \/ /\ spec.tokenSecret # Nil /\ HasKey(TokenKey, "token")
              /\ Proceed(secrets[TokenKey].data.token)
  /\ UNCHANGED <<machine, secrets, server, deletion, changes>>

-----------------------------------------------------------------------------
(* Delete and Exists *)

\* getServer lists the servers of the token's project.
Found == server # Nil /\ Project[server.token] = Project[w.token]

\* Mutant: as in Update, a server that is not found is an error.
DeleteFound ==
  /\ w.op = "delete" /\ w.pc = "find"
  /\ \/ Found /\ server' = Nil /\ w' = [Idle EXCEPT !.op = "exists"]
     \/ ~Found /\ UNCHANGED server /\ Error
  /\ UNCHANGED <<machine, secrets, deletion, changes>>

\* The server is deleted; if there is none, there is nothing to do.
Delete ==
  /\ w.op = "delete" /\ w.pc = "find"
  /\ server' = IF Found THEN Nil ELSE server
  /\ w' = [Idle EXCEPT !.op = "exists"]
  /\ UNCHANGED <<machine, secrets, deletion, changes>>

\* The finalizer is removed when there is no server.
ExistsAfterDelete ==
  /\ w.op = "exists" /\ w.pc = "find"
  /\ deletion' = IF Found THEN deletion ELSE "done"
  /\ w' = Idle
  /\ UNCHANGED <<machine, secrets, server, changes>>

-----------------------------------------------------------------------------
(* Create *)

UserDataKey == <<machine.ns, spec.userDataSecret>>

\* Without a user data secret, or with an empty template, there is no user
\* data and nothing to render.
LoadUserData ==
  LET key == UserDataKey IN
  /\ w.pc = "userData"
  /\ \/ spec.userDataSecret = Nil /\ w' = [w EXCEPT !.pc = "send"]
     \/ spec.userDataSecret # Nil /\ ~HasKey(key, "userData") /\ Error
     \/ /\ spec.userDataSecret # Nil /\ HasKey(key, "userData")
        /\ IF secrets[key].data.userData = "" THEN w' = [w EXCEPT !.pc = "send"]
           ELSE w' = [w EXCEPT !.pc = "list", !.data = secrets[key].data]
  /\ UNCHANGED <<machine, secrets, server, deletion, changes>>

Selected(keys) ==
  IF spec.selector = Nil THEN {}
  ELSE {key \in keys : Present(key) /\ spec.selector \subseteq secrets[key].labels}

\* Mutant: the list is not limited to the namespace.
ListEverywhere ==
  /\ w.pc = "list"
  /\ w' = [w EXCEPT !.pc = "send",
             !.listed = [key \in Selected(SecretKey) |-> secrets[key]]]
  /\ UNCHANGED <<machine, secrets, server, deletion, changes>>

\* Mutant: it is an error when no secret is selected.
ListSome ==
  LET keys == Selected({key \in SecretKey : key[1] = machine.ns}) IN
  /\ w.pc = "list"
  /\ \/ keys = {} /\ Error
     \/ /\ keys # {}
        /\ w' = [w EXCEPT !.pc = "send",
                          !.listed = [key \in keys |-> secrets[key]]]
  /\ UNCHANGED <<machine, secrets, server, deletion, changes>>

\* The secrets the template may use, read after the template itself.
ListSecrets ==
  LET keys == Selected({key \in SecretKey : key[1] = machine.ns}) IN
  /\ w.pc = "list"
  /\ w' = [w EXCEPT !.pc = "send", !.listed = [key \in keys |-> secrets[key]]]
  /\ UNCHANGED <<machine, secrets, server, deletion, changes>>

UserData == IF w.data = Nil THEN Nil ELSE Render(w.data, w.listed)

\* cloudscale: a server needs a flavor; an interface without a request for
\* addresses is given one.
Assigned == <<"auto">>

Accepted(req) == req.flavor # ""

ServerFor(req) ==
  [token |-> req.token, userData |-> req.userData, name |-> req.name,
   interfaces |->
     IF req.interfaces = Nil THEN <<[type |-> "public", addresses |-> <<Assigned>>]>>
     ELSE [i \in DOMAIN req.interfaces |->
             LET r == req.interfaces[i]
             IN  [type |-> IF r.network = "public" THEN "public" ELSE "private",
                  addresses |-> IF r.addresses = Nil THEN <<Assigned>>
                                ELSE r.addresses]]]

Request == [token |-> w.token, userData |-> UserData, flavor |-> spec.flavor,
            name |-> ServerName,
            interfaces |-> cloudscaleServerInterfacesFromProviderSpecInterfaces(
                             spec.interfaces)]

Send ==
  /\ w.pc = "send"
  /\ \/ UserData = RenderError /\ UNCHANGED server
     \/ UserData # RenderError /\ ~Accepted(Request) /\ UNCHANGED server
     \/ UserData # RenderError /\ Accepted(Request) /\ server' = ServerFor(Request)
  /\ w' = Idle
  /\ UNCHANGED <<machine, secrets, deletion, changes>>

-----------------------------------------------------------------------------
(* The specs that are given *)

\* A private network goes by its UUID, and cloudscale assigns no address that is
\* pinned.
InterfaceGiven(n) ==
  /\ n.type # Public => n.network # "public"
  /\ n.addresses # Nil => \A j \in DOMAIN n.addresses : n.addresses[j] # Assigned

\* Names have a part before the first dot.
InputGiven(m) ==
  /\ m.name \in Seq(STRING) \ {<<>>}
  /\ m.value.raw \in {"absent", "malformed", "null", "spec"}
  /\ m.value.raw = "spec" =>
       LET interfaces == m.value.spec.interfaces IN
       /\ m.value.spec.baseDomain \in Seq(STRING)
       /\ interfaces # Nil =>
            /\ cloudscaleServerInterfacesFromProviderSpecInterfaces(interfaces) # Nil
            /\ \A i \in DOMAIN interfaces : InterfaceGiven(interfaces[i])

ASSUME InputAssumption == \A m \in Input : InputGiven(m)

-----------------------------------------------------------------------------
(* The addresses reported on the Machine *)

Address(type, address) == [type |-> type, address |-> address]

\* Mutant: only the name of the server itself is reported.
ServerNames(s) == {Address("Hostname", s.name), Address("InternalDNS", s.name)}

\* The name, and what it has before the first dot.
HostNames(s) ==
  {Address("Hostname", s.name)}
    \cup {Address("InternalDNS", name) : name \in {s.name, <<Head(s.name)>>}}

\* Mutant: the type is compared with that of the provider spec.
InterfaceAddressesBySpecType(n) ==
  {Address(IF n.type = Public THEN "ExternalIP" ELSE "InternalIP",
           n.addresses[j]) : j \in DOMAIN n.addresses}

InterfaceAddresses(n) ==
  {Address(IF n.type = "public" THEN "ExternalIP" ELSE "InternalIP",
           n.addresses[j]) : j \in DOMAIN n.addresses}

\* Nobody minds the order in which they are reported.
machineAddressesFromCloudscaleServer(s) ==
  HostNames(s)
    \cup UNION {InterfaceAddresses(s.interfaces[i]) : i \in DOMAIN s.interfaces}

-----------------------------------------------------------------------------

\* Somebody creates, changes or deletes a secret.
SecretChanges ==
  /\ changes < MaxChanges /\ changes' = changes + 1
  /\ \E key \in SecretKey : \E c \in (Contents[key] \cup {Nil}) \ {secrets[key]} :
       secrets' = [secrets EXCEPT ![key] = c]
  /\ UNCHANGED <<machine, w, server, deletion>>

DeletionAsked ==
  /\ deletion = "no" /\ deletion' = "asked"
  /\ UNCHANGED <<machine, secrets, w, server, changes>>

\* There is nothing to do but what others ask for.
Settled ==
  /\ w = Idle /\ (server # Nil \/ deletion = "done")
  /\ UNCHANGED vars

Init ==
  /\ machine \in Input
  /\ secrets \in {f \in [SecretKey -> {Nil} \cup UNION {Contents[k] : k \in SecretKey}] :
                    \A k \in SecretKey : f[k] \in Contents[k] \cup {Nil}}
  /\ w = Idle /\ server = Nil /\ deletion = "no" /\ changes = 0

Step == \/ getMachineContext
        \/ LoadUserData \/ ListSecrets \/ Send
        \/ Delete \/ ExistsAfterDelete

Next == Step \/ SecretChanges \/ DeletionAsked \/ Settled

Spec == Init /\ [][Next]_vars

\* Failed reconciles are repeated.
FairSpec == Spec /\ WF_vars(Step)

-----------------------------------------------------------------------------
(* Properties *)

Values == UNION {Contents[key] : key \in SecretKey}

AllTokens == {DefaultToken} \cup UNION {Tokens(key) : key \in SecretKey}

Listed == UNION {[keys -> Values] : keys \in SUBSET SecretKey}

Workers ==
  {Idle}
    \cup [op : {"create"}, pc : {"userData", "list", "send"}, token : AllTokens,
          data : {v.data : v \in Values} \cup {Nil}, listed : Listed,
          began : [secrets : [SecretKey -> Values \cup {Nil}],
                   changes : 0..MaxChanges]]
    \cup [op : {"delete", "exists"}, pc : {"idle", "find"},
          token : AllTokens \cup {Nil}, data : {Nil}, listed : {Idle.listed},
          began : {Nil}]

\* The values each variable may have: a worker under way has a token that was
\* read, and a machine is deleted only when asked for.
TypeOK ==
  /\ machine \in Input
  /\ secrets \in [SecretKey -> Values \cup {Nil}]
  /\ \A key \in SecretKey : secrets[key] \in Contents[key] \cup {Nil}
  /\ w \in Workers
  /\ server # Nil => server.token \in AllTokens
  /\ deletion \in {"no", "asked", "done"}
  /\ w.op # "create" => deletion = "asked"
  /\ changes \in 0..MaxChanges

\* A machine that names a token secret is never created with another token, so
\* in another project, whatever happens to the secret: the lookups that find
\* its server again use this token.
RightProject ==
  server # Nil =>
    IF spec.tokenSecret = Nil THEN server.token = DefaultToken
    ELSE TokenKey \in SecretKey /\ server.token \in Tokens(TokenKey)

\* The MachineSet's own user data, as the documentation of the provider spec
\* says which secrets are considered: null none, an empty selector all.
ManagedKey == <<machine.ns, ManagedSecret[machine.set]>>

ManagedSelectedIn(state) ==
  /\ machine.set # Nil /\ spec.selector # Nil
  /\ PresentIn(state, ManagedKey)
  /\ spec.selector \subseteq state[ManagedKey].labels

ManagedGivenIn(state) ==
  ManagedSelectedIn(state) /\ HasKeyIn(state, ManagedKey, "userData")

\* What a server is to boot with, as specified by the secrets in some state of
\* them: the user data of its MachineSet if that is given, and otherwise the
\* default sources of its role; nothing only if nothing is asked for.
SpecifiedIn(state) ==
  IF \/ spec.userDataSecret = Nil
     \/ /\ HasKeyIn(state, UserDataKey, "userData")
        /\ state[UserDataKey].data.userData = ""
  THEN Nil
  ELSE IF ManagedGivenIn(state)
  THEN [from |-> ManagedSecret[machine.set], role |-> "managed"]
  ELSE [from |-> spec.userDataSecret,
        role |-> IF machine.master THEN "master" ELSE "worker"]

\* A server boots as its secrets specified when the reconcile that creates it
\* began, or when it created it, although they are read one by one: at most one
\* change in between is either seen or not.  Secrets of other namespaces and
\* MachineSets make no difference.
BootsAsSpecified ==
  [][/\ server = Nil /\ server' # Nil
     /\ changes <= w.began.changes + 1
     /\ machine.set # Nil => UserDataKey # ManagedKey
     => server'.userData \in {SpecifiedIn(w.began.secrets), SpecifiedIn(secrets)}]_vars

\* What getMachineContext needs is there, and all the request needs.
Accessible ==
  /\ machine.cluster /\ spec # SpecError
  /\ spec.tokenSecret # Nil => HasKey(TokenKey, "token")

\* The template can be rendered.
Renderable ==
  IF ManagedGivenIn(secrets) THEN secrets[ManagedKey].data.userData # "broken"
  ELSE /\ FallbackFields \subseteq DOMAIN secrets[UserDataKey].data
       /\ ManagedSelectedIn(secrets) => DOMAIN secrets[ManagedKey].data # {}

Complete ==
  /\ Accessible /\ spec.flavor # ""
  /\ spec.userDataSecret # Nil =>
       /\ HasKey(UserDataKey, "userData")
       /\ secrets[UserDataKey].data.userData = "" \/ Renderable

\* The server is created once all secrets it needs are there, in whatever order
\* they come; secrets that are merely considered need not exist.
CreatedWhenComplete == <>[](deletion = "no" /\ Complete => server # Nil)

\* A machine is gone only after its server, also when its token secret was
\* deleted, or given a new token, between the calls that need it.
NothingLeftBehind == deletion = "done" => server = Nil

\* A deletion waits for the token secret, whatever happened to it, and for
\* nothing else: user data need not be there any more.
DeletedWhenAccessible == <>[](deletion = "asked" => ~Accessible)

Reported == machineAddressesFromCloudscaleServer(server)

\* The template writes metadata.name to /etc/hostname: the name of the node.
NodeName == machine.name

\* What the approval of the node's certificate needs: the names of the node,
\* the addresses that the spec pins, as internal ones, and as external ones
\* those of public interfaces only.  Machines
\* whose own name has a dot are excepted: for the node w.x, server w.x.example,
\* only the names w.x.example and w are reported.
NodeIsApproved ==
  server # Nil /\ Len(machine.name) = 1 =>
    /\ Address("InternalDNS", NodeName) \in Reported
    /\ spec.interfaces # Nil =>
         \A i \in DOMAIN spec.interfaces :
           LET n == spec.interfaces[i] IN
           IF n.type = Public THEN Address("ExternalIP", Assigned) \in Reported
           ELSE n.addresses # Nil =>
                  \A j \in DOMAIN n.addresses :
                    /\ Address("InternalIP", n.addresses[j]) \in Reported
                    /\ Address("ExternalIP", n.addresses[j]) \notin Reported
===============================================================================

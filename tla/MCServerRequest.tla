--------------------------- MODULE MCServerRequest ---------------------------
(***************************************************************************)
(* An instance of ServerRequest for TLC: a token secret, a user data       *)
(* secret, and a managed secret of the same name in two namespaces, each   *)
(* in the states that the code tells apart, and machines whose specs use   *)
(* them in different ways.                                                 *)
(***************************************************************************)
EXTENDS ServerRequest, TLC

MCSecretKey == {<<"n1", "token">>, <<"n1", "ud">>,
                <<"n1", "a-managed">>, <<"n2", "a-managed">>}

content(labels, data) == [labels |-> labels, data |-> data]

managed == { content({"ud"}, "userData" :> "ignition"),
             content({"ud"}, "userData" :> "broken"),
             content({}, "userData" :> "ignition"),
             content({"ud"}, "other" :> "x"),
             content({"ud"}, [field \in {} |-> ""]) }

MCContents ==
  <<"n1", "token">> :> { content({}, "token" :> "own"),
                         content({}, "token" :> "rotated"),
                         content({"ud"}, "other" :> "x") }
  @@ <<"n1", "ud">> :>
       { content({}, "userData" :> "template" @@ "ignitionHost" :> "api"
                       @@ "ignitionCA" :> "ca"),
         content({}, "userData" :> "template" @@ "ignitionHost" :> "api"),
         content({}, "userData" :> ""),
         content({}, "ignitionHost" :> "api" @@ "ignitionCA" :> "ca") }
  @@ <<"n1", "a-managed">> :> managed
  @@ <<"n2", "a-managed">> :> managed

MCProject == "own" :> "P" @@ "rotated" :> "P" @@ "default" :> "D"

MCManagedSecret == "a" :> "a-managed" @@ "b" :> "b-managed"

interface(type, network, addresses) ==
  [type |-> type, network |-> network, addresses |-> addresses]

base == [flavor |-> "flex", tokenSecret |-> "token", userDataSecret |-> "ud",
         selector |-> {"ud"}, baseDomain |-> <<"example">>,
         interfaces |-> <<interface("Private", "net", << <<"ip">> >>),
                          interface("Public", "", Nil)>>]

worker == [name |-> <<"w">>, ns |-> "n1", set |-> "a", master |-> FALSE,
           cluster |-> TRUE, value |-> [raw |-> "spec", spec |-> base]]

\* Machines that get a server, or would if their secrets were there.
Sound == { worker,
           [worker EXCEPT !.value.spec.selector = {}, !.value.spec.baseDomain = <<>>],
           [worker EXCEPT !.value.spec.selector = Nil, !.value.spec.tokenSecret = Nil],
           [worker EXCEPT !.name = <<"w", "x">>, !.set = "b",
              !.value.spec.interfaces = Nil],
           [worker EXCEPT !.set = "b", !.master = TRUE],
           [worker EXCEPT !.set = Nil, !.master = TRUE,
              !.value.spec.userDataSecret = Nil,
              !.value.spec.interfaces = <<interface("Private", "net", Nil)>>] }

\* Machines that never get one.
Unsound == { [worker EXCEPT !.cluster = FALSE],
             [worker EXCEPT !.value.raw = "null"],
             [worker EXCEPT !.value.raw = "malformed"],
             [worker EXCEPT !.value.raw = "absent"] }

MCInput == Sound \cup Unsound
===============================================================================

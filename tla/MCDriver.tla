------------------------------ MODULE MCDriver ------------------------------
(***************************************************************************)
(* The batch driver on small instances: three flow IDs, so that a flow of  *)
(* its own lives next to a connection, and IDs are reused.  In a second    *)
(* part, libraries are loaded and parsers looked up, and no batch is read. *)
(***************************************************************************)
EXTENDS Driver, Startup

VARIABLE part        \* which of the two a behaviour is about

Unit(public, ports, types) == [is_public |-> public, ports |-> ports, mime_types |-> types]
On(port, direction) == [port |-> port, direction |-> direction]
Units ==
  ("Http" :> Unit(TRUE, <<On("80/tcp", "both")>>, <<<<"text", "html">>, <<"text", "*">>>>))
  @@ ("Request" :> Unit(TRUE, <<On("80/tcp", "%orig"), On("53/udp", "%orig")>>, <<<<"text", "html">>>>))
  @@ ("Any" :> Unit(TRUE, <<On("53/udp", "%resp")>>, <<<<"*", "*">>>>))
  @@ ("Hidden" :> Unit(FALSE, <<>>, <<<<"text", "plain">>, <<"image", "*">>>>))
  @@ ("Xml" :> Unit(TRUE, <<>>, <<<<"text", "xml">>, <<"*", "xml">>>>))

\* The modules "http" and "dns" need each other's globals, and one library is
\* loaded from two places.
Libraries == {"web", "copy", "dns"}
LibraryModules == [web |-> {"http", "mime"}, copy |-> {"http", "mime"}, dns |-> {"dns"}]
Scopes == [http |-> "1", mime |-> "1", dns |-> "2"]
Globals == [http |-> {"mime", "dns"}, mime |-> {}, dns |-> {"http"}]
Registrations == [http |-> <<"Http", "Request">>, mime |-> <<"Hidden">>, dns |-> <<"Any", "Xml">>]
Types == {<<"text", "html">>, <<"text", "plain">>, <<"image", "png">>, <<"text", "xml">>, <<"text", "*">>, <<"*", "*">>}

InitParts == part \in {"batch", "startup"} /\ Init /\ StartupInit
NextParts ==
  \/ part = "batch" /\ Next /\ UNCHANGED <<part, startup>>
  \/ part = "startup" /\ StartupNext /\ UNCHANGED <<part, vars>>
SpecParts == InitParts /\ [][NextParts]_<<part, vars, startup>>

Symmetry == Permutations(FlowId) \cup Permutations(ConnId)
=============================================================================

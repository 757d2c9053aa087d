--------------------------- MODULE MCAdminScreens ---------------------------
(* QueryCache over the screens and the handlers of stitch-admin, following *)
(* one query in each behaviour.                                            *)
EXTENDS AdminScreens, QueryCache
AllCommands == DOMAIN Handlers
EachKey == {{k} : k \in AllKeys}
=============================================================================

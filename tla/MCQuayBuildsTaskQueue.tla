------------------------ MODULE MCQuayBuildsTaskQueue ------------------------
(* One image, and a build of another flow. *)
EXTENDS QuayBuildsTaskQueue

CONSTANTS t1, other

OneTask  == {t1}
Other    == {other}
AllFaults == {"url", "quay", "post", "cancel", "unknown"}
=============================================================================

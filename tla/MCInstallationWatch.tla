------------------------ MODULE MCInstallationWatch ------------------------
(***************************************************************************)
(* InstallationWatch with a channel of one place and more events than fit  *)
(* into it.                                                                *)
(***************************************************************************)
EXTENDS InstallationWatch
=============================================================================

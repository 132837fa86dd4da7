----------------------------- MODULE MCWebClient -----------------------------
(***************************************************************************)
(* Instances of WebClient for TLC. A drop that comes second, or a redeploy,  *)
(* takes the page to another deployment; both deployments may have lines.    *)
(***************************************************************************)
EXTENDS WebClient
===============================================================================

----------------------------- MODULE MCRegistry -----------------------------
(* Two loaders whose inventories overlap: one product, one repository, one  *)
(* ref; the fourth identifier lets a registration be repeated.              *)
EXTENDS Registry

CONSTANTS slug, url, release, team, value

MCSlugs == {slug, Empty}
MCUrls == {url}
MCRefs == {Empty}
MCVersions == {release}
MCTeams == {team, Garbled}
MCAttributes == {value}
=============================================================================

---------------------------- MODULE Directories ----------------------------
(***************************************************************************)
(* What role the directories give a user whose password they accept: the   *)
(* loops of _authenticate_ldap, _authenticate_radius and                   *)
(* _authenticate_tacacs.  Group names and attribute values are reduced to  *)
(* what the configuration makes of them: "admin", "viewer" or "other".     *)
(***************************************************************************)
EXTENDS Integers, Sequences, SequencesExt

CONSTANTS LdapDefault, RadiusDefault, TacacsDefault,   \* default_role of each
          SearchesGroups,   \* group_base_dn is set
          AdminLevel,       \* admin_priv_lvl
          ViewerLevel       \* viewer_priv_lvl

ASSUME DirectoryAssumption ==
    SearchesGroups \in BOOLEAN /\ {AdminLevel, ViewerLevel} \subseteq Int

Mark == {"admin", "viewer", "other"}

\* LDAP: any admin group, otherwise any viewer group, otherwise the default; a
\* default of admin is never lowered, and without group_base_dn no group is read.
LdapRole(groups) ==
    CASE SearchesGroups /\ "admin" \in groups -> "admin"
      [] SearchesGroups /\ "admin" \notin groups /\ "viewer" \in groups
            /\ LdapDefault # "admin" -> "viewer"
      [] OTHER -> LdapDefault

\* RADIUS: the loop over the Filter-Ids stops at the admin attribute; the viewer
\* attribute counts until then.
RadiusStep(acc, id) ==
    IF acc.stop \/ id = "other" THEN acc ELSE [role |-> id, stop |-> id = "admin"]

RadiusRole(ids) == FoldLeft(RadiusStep, [role |-> RadiusDefault, stop |-> FALSE], ids).role

\* TACACS+: the first privilege level among the arguments, if there is one.
TacacsRole(levels) ==
    IF levels = <<>> THEN TacacsDefault
    ELSE CASE Head(levels) >= AdminLevel -> "admin"
           [] Head(levels) < AdminLevel /\ Head(levels) <= ViewerLevel -> "viewer"
           [] OTHER -> TacacsDefault

\* A directory's answer: which one, and what it says of the user.
RoleOf(answer) ==
    CASE answer.by = "ldap"   -> LdapRole(answer.says)
      [] answer.by = "radius" -> RadiusRole(answer.says)
      [] answer.by = "tacacs" -> TacacsRole(answer.says)
=============================================================================

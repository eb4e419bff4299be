------------------------------- MODULE Global -------------------------------
(***************************************************************************)
(* pctkLimits.h and pctkGlobal.h, the header every other one of the core   *)
(* library includes.                                                       *)
(***************************************************************************)
EXTENDS Types

(* Limits of the system: its own where it names them, these otherwise.     *)
SystemLimits ==
    [NGROUPS_MAX |-> 65536, ARG_MAX |-> 131072, LINK_MAX |-> 127, MAX_CANON |-> 255,
     MAX_INPUT |-> 255, NAME_MAX |-> 255, PATH_MAX |-> 4096, PIPE_BUF |-> 4096,
     XATTR_NAME_MAX |-> 255, XATTR_SIZE_MAX |-> 65536, XATTR_LIST_MAX |-> 65536]

LimitName(name) ==
    "PCTK_" \o CASE name = "MAX_CANON" -> "CANON_MAX"
                 [] name = "MAX_INPUT" -> "INPUT_MAX"
                 [] OTHER -> name

Limits(m) ==
    LET limit(name) == IF defined(m, {name}) THEN m[name] ELSE SystemLimits[name] IN
    DefineAs(m, [x \in {LimitName(n) : n \in DOMAIN SystemLimits} |->
                    limit(CHOOSE n \in DOMAIN SystemLimits : LimitName(n) = x)])

LimitsLines(m) == UnlessFailed(pctkTypes(m), Limits)

pctkLimits(m) == Header("_PCTKLIMITS_H_", m, LimitsLines)

(* What the library exports, its user imports, if it is a shared one.      *)
CoreApi(m) ==
    IF ~defined(m, {"PCTK_SHARED"}) THEN "plain"
    ELSE IF defined(m, {"PCTK_BUILD_CORE_LIB"}) THEN value(m, "PCTK_DECL_EXPORT")
    ELSE value(m, "PCTK_DECL_IMPORT")

Exports(m) == DefineAs(m, [PCTK_CORE_API |-> CoreApi(m)])
GlobalLines(m) == UnlessFailed(pctkCompiler(pctkLimits(pctkMacros(m))), Exports)

pctkGlobal(m) == Header("_PCTKGLOBAL_H", m, GlobalLines)
=============================================================================

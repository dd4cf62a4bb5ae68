----------------------------- MODULE DenoLocks -----------------------------
(***************************************************************************)
(* The dependencies of a Deno project: src/manifests/deno and discovery/   *)
(* deno.rs.  The configuration of the project and of its workspace members *)
(* is read, through import maps that may point to further import maps; the *)
(* imports found are then bound to the specifiers, packages and modules of *)
(* a deno.lock.  An import is a scheme, what it names (a package or a URL) *)
(* and a requirement; a specifier of the lockfile may end in a subpath.    *)
(***************************************************************************)
EXTENDS Integers, SequencesExt, FiniteSetsExt, Functions

CONSTANTS
  DenoProjects,     \* the projects considered
  MaxImports,       \* limits.max_packages, as it bounds the imports of a project
  MaxImportMaps,    \* limits.max_package_depth, as it bounds a chain of import maps
  MaxRedirectHops   \* limits.max_redirect_hops

ASSUME DenoLimits == MaxImportMaps \in Nat /\ MaxRedirectHops \in Nat

\* The files of a project are finitely many, its root and members among them;
\* a file that points elsewhere and has mappings holds both.  A specifier of
\* a lockfile is a record as Key makes them.
ASSUME DenoProjectsAssumption ==
  \A d \in DenoProjects :
    /\ IsFiniteSet(DOMAIN d.files) /\ "none" \notin DOMAIN d.files
    /\ d.root \in DOMAIN d.files /\ d.members \in Seq(DOMAIN d.files)
    /\ \A f \in DOMAIN d.files :
         /\ IsFiniteSet(d.files[f].imports)
         /\ (d.files[f].importMap # "none" /\ d.files[f].imports # {}) => d.files[f].inline
    /\ IsFiniteSet(DOMAIN d.lock.specifiers)
    /\ \A k \in DOMAIN d.lock.specifiers :
         k = [scheme |-> k.scheme, of |-> k.of, form |-> k.form, accepts |-> k.accepts, sub |-> k.sub]

VARIABLES
  deno,       \* the configuration files, the members and the lockfile
  reading,    \* the file being read, after those that led to it
  configs,    \* configurations of members still to be read
  imports,    \* imports found so far
  bindings,   \* those looked up in the lockfile, as it binds them
  denoStage   \* where the discovery stands, or how it ended

denoVars == <<deno, reading, configs, imports, bindings, denoStage>>

-----------------------------------------------------------------------------
(* Reading the configuration.                                              *)

DenoInit ==
  /\ deno \in DenoProjects
  /\ reading = <<deno.root>> /\ configs = deno.members
  /\ imports = {} /\ bindings = {} /\ denoStage = "read"

\* A configuration that cannot be read takes all imports with it.
RefuseConfiguration(error) ==
  /\ denoStage' = error
  /\ imports' = {} /\ reading' = <<>> /\ configs' = <<>>
  /\ UNCHANGED <<deno, bindings>>

ConfigFile == deno.files[Last(reading)]

OfRoot == reading[1] = deno.root

External == deno.files[deno.root].importMap # "none"

\* A file may not point elsewhere and hold mappings of its own; a chain must
\* not return to one of its files, and has a limited length.
ChainError(limit) ==
  \/ ConfigFile.inline
  \/ Len(reading) > limit
  \/ Contains(reading, ConfigFile.importMap)
  \/ ConfigFile.importMap \notin DOMAIN deno.files

\* A member configures nothing of the project as a whole, and no mappings
\* when the project takes its own from elsewhere.
MemberError ==
  /\ ~OfRoot
  /\ \/ deno.files[reading[1]].workspace
     \/ deno.files[reading[1]].lock
     \/ External /\ ConfigFile.imports # {}

FollowImportMap ==
  /\ denoStage = "read" /\ reading # <<>> /\ ConfigFile.importMap # "none" /\ ~ChainError(MaxImportMaps)
  /\ reading' = Append(reading, ConfigFile.importMap)
  /\ UNCHANGED <<deno, configs, imports, bindings, denoStage>>

RefuseImportMap ==
  /\ denoStage = "read" /\ reading # <<>> /\ ConfigFile.importMap # "none" /\ ChainError(MaxImportMaps)
  /\ RefuseConfiguration("manifest")

CollectImports ==
  /\ denoStage = "read" /\ reading # <<>> /\ ConfigFile.importMap = "none" /\ ~MemberError
  /\ Cardinality(imports \cup ConfigFile.imports) <= MaxImports
  /\ imports' = imports \cup ConfigFile.imports
  /\ reading' = <<>>
  /\ UNCHANGED <<deno, configs, bindings, denoStage>>

RefuseImports ==
  /\ denoStage = "read" /\ reading # <<>> /\ ConfigFile.importMap = "none"
  /\ \/ MemberError /\ RefuseConfiguration("manifest")
     \/ ~MemberError /\ Cardinality(imports \cup ConfigFile.imports) > MaxImports /\ RefuseConfiguration("limit")

NextMember ==
  /\ denoStage = "read" /\ reading = <<>> /\ configs # <<>>
  /\ reading' = <<Head(configs)>> /\ configs' = Tail(configs)
  /\ UNCHANGED <<deno, imports, bindings, denoStage>>

-----------------------------------------------------------------------------
(* What a lockfile holds, by its version; 0 is the first, without one.     *)

Locked == deno.lock

NoEntries == [k \in {} |-> "none"]

Specifiers == IF Locked.version \in 2 .. 5 THEN Locked.specifiers ELSE NoEntries

PackageDigest(scheme, package, version) ==
  LET key == <<scheme, package, version>>
  IN  IF key \in DOMAIN Locked.packages
         /\ (Locked.version \in 3 .. 5 \/ (Locked.version = 2 /\ scheme = "npm"))
      THEN Locked.packages[key] ELSE "none"

Redirects == IF Locked.version = 5 THEN Locked.redirects ELSE NoEntries

Key(i, scheme) == [scheme |-> scheme, of |-> i.of, form |-> i.form, accepts |-> i.accepts, sub |-> "none"]

\* The key as written, which comes first, or the one without its scheme.
Exact(i) ==
  LET keys == {Key(i, i.scheme), Key(i, "none")} \cap DOMAIN Specifiers
  IN  IF Key(i, i.scheme) \in keys THEN {Key(i, i.scheme)} ELSE keys

\* Specifiers that differ from an import in their subpath only.
Normalized(i) == {k \in DOMAIN Specifiers : [k EXCEPT !.sub = "none"] = Key(i, i.scheme)}

\* A slip: of several such specifiers the first found is taken.
MappingFirst(i) ==
  IF Exact(i) # {} THEN Exact(i)
  ELSE IF Normalized(i) = {} THEN {} ELSE {CHOOSE k \in Normalized(i) : TRUE}

Mapping(i) ==
  IF Exact(i) # {} THEN Exact(i)
  ELSE IF Cardinality(Normalized(i)) = 1 THEN Normalized(i) ELSE {}

\* The locked text may repeat the name of the package; that of another one
\* is no version.
LockedVersion(i, k) ==
  IF Specifiers[k].of \in {"none", i.of} THEN Specifiers[k].version ELSE "none"

\* A tag has to be mapped as it stands, and jsr has none.
SpecifierCompatible(i, k) ==
  LET version == LockedVersion(i, k)
  IN  /\ version # "none"
      /\ CASE i.form = "any" -> TRUE
           [] i.form = "range" -> version \in i.accepts
           [] OTHER -> i.scheme = "npm" /\ Exact(i) # {}

\* From a URL along the redirects the lockfile declares.
RedirectChain(url) ==
  LET way[n \in 0 .. MaxRedirectHops] ==
        IF n = 0 THEN url ELSE IF way[n - 1] \in DOMAIN Redirects THEN Redirects[way[n - 1]] ELSE "none"
  IN  way

\* The first module of the chain that has a digest, and none beyond a limit.
IntegrityFor(url) ==
  LET hits == {n \in 0 .. MaxRedirectHops : RedirectChain(url)[n] \in DOMAIN Locked.remote}
  IN  IF hits = {} THEN "none" ELSE Locked.remote[RedirectChain(url)[Min(hits)]]

-----------------------------------------------------------------------------
(* Binding.                                                                *)

Binding(i, version, integrity, registry) ==
  [import |-> i, version |-> version, integrity |-> integrity, registryIntegrity |-> registry]

Unlocked(i) == Binding(i, "none", "none", FALSE)

EnrichRemote(i) ==
  IF IntegrityFor(i.of) = "none" THEN Unlocked(i) ELSE Binding(i, i.of, IntegrityFor(i.of), FALSE)

\* npm packages without a digest have to be verified by what the registry
\* says; those of jsr without a usable one are not.
EnrichRegistry(i) ==
  IF \A k \in Mapping(i) : ~SpecifierCompatible(i, k) THEN Unlocked(i)
  ELSE LET k      == CHOOSE k \in Mapping(i) : SpecifierCompatible(i, k)
           digest == PackageDigest(i.scheme, i.of, LockedVersion(i, k))
       IN  IF i.scheme = "jsr" /\ digest = "malformed" THEN Binding(i, LockedVersion(i, k), "none", FALSE)
           ELSE Binding(i, LockedVersion(i, k), digest, i.scheme = "npm" /\ digest = "none")

WithoutLockfile ==
  /\ denoStage = "read" /\ reading = <<>> /\ configs = <<>> /\ ~Locked.present
  /\ bindings' = {Unlocked(i) : i \in imports}
  /\ denoStage' = "done"
  /\ UNCHANGED <<deno, reading, configs, imports>>

\* An unknown version, or two entries of one URL that differ.
RefuseDenoLock ==
  /\ denoStage = "read" /\ reading = <<>> /\ configs = <<>>
  /\ Locked.present /\ (Locked.version \notin 0 .. 5 \/ Locked.conflicting)
  /\ bindings' = {Unlocked(i) : i \in imports}
  /\ denoStage' = "unlockable"
  /\ UNCHANGED <<deno, reading, configs, imports>>

OpenDenoLock ==
  /\ denoStage = "read" /\ reading = <<>> /\ configs = <<>>
  /\ Locked.present /\ Locked.version \in 0 .. 5 /\ ~Locked.conflicting
  /\ denoStage' = "lookup"
  /\ UNCHANGED <<deno, reading, configs, imports, bindings>>

LookedUp == {b.import : b \in bindings}

EnrichImport ==
  /\ denoStage = "lookup"
  /\ \E i \in imports \ LookedUp :
       bindings' = bindings \cup {IF i.scheme = "https" THEN EnrichRemote(i) ELSE EnrichRegistry(i)}
  /\ UNCHANGED <<deno, reading, configs, imports, denoStage>>

DenoDone ==
  /\ denoStage = "lookup" /\ LookedUp = imports
  /\ denoStage' = "done"
  /\ UNCHANGED <<deno, reading, configs, imports, bindings>>

DenoNext ==
  \/ FollowImportMap \/ RefuseImportMap \/ CollectImports \/ RefuseImports \/ NextMember
  \/ WithoutLockfile \/ RefuseDenoLock \/ OpenDenoLock \/ EnrichImport \/ DenoDone

DenoSpec == DenoInit /\ [][DenoNext]_denoVars

-----------------------------------------------------------------------------
(* What a discovery promises.                                              *)

Configurations == {deno.root} \cup Range(deno.members)

\* The files a configuration leads to, whatever is in the way.
LeadsTo(config) ==
  LET chain[n \in 0 .. Cardinality(DOMAIN deno.files)] ==
        IF n = 0 THEN {config}
        ELSE chain[n - 1] \cup {deno.files[f].importMap : f \in chain[n - 1] \cap DOMAIN deno.files}
  IN  chain[Cardinality(DOMAIN deno.files)] \cap DOMAIN deno.files

\* Everything said of a specifier in the lockfile, without its scheme or
\* with it and under any subpath.
Recorded(i) ==
  {k \in DOMAIN Specifiers :
     /\ k.of = i.of /\ k.form = i.form /\ k.accepts = i.accepts
     /\ k.scheme = i.scheme \/ (k.scheme = "none" /\ k.sub = "none")}

\* A discovery that ends well has followed each configuration to the file
\* that holds its mappings, has lost none of them, and has bound each import
\* at most to a version its requirement accepts and its lockfile records for
\* it, in agreement with every other record of it unless its own decides, and
\* with the digest of that package, or of a module its URL is redirected to
\* within the limit.  A lockfile that cannot be used leaves all imports
\* visible (deno/import_map.rs:49, deno/lockfile.rs:337, discovery/deno.rs:41).
DenoBoundAsRecorded ==
  denoStage \in {"done", "unlockable"} =>
    /\ LookedUp = imports /\ Cardinality(bindings) = Cardinality(imports)
    /\ imports = UNION {UNION {deno.files[f].imports : f \in LeadsTo(c)} : c \in Configurations}
    /\ denoStage = "unlockable" => bindings = {Unlocked(i) : i \in imports}
    /\ \A c \in Configurations : Cardinality(LeadsTo(c)) <= MaxImportMaps + 1
    /\ \A b \in bindings : b.version # "none" =>
         LET i == b.import
         IN  IF i.scheme = "https"
             THEN \E n \in 0 .. MaxRedirectHops :
                    /\ RedirectChain(i.of)[n] \in DOMAIN Locked.remote
                    /\ b.integrity = Locked.remote[RedirectChain(i.of)[n]]
             ELSE /\ i.form = "range" => b.version \in i.accepts
                  /\ \E k \in Recorded(i) :
                       /\ Specifiers[k].version = b.version /\ Specifiers[k].of \in {"none", i.of}
                       /\ k.sub = "none" \/ \A other \in Recorded(i) : Specifiers[other].version = b.version
                  /\ b.integrity # "none" => b.integrity = Locked.packages[<<i.scheme, i.of, b.version>>]
                  /\ i.scheme = "npm" => (b.integrity = "none" <=> b.registryIntegrity)
=============================================================================

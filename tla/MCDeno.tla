------------------------------- MODULE MCDeno -------------------------------
(* Projects for DenoLocks: chains, cycles and members on the one hand, one    *)
(* import beside lockfiles of every version on the other.                     *)
EXTENDS DenoLocks, TLC

Import(scheme, of, form, accepts) == [scheme |-> scheme, of |-> of, form |-> form, accepts |-> accepts]

Lodash == Import("npm", "lodash", "range", {"1", "2"})
Latest == Import("npm", "lodash", "tag", {})
AnyVersion == Import("npm", "lodash", "any", {})
Std    == Import("jsr", "std", "range", {"1"})
StdTag == Import("jsr", "std", "tag", {})
RemoteModule == Import("https", "m", "any", {})

Config(found, importMap) ==
  [imports |-> found, importMap |-> importMap, inline |-> FALSE, workspace |-> FALSE, lock |-> FALSE]

ImportChain == ("json" :> Config({}, "one")) @@ ("one" :> Config({}, "two"))

Configured(files, members, lock) ==
  [root |-> "json", files |-> files, members |-> members, lock |-> lock]

NoLock ==
  [present |-> FALSE, version |-> 5, conflicting |-> FALSE, specifiers |-> NoEntries,
   packages |-> NoEntries, remote |-> NoEntries, redirects |-> NoEntries]

ConfigTrees ==
  {"json" :> Config({Lodash, Std}, "none"),
   ImportChain @@ ("two" :> Config({Lodash, Std}, "none")),
   ImportChain @@ ("two" :> Config({}, "three")) @@ ("three" :> Config({Std}, "none")),
   ImportChain @@ ("two" :> Config({}, "one")),
   ImportChain @@ ("two" :> Config({}, "json")),
   ImportChain,
   [ImportChain EXCEPT !["one"] = [Config({Std}, "two") EXCEPT !.inline = TRUE]] @@ ("two" :> Config({Lodash}, "none"))}

MemberLists ==
  {<<>>, <<"member">>, <<"bare">>, <<"member", "far">>, <<"nested">>, <<"locked">>, <<"bare", "member", "wide">>}

MemberFiles ==
  ("member" :> Config({RemoteModule}, "none")) @@ ("bare" :> Config({}, "none"))
    @@ ("far" :> Config({}, "one")) @@ ("wide" :> Config({AnyVersion, Latest}, "none"))
    @@ ("nested" :> [Config({}, "none") EXCEPT !.workspace = TRUE])
    @@ ("locked" :> [Config({}, "none") EXCEPT !.lock = TRUE])

Specifier(i, scheme, sub) == [Key(i, scheme) EXCEPT !.sub = sub]

To(of, version) == [of |-> of, version |-> version]

SpecifierTables(i) ==
  {NoEntries,
   Specifier(i, i.scheme, "none") :> To(i.of, "1"),
   Specifier(i, "none", "none") :> To("none", "2"),
   Specifier(i, i.scheme, "none") :> To("lodash-es", "1"),
   Specifier(i, i.scheme, "none") :> To("none", "none"),
   Specifier(i, i.scheme, "x") :> To("none", "1"),
   (Specifier(i, i.scheme, "x") :> To("none", "1")) @@ (Specifier(i, i.scheme, "y") :> To("none", "2")),
   (Specifier(i, i.scheme, "none") :> To("none", "1")) @@ (Specifier(i, i.scheme, "y") :> To("none", "2")),
   Specifier(i, i.scheme, "none") :> To("none", "3")}

Digests ==
  (<<"npm", "lodash", "1">> :> "d1") @@ (<<"npm", "lodash", "3">> :> "d3")
    @@ (<<"jsr", "std", "1">> :> "d1") @@ (<<"jsr", "std", "2">> :> "malformed")

RegistryLocks(i) ==
  {[NoLock EXCEPT !.present = TRUE, !.version = v, !.specifiers = t, !.packages = Digests] :
     v \in {0, 2, 3, 5}, t \in SpecifierTables(i)}

RemoteLocks ==
  {[NoLock EXCEPT !.present = TRUE, !.version = v, !.conflicting = c, !.remote = r, !.redirects = s] :
     v \in {1, 5, 6}, c \in BOOLEAN,
     r \in {NoEntries, "m" :> "dm", "m3" :> "d3", ("m" :> "dm") @@ ("m2" :> "d2"), "m2" :> "d2"},
     s \in {NoEntries, ("m" :> "m1") @@ ("m1" :> "m2") @@ ("m2" :> "m3"), ("m" :> "m1") @@ ("m1" :> "m")}}

MCDenoProjects ==
  {Configured(files @@ MemberFiles, members, NoLock) : files \in ConfigTrees, members \in MemberLists}
    \cup UNION {{Configured("json" :> Config({i}, "none"), <<>>, lock) : lock \in RegistryLocks(i)} :
                  i \in {Lodash, Latest, AnyVersion, Std, StdTag}}
    \cup {Configured("json" :> Config({RemoteModule, Lodash}, "none"), <<>>, lock) : lock \in RemoteLocks}
=============================================================================

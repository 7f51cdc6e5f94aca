------------------------------- MODULE Settings -------------------------------
(***************************************************************************)
(* The configuration: two files as a person edits them (envfile.rs,        *)
(* tomlconfig.rs), what a server makes of them and of its environment      *)
(* (config.rs), and `config set` and `config unset`, which rewrite one of  *)
(* them in place (cli.rs).                                                 *)
(*                                                                         *)
(* A value is a sequence of characters, words of which are one character.  *)
(* An env file is a sequence of lines, a TOML file the settings it has and *)
(* what stands under the name of each of its tables.                       *)
(***************************************************************************)
EXTENDS Integers, Sequences, SequencesExt, FiniteSets

CONSTANT MinToken   \* the length a token must have

KNOWN == {"admin_addr", "admin_token", "store", "workers", "media_addr", "media_dir"}
Numeric == {"workers"}
Number(v) == v # <<>> /\ \A i \in DOMAIN v : v[i] \in {"1", "2"}

(* Where a setting lives in a TOML file, "" being the file itself.         *)
TableOf(key) ==
    CASE key \in {"admin_addr", "admin_token"} -> "admin"
      [] key \in {"media_addr", "media_dir"} -> "media"
      [] key = "store" -> "store"
      [] OTHER -> ""

Quotes == {"dq", "sq"}
Quoted(v) == Len(v) >= 2 /\ v[1] \in Quotes /\ v[Len(v)] = v[1]

Trim(v) ==
    LET solid == {i \in DOMAIN v : v[i] # " "}
    IN  IF solid = {} THEN <<>> ELSE SubSeq(v, Min(solid), Max(solid))

----------------------------------------------------------------------------
(* The env file. A line is a setting, one that is commented out, a comment *)
(* or blank, or something that is none of these; `lead` is its indentation *)
(* and its `export`.                                                       *)

Setting(kind, lead, key, raw) == [kind |-> kind, lead |-> lead, key |-> key, raw |-> raw]

Unquote(v) == IF Quoted(v) THEN SubSeq(v, 2, Len(v) - 1) ELSE v

(* The settings it makes, or <<>> where it is not one.                     *)
ParseEnv(lines) ==
    LET live == {i \in DOMAIN lines : lines[i].kind = "live"}
        of(k) == {i \in live : lines[i].key = k}
        keys == {lines[i].key : i \in live}
    IN  IF (\E i \in DOMAIN lines : lines[i].kind = "junk") \/ (\E k \in keys : Cardinality(of(k)) > 1)
        THEN <<>>
        ELSE <<[k \in keys |-> Unquote(Trim(lines[Min(of(k))].raw))]>>

(* A change of RenderValue: nothing is quoted.                             *)
RenderBare(v) == IF Contains(v, "ctl") \/ Quoted(v) THEN <<>> ELSE <<v>>

(* How a value is written so that it is read back; some cannot be.         *)
RenderValue(v) ==
    IF Contains(v, "ctl") \/ Quoted(v) THEN <<>>
    ELSE IF v = Trim(v) THEN <<v>>
    ELSE IF Contains(v, "dq") THEN <<>>
    ELSE <<(<<"dq">> \o v \o <<"dq">>)>>

(* A change: [key, value], value <<>> to take the setting out. The lines   *)
(* to append follow all others, whichever change they come from.           *)
RewriteEnv(lines, changes) ==
    LET first(ls, kind, key) == LET at == {i \in DOMAIN ls : ls[i].kind = kind /\ ls[i].key = key}
                                IN  IF at = {} THEN 0 ELSE Min(at)
        one(ls, c) ==
            LET on == first(ls, "live", c.key)
                n == IF on # 0 THEN on ELSE first(ls, "off", c.key)
            IN  IF c.value = <<>> THEN (IF on = 0 THEN ls ELSE [ls EXCEPT ![on].kind = "off"])
                ELSE LET raw == RenderValue(c.value[1])[1]
                     IN  IF n = 0 THEN Append(ls, Setting("live", "", c.key, raw))
                         ELSE [ls EXCEPT ![n] = Setting("live", @.lead, c.key, raw)]
    IN  IF \E i \in DOMAIN changes : changes[i].value # <<>> /\ RenderValue(changes[i].value[1]) = <<>>
        THEN <<>>
        ELSE <<FoldLeft(one, lines, changes)>>

----------------------------------------------------------------------------
(* The TOML file: [broken, tables, items], a table "absent", a "section",  *)
(* "inline", or the name of a "value" that is no table; an item <<>> or a  *)
(* value that is perhaps a list.                                           *)

Item(v) == [list |-> FALSE, is |-> v]
List == [list |-> TRUE]

EmptyToml == [broken |-> FALSE, tables |-> [t \in {"admin", "media", "store"} |-> "absent"],
              items |-> [k \in KNOWN |-> <<>>]]

(* What is empty is not set, decided here for every reader.                *)
ParseToml(doc) ==
    LET there == {k \in KNOWN : doc.items[k] # <<>>}
    IN  IF doc.broken \/ \E k \in there : doc.items[k][1].list THEN <<>>
        ELSE <<[k \in {x \in there : Trim(doc.items[x][1].is) # <<>>} |-> doc.items[k][1].is]>>

(* A setting is emptied rather than taken out, for the sake of the comment *)
(* above it; one in an inline table is not found.                          *)
RewriteToml(doc, changes) ==
    LET state(d, k) == IF TableOf(k) = "" THEN "section" ELSE d.tables[TableOf(k)]
        render(k, v) == IF k \in Numeric /\ Number(Trim(v)) THEN Trim(v) ELSE v
        one(d, c) ==
            IF c.value # <<>>
            THEN [d EXCEPT !.items[c.key] = <<Item(render(c.key, c.value[1]))>>,
                           !.tables = [t \in DOMAIN @ |-> IF t = TableOf(c.key) THEN "section" ELSE @[t]]]
            ELSE IF state(d, c.key) = "section" /\ d.items[c.key] # <<>>
            THEN [d EXCEPT !.items[c.key] = <<Item(<<>>)>>]
            ELSE d
    IN  IF \E i \in DOMAIN changes : /\ changes[i].value # <<>>
                                     /\ state(doc, changes[i].key) \in {"inline", "value"}
        THEN <<>>
        ELSE <<FoldLeft(one, doc, changes)>>

----------------------------------------------------------------------------
(* Config: what is in force. `lookup` is the settings found, with the      *)
(* environment over the TOML file over the env file.                       *)

Blank(v) == Trim(v) = <<>>

Looked(environ, toml, env) == [k \in {x \in DOMAIN environ : ~ Blank(environ[x])} |-> environ[k]] @@ toml @@ env

Defaults == [store |-> <<"files">>, workers |-> <<"1">>]

Used(lookup, k) ==
    IF k \in DOMAIN lookup /\ ~ Blank(lookup[k]) /\ (k \in Numeric => Number(Trim(lookup[k])))
    THEN <<Trim(lookup[k])>>
    ELSE IF k \in DOMAIN Defaults THEN <<Defaults[k]>> ELSE <<>>

DefaultMedia == <<"8001">>
AnyPort == <<":0">>

(* validate: what would not work, or would not be safe, does not start.    *)
Valid(lookup) ==
    LET used(k) == Used(lookup, k)
        mediaAddr == IF used("media_addr") = <<>> THEN <<DefaultMedia>> ELSE used("media_addr")
    IN  /\ used("media_addr") # <<>> => used("media_dir") # <<>>
        /\ used("media_dir") # <<>> /\ mediaAddr # <<AnyPort>> => used("admin_addr") # mediaAddr
        /\ used("admin_addr") # <<>> =>
              /\ used("store") = << <<"sqlite">> >>
              /\ used("admin_token") # <<>> /\ Len(used("admin_token")[1]) >= MinToken

(* settings: each with where it comes from, as `config` shows it.          *)
Shown(environ, toml, env, k) ==
    LET from(f) == k \in DOMAIN f /\ ~ Blank(f[k])
    IN  IF from(environ) THEN <<"environment", <<Trim(environ[k])>>>>
        ELSE IF from(toml) THEN <<"toml file", <<Trim(toml[k])>>>>
        ELSE IF from(env) THEN <<"env file", <<Trim(env[k])>>>>
        ELSE <<"default", IF k \in DOMAIN Defaults THEN <<Defaults[k]>> ELSE <<>>>>

----------------------------------------------------------------------------
(* config set, config unset: w = [named, toml, env, environ], the files    *)
(* named and what each holds, or <<>> where it is not there                *)

NoVars == [k \in {} |-> <<>>]
Vars(parsed) == IF parsed = <<>> THEN NoVars ELSE parsed[1]

TomlOf(w) == IF w.toml = <<>> THEN EmptyToml ELSE w.toml[1]
EnvOf(w) == IF w.env = <<>> THEN <<>> ELSE w.env[1]

(* What is read of the other file, if it can be: nothing if it cannot.     *)
Under(w) == IF "env" \in w.named THEN Vars(ParseEnv(EnvOf(w))) ELSE NoVars

GivenTwice(changes) == \E i, j \in DOMAIN changes : i # j /\ changes[i].key = changes[j].key
Strangers(changes) == \E i \in DOMAIN changes : changes[i].key \notin KNOWN

Edit(w, changes) ==
    LET inToml == "toml" \in w.named
        sound == IF inToml THEN ParseToml(TomlOf(w)) # <<>> ELSE ParseEnv(EnvOf(w)) # <<>>
        text == IF inToml THEN RewriteToml(TomlOf(w), changes) ELSE RewriteEnv(EnvOf(w), changes)
        parsed == IF inToml THEN ParseToml(text[1]) ELSE ParseEnv(text[1])
        would == IF inToml THEN Looked(w.environ, parsed[1], Under(w))
                 ELSE Looked(w.environ, NoVars, parsed[1])
    IN  IF w.named = {} \/ Strangers(changes) \/ GivenTwice(changes) THEN <<>>
        ELSE IF ~ sound THEN <<>>
        ELSE IF text = <<>> THEN <<>>
        ELSE IF parsed = <<>> THEN <<>>
        ELSE IF ~ Valid(would) THEN <<>>
        ELSE IF inToml THEN <<[w EXCEPT !.toml = text]>>
        ELSE <<[w EXCEPT !.env = text]>>

(* from_env: a file that is named and cannot be read stops the server.     *)
Readable(w) ==
    /\ "toml" \in w.named => w.toml # <<>> /\ ParseToml(w.toml[1]) # <<>>
    /\ "env" \in w.named => w.env # <<>> /\ ParseEnv(w.env[1]) # <<>>

TomlVars(w) == IF "toml" \in w.named THEN Vars(ParseToml(TomlOf(w))) ELSE NoVars
InForce(w) == Looked(w.environ, TomlVars(w), Under(w))

Starts(w) == Readable(w) /\ Valid(InForce(w))

----------------------------------------------------------------------------
(* What is promised of an edit *)

(* "A writer that regenerated the file would throw all of that away": no   *)
(* line goes, and none changes that no change is about.                    *)
KeepsLines(before, after, changes) ==
    /\ Len(after) >= Len(before)
    /\ \A i \in DOMAIN before :
          \/ before[i] = after[i]
          \/ /\ before[i].lead = after[i].lead
             /\ \E c \in DOMAIN changes : changes[c].key = before[i].key /\ changes[c].key = after[i].key

(* What is read afterwards is what was read before and what was changed.   *)
(* A number is normalised, an empty value no setting.                      *)
ReadBack(before, after, changes, k) ==
    LET about == {i \in DOMAIN changes : changes[i].key = k}
        c == changes[Min(about)]
        read(f) == IF k \in DOMAIN f /\ ~ Blank(f[k]) THEN <<f[k]>> ELSE <<>>
    IN  IF about = {} THEN read(after) = read(before)
        ELSE IF c.value = <<>> \/ Blank(c.value[1]) THEN read(after) = <<>>
        ELSE \/ read(after) = c.value
             \/ k \in Numeric /\ read(after) = <<Trim(c.value[1])>>
=============================================================================

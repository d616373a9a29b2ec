----------------------------- MODULE HttpCookie -----------------------------
(***************************************************************************)
(* HttpCookie: the text of a cookie and its way back.  toByteArray writes  *)
(* a cookie, the constructor from a byte array reads one: splitCSV cuts    *)
(* the text at semicolons outside of quotes, then each part sets a field.  *)
(* A client sends back names and values, which HttpRequest::extractCookies *)
(* cuts in the same way.                                                   *)
(*                                                                         *)
(* Text is a sequence of words, of the characters "=", ";", "\"" and " ".  *)
(***************************************************************************)
EXTENDS Integers, Sequences, FiniteSets, SequencesExt, Ordering

CONSTANTS Cookies,  \* cookies that are written and read again
          Jars,     \* what clients send back: sequences of [name, value]
          Texts     \* other texts that are read

NewCookie ==
  [name |-> << >>, value |-> << >>, Comment |-> << >>, Domain |-> << >>, Path |-> << >>,
   maxAge |-> << >>, secure |-> FALSE, httpOnly |-> FALSE]

IsText(t) == t \in Seq(ToSet(t))

(* Texts are sequences of characters. *)
ASSUME TextsAssumption ==
  /\ \A c \in Cookies : /\ DOMAIN c = DOMAIN NewCookie
                        /\ \A f \in DOMAIN c \ {"secure", "httpOnly"} : IsText(c[f])
                        /\ c.secure \in BOOLEAN /\ c.httpOnly \in BOOLEAN
  /\ \A j \in Jars : /\ IsText(j)
                     /\ \A i \in DOMAIN j : IsText(j[i].name) /\ IsText(j[i].value)
  /\ \A t \in Texts : IsText(t)

VARIABLES
  written,   \* the cookie that toByteArray was called for, or a new one
  jar,       \* what a client sends back, or nothing
  source,    \* the text
  position,  \* characters of it that splitCSV has read
  inString, buffer, list,   \* its local variables
  cookie,    \* the cookie that is read
  cookies,   \* the cookies of the request
  stage      \* "split", "fields", "done"

cookieVars == <<written, jar, source, position, inString, buffer, list, cookie, cookies,
                stage>>

WithoutBlanks(text) ==
  LET word == {i \in DOMAIN text : text[i] # " "}
  IN  IF word = {} THEN << >>
      ELSE SubSeq(text, CHOOSE i \in word : \A j \in word : i <= j,
                        CHOOSE i \in word : \A j \in word : i >= j)

(* The attribute `name' with its value, if it has one. *)
Attribute(name, value) ==
  IF value = << >> THEN << >> ELSE <<";", " ", name, "=">> \o value

Flag(name, set) == IF set THEN <<";", " ", name>> ELSE << >>

ToByteArray(c) ==
  c.name \o <<"=">> \o c.value \o Attribute("Comment", c.Comment)
    \o Attribute("Domain", c.Domain) \o Attribute("Max-Age", c.maxAge)
    \o Attribute("Path", c.Path) \o Flag("Secure", c.secure)
    \o Flag("HttpOnly", c.httpOnly) \o Attribute("Version", <<"1">>)

(* The header Cookie of a client. *)
CookieHeader(j) ==
  FlattenSeq([i \in DOMAIN j |-> (IF i = 1 THEN << >> ELSE <<";", " ">>)
                                   \o j[i].name \o <<"=">> \o j[i].value])

NoCookies == [name \in {} |-> << >>]

(* httpOnly is not initialized by the constructors that read a text. *)
CookieInit ==
  /\ \/ written \in Cookies /\ source = ToByteArray(written) /\ jar = << >>
     \/ written = NewCookie /\ jar \in Jars /\ source = CookieHeader(jar)
     \/ written = NewCookie /\ source \in Texts /\ jar = << >>
  /\ position = 0 /\ inString = FALSE /\ buffer = << >> /\ list = << >>
  /\ cookie \in {[NewCookie EXCEPT !.httpOnly = b] : b \in BOOLEAN}
  /\ cookies = NoCookies
  /\ stage = "split"
-----------------------------------------------------------------------------
AppendTrimmed ==
  list' = IF WithoutBlanks(buffer) = << >> THEN list ELSE Append(list, WithoutBlanks(buffer))

\* Mutant: a semicolon ends a part inside of quotes, too.
SplitCSVIgnoringQuotes ==
  /\ stage = "split" /\ position < Len(source)
  /\ position' = position + 1
  /\ LET c == source[position + 1] IN
     IF c = ";"
     THEN /\ AppendTrimmed /\ buffer' = << >> /\ UNCHANGED inString
     ELSE IF c = "\""
     THEN /\ inString' = ~ inString /\ UNCHANGED <<buffer, list>>
     ELSE /\ buffer' = Append(buffer, c) /\ UNCHANGED <<inString, list>>
  /\ UNCHANGED <<written, jar, source, cookie, cookies, stage>>

(* One turn of the loop of splitCSV. *)
SplitCSV ==
  /\ stage = "split" /\ position < Len(source)
  /\ position' = position + 1
  /\ LET c == source[position + 1] IN
     IF c = ";" /\ ~ inString
     THEN /\ AppendTrimmed /\ buffer' = << >> /\ UNCHANGED inString
     ELSE IF c = "\""
     THEN /\ inString' = ~ inString /\ UNCHANGED <<buffer, list>>
     ELSE /\ buffer' = Append(buffer, c) /\ UNCHANGED <<inString, list>>
  /\ UNCHANGED <<written, jar, source, cookie, cookies, stage>>

SplitCSVEnds ==
  /\ stage = "split" /\ position = Len(source)
  /\ AppendTrimmed
  /\ position' = 0 /\ stage' = "fields"
  /\ UNCHANGED <<written, jar, source, inString, buffer, cookie, cookies>>

(***************************************************************************)
(* The name of a part and its value: indexOf is -1, which counts as true,  *)
(* if there is no "=", and left(-1) is empty.                              *)
(***************************************************************************)
NameOf(part) ==
  LET posi == SelectInSeq(part, LAMBDA c : c = "=") - 1
  IN  IF posi = 0 THEN WithoutBlanks(part) ELSE WithoutBlanks(SubSeq(part, 1, posi))

ValueOf(part) ==
  LET posi == SelectInSeq(part, LAMBDA c : c = "=") - 1
  IN  IF posi = 0 THEN << >> ELSE WithoutBlanks(SubSeq(part, posi + 2, Len(part)))

\* Mutant: the last unknown name, not the first, is taken for the name of the cookie.
SetFieldOfLastName(c, name, value) ==
  CASE name = <<"Comment">>  -> [c EXCEPT !.Comment = value]
    [] name = <<"Domain">>   -> [c EXCEPT !.Domain = value]
    [] name = <<"Max-Age">>  -> [c EXCEPT !.maxAge = value]
    [] name = <<"Path">>     -> [c EXCEPT !.Path = value]
    [] name = <<"Version">>  -> c
    [] OTHER                 -> [c EXCEPT !.name = name, !.value = value]

SetField(c, name, value) ==
  CASE name = <<"Comment">>  -> [c EXCEPT !.Comment = value]
    [] name = <<"Domain">>   -> [c EXCEPT !.Domain = value]
    [] name = <<"Max-Age">>  -> [c EXCEPT !.maxAge = value]
    [] name = <<"Path">>     -> [c EXCEPT !.Path = value]
    [] name = <<"Secure">>   -> [c EXCEPT !.secure = TRUE]
    [] name = <<"HttpOnly">> -> [c EXCEPT !.httpOnly = TRUE]
    [] name = <<"Version">>  -> c
    [] OTHER -> IF c.name = << >> THEN [c EXCEPT !.name = name, !.value = value] ELSE c

(* One turn of the loop of the constructor. *)
ReadField ==
  /\ stage = "fields" /\ position < Len(list) /\ jar = << >>
  /\ position' = position + 1
  /\ cookie' = SetField(cookie, NameOf(list[position + 1]), ValueOf(list[position + 1]))
  /\ UNCHANGED <<written, jar, source, inString, buffer, list, cookies, stage>>

(* One turn of the inner loop of extractCookies. *)
ExtractCookie ==
  /\ stage = "fields" /\ position < Len(list) /\ jar # << >>
  /\ position' = position + 1
  /\ LET part == list[position + 1]
     IN  cookies' = [name \in DOMAIN cookies \cup {NameOf(part)} |->
                       IF name = NameOf(part) THEN ValueOf(part) ELSE cookies[name]]
  /\ UNCHANGED <<written, jar, source, inString, buffer, list, cookie, stage>>

FieldsRead ==
  /\ stage = "fields" /\ position = Len(list)
  /\ stage' = "done"
  /\ UNCHANGED <<written, jar, source, position, inString, buffer, list, cookie, cookies>>

CookieNext == SplitCSV \/ SplitCSVEnds \/ ReadField \/ ExtractCookie \/ FieldsRead

CookieSpec == CookieInit /\ [][CookieNext]_cookieVars
-----------------------------------------------------------------------------
(***************************************************************************)
(* Reference definition of splitCSV: the parts are what stands between     *)
(* two semicolons that have an even number of quotes before them, without  *)
(* quotes and without blanks around them, in their order, none empty.      *)
(***************************************************************************)
Cuts(text) ==
  {0, Len(text) + 1} \cup
  {i \in DOMAIN text : text[i] = ";"
     /\ Cardinality({j \in 1 .. i : text[j] = "\""}) % 2 = 0}

Part(text, from, to) ==
  WithoutBlanks(AtPlaces(text, {i \in from + 1 .. to - 1 : text[i] # "\""}))

PartsBetween(text, cuts) == [k \in 1 .. Len(cuts) - 1 |-> Part(text, cuts[k], cuts[k + 1])]

Full(parts) == AtPlaces(parts, {k \in DOMAIN parts : parts[k] # << >>})

ReferenceParts(text) == Full(PartsBetween(text, InOrder(Cuts(text))))

SplitsAtSemicolons == stage # "split" => list = ReferenceParts(source)

(***************************************************************************)
(* What the application has to take care of, since nothing is escaped:     *)
(* texts without separators and without blanks at their ends, names that   *)
(* are not those of attributes, and in a jar one cookie of each name.      *)
(***************************************************************************)
ReadableText(t) ==
  /\ \A i \in DOMAIN t : t[i] # ";" /\ t[i] # "\""
  /\ t # << >> => t[1] # " " /\ t[Len(t)] # " "

ReadableName(t) == ReadableText(t) /\ t # << >> /\ \A i \in DOMAIN t : t[i] # "="

Attributes == {"Comment", "Domain", "Max-Age", "Path", "Secure", "HttpOnly", "Version"}

CookiesReadable ==
  /\ \A c \in Cookies : /\ ReadableName(c.name) /\ \A a \in Attributes : c.name # <<a>>
                        /\ ReadableText(c.value) /\ ReadableText(c.Comment)
                        /\ ReadableText(c.Domain) /\ ReadableText(c.maxAge)
                        /\ ReadableText(c.Path)
  /\ \A j \in Jars : \A i \in DOMAIN j :
       /\ ReadableName(j[i].name) /\ ReadableText(j[i].value)
       /\ \A k \in DOMAIN j : k # i => j[k].name # j[i].name

(***************************************************************************)
(* A cookie survives being written and read: its name, value, comment,     *)
(* domain, age and path, also when the value contains "=".  The flags do   *)
(* not: NameOf of a part without "=" is empty.  A request has the cookies  *)
(* that the client has sent, each with its value; those that have no name  *)
(* are excepted.                                                           *)
(***************************************************************************)
CookieSurvives ==
  stage = "done" =>
    /\ written # NewCookie =>
         cookie = [written EXCEPT !.secure = FALSE, !.httpOnly = cookie.httpOnly]
    /\ jar # << >> =>
         /\ DOMAIN cookies = {c.name : c \in ToSet(jar)}
         /\ \A c \in ToSet(jar) : cookies[c.name] = c.value
=============================================================================

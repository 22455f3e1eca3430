-------------------------- MODULE MCApiValidation --------------------------
EXTENDS ApiValidation

Op(method, path, params, secured, body) ==
    [method |-> method, path |-> path, params |-> params, named |-> FALSE, secured |-> secured, body |-> body,
     statuses |-> {200, 404}, content |-> TRUE, header |-> FALSE, unfillable |-> FALSE, examples |-> {}]

List   == Op("GET", <<"notes">>, <<>>, FALSE, "none")
Read   == Op("GET", <<"notes", "{id}">>, <<"{id}">>, TRUE, "none")
Create == [Op("POST", <<"notes">>, <<>>, TRUE, "required") EXCEPT !.statuses = {2, 400}]
Change == Op("PUT", <<"notes", "{id}">>, <<"{id}">>, TRUE, "optional")
Erase == [Op("DELETE", <<"notes", "{id}">>, <<"{id}">>, TRUE, "none") EXCEPT !.statuses = {0}]
Logout == [Op("GET", <<"logout">>, <<>>, TRUE, "none") EXCEPT !.named = TRUE]
Enter  == [Op("POST", <<"login">>, <<>>, FALSE, "optional") EXCEPT !.header = TRUE]
Form   == Op("POST", <<"upload">>, <<>>, FALSE, "unsupported")
Search == [Op("GET", <<"search">>, <<>>, FALSE, "none") EXCEPT !.unfillable = TRUE]
Trace  == Op("TRACE", <<"notes">>, <<>>, FALSE, "none")
Echo   == Op("TRACE", <<"notes", "{id}">>, <<"{id}">>, FALSE, "none")
Member == [Op("GET", <<"teams", "{team}", "members", "{id}">>, <<"{team}", "{id}">>, FALSE, "none") EXCEPT !.statuses = {200}, !.examples = {"{team}"}]
Join   == Op("POST", <<"teams", "{team}", "members">>, <<"{team}">>, FALSE, "optional")
Patch  == Op("PATCH", <<"teams", "{team}", "members", "{id}">>, <<"{team}", "{id}">>, FALSE, "none")
Leave  == Op("DELETE", <<"teams", "{team}", "members", "{id}">>, <<"{team}", "{id}">>, FALSE, "none")
Profile == Op("PUT", <<"profile">>, <<>>, FALSE, "none")

Spec1 == [first |-> "spec", embedded |-> FALSE, candidates |-> <<>>]
Page(candidates) == [first |-> "html", embedded |-> FALSE, candidates |-> candidates]
Notes == <<List, Read, Create, Change, Erase>>
Teams == <<Member, Join, Patch, Leave, Trace>>

Run == [mode |-> "AUTO", uiSkipped |-> FALSE, site |-> Spec1, doc |-> Notes, login |-> 0, enabled |-> TRUE, base |-> "allowed",
        env |-> "test", approved |-> {Create, Change, Erase}, auth |-> "token", pathParams |-> {}, maxRequests |-> 6]
Account == [Run EXCEPT !.doc = <<List, Logout, Enter, Search, Form>>, !.login = 3, !.approved = {Logout, Form}, !.auth = "login"]
MCConfigurations ==
    {Run, [Run EXCEPT !.doc = <<Create, Echo, Erase>>], [Run EXCEPT !.auth = "none"], [Run EXCEPT !.auth = "noscheme", !.approved = {}], [Run EXCEPT !.maxRequests = 2],
     [Run EXCEPT !.env = "production"], [Run EXCEPT !.doc = Teams, !.approved = {Join, Patch, Leave}, !.pathParams = {"{team}"}],
     [Run EXCEPT !.doc = Teams, !.approved = {Join, Leave}], Account, [Account EXCEPT !.login = 0, !.maxRequests = 1],
     [Account EXCEPT !.maxRequests = 1], [Run EXCEPT !.base = "foreign"], [Run EXCEPT !.enabled = FALSE],
     [Run EXCEPT !.mode = "UI_ONLY"], [Run EXCEPT !.mode = "API_ONLY", !.uiSkipped = TRUE, !.doc = <<>>],
     [Run EXCEPT !.mode = "API_ONLY", !.uiSkipped = TRUE, !.site = Page(<<"html", "broken", "spec">>), !.maxRequests = 1],
     [Run EXCEPT !.mode = "API_ONLY", !.uiSkipped = TRUE, !.site = Page(<<"html", "spec">>), !.maxRequests = 1]}
\* A document with an operation that changes something without naming it.
MCProfile == {[Run EXCEPT !.doc = <<Profile>>, !.approved = {Profile}]}

Answer(code, text, type) == [status |-> code, error |-> "", text |-> text, type |-> type, header |-> TRUE, carries |-> FALSE]
Error(e) == [Answer(0, "none", "") EXCEPT !.error = e]
Good == [Answer(200, "fits", "json") EXCEPT !.carries = TRUE]
MCReplies == {Good, Answer(200, "breaks", "json"), Answer(401, "none", ""), Answer(404, "none", ""), Answer(429, "none", ""), Answer(500, "none", ""),
              Error("TIMEOUT"), Error("CONNECTION")}
MCOneReply == {Good}
MCPathParams == {"{id}", "{team}"}
=============================================================================

---------------------------- MODULE MCDiscovery ----------------------------
(* A product whose sign-up hands over a link to a mailbox, which leads back to the product signed in, and one this run may not follow. *)
EXTENDS Discovery

MCLocations == {"home", "mail", "inbox", "shop", "chat"}
MCViews == {"form", "sent", "mailbox", "app"}
MCPage == [form |-> "home", sent |-> "home", mailbox |-> "inbox", app |-> "home"]
MCShows == [form    |-> {<<"textbox", "Password">>, <<"button", "Sign in">>},
            sent    |-> {<<"textbox", "Password">>, <<"button", "Sign in">>},
            mailbox |-> {},
            app     |-> {<<"button", "Sign out">>, <<"button", "Create">>}]
MCLinks == [form |-> <<"shop">>, sent |-> <<"shop", "mail", "shop", "chat">>, mailbox |-> <<"home">>,
            app |-> <<>>]
MCSays == [form |-> {}, sent |-> {"check your mail"}, mailbox |-> {}, app |-> {}]
MCLeads ==
    {<<"form", c, v>> : c \in {<<"textbox", "Password">>, <<"button", "Sign in">>}, v \in {"form", "sent"}}
    \cup {<<"sent", <<"link", "mail">>, "mailbox">>, <<"mailbox", <<"link", "home">>, "app">>,
          <<"app", <<"button", "Create">>, "app">>}
MCOrigin == [home |-> "product", mail |-> "mail", inbox |-> "mail", shop |-> "shop", chat |-> "chat"]
MCAuxOrigins == {"mail"}
MCUnsafe == {}
=============================================================================

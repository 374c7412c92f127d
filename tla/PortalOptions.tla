--------------------------- MODULE PortalOptions ---------------------------
(***************************************************************************)
(* The options of the portal methods (garwarp/src/portal_options.rs): a    *)
(* map from keys to D-Bus values, of which only the type of the value      *)
(* matters.                                                                *)
(***************************************************************************)

\* What the fields of ScreenshotOptions, FileChooserOptions and
\* AppChooserOptions are read as.
Expects ==
    [Screenshot |->
        [modal |-> "bool", interactive |-> "bool", permission_store_checked |-> "bool"],
     FileChooser |->
        [accept_label |-> "string", modal |-> "bool", multiple |-> "bool",
         directory |-> "bool", current_name |-> "string"],
     AppChooser |->
        [last_choice |-> "string", modal |-> "bool", content_type |-> "string",
         uri |-> "string", filename |-> "string", activation_token |-> "string"]]

Interface == DOMAIN Expects

\* parse_screenshot_options, parse_file_chooser_options and
\* parse_app_chooser_options, of which the methods use only whether they fail:
\* any key may be absent, and one the interface does not know is not looked at.
OptionsParse(interface, options) ==
    \A key \in DOMAIN options \cap DOMAIN Expects[interface] :
        options[key] = Expects[interface][key]
=============================================================================

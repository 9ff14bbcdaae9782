CONSTANTS
    r1 = r1
    r2 = r2
    http = http
    ssh = ssh
    red = red
    blue = blue
    Rule = {r1, r2}
    Body = {http, ssh}
    Label = {red, blue}
    Wants <- MCWants
    Impatient = {r1}
    Exposed = {r2}
    MaxIds = 5
    None = None
SPECIFICATION Spec
INVARIANTS TypeOK OneRuleEach StateIsReal ConflictsAreForeign
PROPERTIES HandlersReturn

CONSTANTS
  e1 = e1 e2 = e2 name1 = name1 name2 = name2 hook1 = hook1 hook2 = hook2
  api = api api2 = api2 c1 = c1 c2 = c2 App = App NoOne = NoOne Nobody = Nobody
  Exts = {e1, e2}
  Names = {name1, name2}
  NameOf <- NamesApart2
  Points = {hook1, hook2}
  APIs = {api}
  Clients = {c1, c2}
  HooksOf <- Hooks2
  APIsOf <- APIs2
  Disabled = {}
  MaxHandlers = 2
SPECIFICATION Spec
INVARIANTS TypeOK NeverNil NoneMissing

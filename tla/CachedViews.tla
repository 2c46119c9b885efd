----------------------------- MODULE CachedViews ------------------------------
(***************************************************************************)
(* What the services keep in the cache and what they throw out of it.      *)
(*                                                                         *)
(* A View is a method of a service that answers from the cache when it can: *)
(* the literal parts of its key, the tables its answer is computed from,   *)
(* the tags its entry is filed under (in the order they are written), the  *)
(* seconds the entry lives, the parameters its answer depends on and those *)
(* of them its key leaves out.  A Writer is a method of such a service that *)
(* changes rows: the tables it writes and what it then invalidates, by key *)
(* and by tag.  "row" in a tag stands for the id of the row both are about. *)
(***************************************************************************)
EXTENDS Naturals, Sequences

\* A key is its literal beginning, up to the first parameter, and the names that follow it.
Key(prefix, names) == [prefix |-> prefix, names |-> names]

View(of, key, tables, tags, ttl, asks, left) ==
    [of |-> of, key |-> key, tables |-> tables, tags |-> tags, ttl |-> ttl, asks |-> asks, left |-> left]

\* The key of view v for a question: the parameters that are not as usual, but those it leaves out.
KeyFor(v, question) == Key(v.key.prefix, v.key.names \cup (question \ v.left))

Writer(of, name, tables, keys, tags) ==
    [of |-> of, name |-> name, tables |-> tables, keys |-> keys, tags |-> tags]

Range_ == {"start", "end"}

\* What several views compute from: the tables read by the helpers they call.
OrderTrends == {"order"}
MonthStats == {"order", "user"}
PeriodData == {"order", "user"}
MetricForDates == {"order", "user"}
MetricForCategories == {"order", "product"}
MetricDistribution == MetricForCategories \cup {"category"}
\* What the key of a product search is made of, its filters and page together.
SearchKey == {"term", "filters"}

(***************************************************************************)
(* Views.                                                                  *)
(***************************************************************************)
UsersFindAll == View("users", Key("users:list:", {}),
    {"user", "device"}, <<"users", "users:list">>, 600, {"query"}, {})
\* An id may begin with the word that another view's keys have after "user:".
UsersFindOne == View("users", Key("user:", {}), {"user"}, <<"users", "user:row">>, 600,
    {"profile:", "preferences:", "addresses:"}, {})
GetProfile == View("users", Key("user:", {"profile:"}),
    {"user", "device", "order", "address"}, <<"users", "user:row", "user:profile">>, 600, {}, {})
GetPreferences == View("users", Key("user:", {"preferences:"}),
    {}, <<"users", "user:row", "user:preferences">>, 1800, {}, {})
GetAddresses == View("users", Key("user:", {"addresses:"}),
    {"address"}, <<"users", "user:row", "user:addresses">>, 600, {}, {})

ProductsFindAll == View("products", Key("products:list:", {}),
    {"product"}, <<"products", "products:list">>, 600, {"query"}, {})
GetByCategory == View("products", Key("products:list:", {"category:"}),
    {"product"}, <<"products", "products:category", "category:row">>, 600, {"category", "query"}, {})
ProductsSearch == View("products", Key("products:search:", {}),
    {"product"}, <<"products", "products:search">>, 300, {"term", "query"}, {})
SearchProducts == View("search", Key("search:products:", {}),
    {"product"}, <<>>, 300, SearchKey, {})

GetCategoryTree == View("categories", Key("categories:tree", {}),
    {"category"}, <<"categories", "categories:tree">>, 600, {}, {})
CategoriesFindOne == View("categories", Key("category:", {}),
    {"category"}, <<"categories", "category:row">>, 600, {}, {})

SensorsFindAll == View("sensors", Key("sensors:list:", {}),
    {"sensor", "device", "sensorData"}, <<"sensors", "sensors:list">>, 300, {"user", "query"}, {})
SensorsFindOne == View("sensors", Key("sensor:", {}),
    {"sensor", "device", "sensorData", "alert"}, <<"sensors", "sensor:row">>, 300, {}, {})
DevicesFindAll == View("devices", Key("devices:list:", {}),
    {"device", "user"}, <<"devices", "devices:list">>, 300, {"user", "query"}, {})
DevicesFindOne == View("devices", Key("device:", {}),
    {"device", "user", "sensor", "command"}, <<"devices", "device:row">>, 300, {}, {})

\* A configuration may be named "all".
GetSystemConfig == View("admin", Key("system:config:", {}),
    {"config"}, <<"system:config">>, 600, {"all"}, {})
GetAllSystemConfigs == View("admin", Key("system:config:", {"all"}),
    {"config"}, <<"system:config">>, 600, {}, {})

GetReports == View("reports", Key("reports:user:", {"filters:"}),
    {"reports"}, <<>>, 300, {"user", "filters"}, {})
GetReportById == View("reports", Key("report:", {}), {"report"}, <<>>, 600, {}, {})

GetDashboardStats == View("analytics", Key("analytics:dashboard:", {}),
    {"order", "user", "device"}, <<"analytics", "analytics:dashboard">>, 300, Range_, {})
GetSalesAnalytics == View("analytics", Key("analytics:sales:", {}),
    OrderTrends, <<"analytics", "analytics:sales">>, 900, Range_, {})
GetProductMetrics == View("analytics", Key("analytics:products:metrics:", {}),
    {"order"}, <<"analytics", "analytics:products">>, 900, Range_, {})
GetUserEngagement == View("analytics", Key("analytics:users:engagement:", {}),
    {"user"}, <<"analytics", "analytics:users">>, 900, Range_, {})
GetDeviceStatistics == View("analytics", Key("analytics:devices:stats:", {}),
    {"device", "sensor", "sensorData"}, <<"analytics", "analytics:devices">>, 900, {}, {})
GetOrderTrends == View("analytics", Key("analytics:reports:trends:", {}),
    OrderTrends, <<"analytics", "analytics:reports">>, 1800, Range_ \cup {"interval"}, {})
GetRevenueReports == View("analytics", Key("analytics:reports:revenue:", {}),
    OrderTrends, <<"analytics", "analytics:reports">>, 1800, Range_, {})
GetGrowthMetrics == View("analytics", Key("analytics:reports:growth:", {}),
    MonthStats, <<"analytics", "analytics:reports">>, 1800, {}, {})
GetTopProducts == View("analytics", Key("analytics:products:top:", {}),
    {"order", "product"}, <<"analytics", "analytics:products">>, 1800, Range_, {})
GetTopCategories == View("analytics", Key("analytics:products:categories:", {}),
    {"category", "product"}, <<"analytics", "analytics:products">>, 1800, {}, {})
CategoryToProducts == View("drilldown", Key("analytics:drilldown:category-products:", {}),
    {"category", "product", "order"}, <<>>, 1800, {"category"} \cup Range_, {})
ProductToOrders == View("drilldown", Key("analytics:drilldown:product-orders:", {}),
    {"product", "order", "user"}, <<>>, 1800, {"product"} \cup Range_, {})
UserToOrders == View("drilldown", Key("analytics:drilldown:user-orders:", {}),
    {"user", "order", "product"}, <<>>, 1800, {"user"} \cup Range_, {})
BuildHierarchy == View("drilldown", Key("analytics:drilldown:hierarchy:", {}),
    {"category", "product", "user", "order"}, <<>>, 1800, {"level", "id"} \cup Range_, {})
ForecastRevenue == View("forecast", Key("analytics:forecast:revenue:", {}),
    {"order"}, <<>>, 3600, {"days"}, {})
\* "all" stands in the key for no product, and for a product of that id.
PredictDemand == View("forecast", Key("analytics:forecast:demand:", {}),
    {"order", "product"}, <<>>, 3600, {"product", "all", "days"}, {"all"})
DetectAnomalies == View("forecast", Key("analytics:forecast:anomalies:", {}),
    {"order", "user"}, <<>>, 3600, {"type", "days"}, {})
AnalyzeCohorts == View("comparison", Key("analytics:comparison:cohorts:", {}),
    {"user", "order"}, <<>>, 1800, {"type", "months"}, {})
ComparePeriods == View("comparison", Key("analytics:comparison:periods:", {}),
    PeriodData, <<>>, 1800,
    {"metric", "start", "end", "previousStart", "previousEnd"}, {"end", "previousEnd"})
CompareProducts == View("comparison", Key("analytics:comparison:products:", {}),
    {"product", "order"}, <<>>, 1800, {"products", "start", "end"}, {"end"})
CompareCategories == View("comparison", Key("analytics:comparison:categories:", {}),
    {"category", "order", "product"}, <<>>, 1800, Range_, {"end"})
GetLineChartData == View("charts", Key("chart:line:", {}),
    MetricForDates, <<>>, 300, {"metric", "groupBy"} \cup Range_, {})
GetBarChartData == View("charts", Key("chart:bar:", {}),
    MetricForCategories, <<>>, 300, {"metrics", "categories"} \cup Range_, {"end"})
GetPieChartData == View("charts", Key("chart:pie:", {}),
    MetricDistribution, <<>>, 300, {"metric", "groupBy"} \cup Range_, {"end"})
GetAreaChartData == View("charts", Key("chart:area:", {}),
    MetricForDates, <<>>, 300, {"metrics", "groupBy"} \cup Range_, {"end"})
GetLiveMetrics == View("realtime", Key("realtime:metrics", {}),
    {"order", "device", "session"}, <<>>, 5, {}, {})
GetLiveSalesData == View("realtime", Key("realtime:sales", {}), {"order"}, <<>>, 5, {}, {})
GetRoutes == View("gateway", Key("gateway:routes:all", {}), {"route"}, <<>>, 300, {}, {})
FindApplicableOverride == View("limits", Key("ratelimit:override:", {}),
    {"override"}, <<>>, 300, {"user", "endpoint"}, {})

\* CacheManagerService stores answers of its own, some of them under the keys of other views.
WarmSystemConfig == View("warmer", Key("system:config", {}), {"config"}, <<"system", "config">>, 3600, {}, {})
WarmCategories == View("warmer", Key("categories:list:", {}),
    {"category"}, <<"categories", "categories:list">>, 600, {}, {})
WarmFeaturedProducts == View("warmer", Key("products:list:", {"featured"}),
    {"product"}, <<"products", "products:list">>, 600, {}, {})
WarmTopProducts == View("warmer", Key("analytics:products:top:", {}),
    {"order", "product"}, <<"analytics", "analytics:products">>, 1800, {}, {})
WarmDashboardStats == View("warmer", Key("analytics:dashboard:", {}),
    {"order", "user", "device"}, <<"analytics", "analytics:dashboard">>, 300, {}, {})

(***************************************************************************)
(* Writers.                                                                *)
(***************************************************************************)
UsersCreate == Writer("users", "create", {"user"}, {}, <<>>)
UsersUpdate == Writer("users", "update", {"user"}, {}, <<"users", "users:list", "user:row">>)
UsersRemove == Writer("users", "remove", {"user"}, {}, <<"users", "users:list", "user:row">>)
UpdateProfile == Writer("users", "updateProfile", {"user"}, {}, <<"users", "user:row">>)
UploadAvatar == Writer("users", "uploadAvatar", {"user"}, {}, <<"users", "user:row">>)
UpdatePreferences == Writer("users", "updatePreferences", {}, {}, <<"user:row", "user:preferences">>)
AddAddress == Writer("users", "addAddress", {"address"}, {}, <<"user:row", "user:addresses">>)
UpdateAddress == Writer("users", "updateAddress", {"address"}, {}, <<"user:row", "user:addresses">>)
UpdateUserRole == Writer("admin", "updateUserRole", {"user"}, {}, <<>>)
UpdateUserStatus == Writer("admin", "updateUserStatus", {"user"}, {}, <<>>)

ProductTags == <<"products", "products:list", "products:search", "product:row">>
ProductsCreate == Writer("products", "create", {"product"}, {}, <<>>)
ProductsUpdate == Writer("products", "update", {"product"}, {}, ProductTags)
ProductsRemove == Writer("products", "remove", {"product"}, {}, ProductTags)
ToggleActive == Writer("products", "toggleActive", {"product"}, {}, ProductTags)
UpdateStock == Writer("products", "updateStock", {"product"}, {}, <<>>)
UpdatePrice == Writer("products", "updatePrice", {"product"}, {}, <<>>)

CategoryTags == <<"categories", "categories:list", "categories:tree", "category:row">>
CategoriesCreate == Writer("categories", "create", {"category"}, {}, <<"categories", "categories:list">>)
CategoriesUpdate == Writer("categories", "update", {"category"}, {}, CategoryTags)
CategoriesRemove == Writer("categories", "remove", {"category"}, {}, CategoryTags)

SensorTags == <<"sensors", "sensors:list", "sensor:row">>
SensorsCreate == Writer("sensors", "create", {"sensor"}, {}, <<"sensors", "sensors:list">>)
SensorsUpdate == Writer("sensors", "update", {"sensor"}, {}, SensorTags)
SensorsRemove == Writer("sensors", "remove", {"sensor"}, {}, SensorTags)
Calibrate == Writer("sensors", "calibrate", {"sensor"}, {}, <<"sensors", "sensor:row">>)
SensorsToggle == Writer("sensors", "toggleActivation", {"sensor"}, {}, <<>>)
IngestData == Writer("sensors", "ingestData", {"sensorData"}, {}, <<>>)
BatchIngest == Writer("sensors", "batchIngest", {"sensorData"}, {}, <<>>)
ClearData == Writer("sensors", "clearData", {"sensorData"}, {}, <<>>)

DeviceTags == <<"devices", "devices:list", "device:row">>
DevicesCreate == Writer("devices", "create", {"device"}, {}, <<"devices", "devices:list">>)
DevicesUpdate == Writer("devices", "update", {"device"}, {}, DeviceTags)
AssignDevice == Writer("devices", "assignDevice", {"device"}, {}, DeviceTags)
DevicesRemove == Writer("devices", "remove", {"device"}, {}, DeviceTags)
CreateIoTDevice == Writer("devices", "createIoTDevice", {"device"}, {}, <<"devices", "devices:list">>)
UpdateBySerialNumber == Writer("devices", "updateBySerialNumber", {"device"}, {}, DeviceTags)
DevicesToggle == Writer("devices", "toggleActivation", {"device"}, {}, DeviceTags)
PerformDeviceStatusCheck == Writer("devices", "performDeviceStatusCheck", {"device"}, {}, DeviceTags)
SendCommand == Writer("devices", "sendCommand", {"command"}, {}, <<"device:row">>)
SendCommandFails == Writer("devices", "sendCommandFails", {"command"}, {}, <<>>)
CalibrateSensor == Writer("devices", "calibrateSensor", {"sensor", "command"}, {}, <<"device:row">>)
CalibrateSensorFails == Writer("devices", "calibrateSensorFails", {"sensor", "command"}, {}, <<>>)
RecordDeviceHealth == Writer("devices", "recordDeviceHealth", {"device"}, {Key("device:", {})}, <<>>)
UpdateFirmware == Writer("devices", "updateFirmware", {"device"}, {}, <<>>)
AddSensor == Writer("devices", "addSensor", {"sensor"}, {}, <<>>)
UpdateSensor == Writer("devices", "updateSensor", {"sensor"}, {}, <<>>)
RemoveSensor == Writer("devices", "removeSensor", {"sensor"}, {}, <<>>)

UpdateSystemConfig == Writer("admin", "updateSystemConfig", {"config"},
    {Key("system:config:", {})}, <<"system:config">>)

CreateReport == Writer("reports", "createReport", {"reports"}, {Key("reports:user:", {})}, <<>>)
UpdateReport == Writer("reports", "updateReport", {"reports", "report"},
    {Key("report:", {}), Key("reports:user:", {})}, <<>>)
DeleteReport == Writer("reports", "deleteReport", {"reports", "report"},
    {Key("report:", {}), Key("reports:user:", {})}, <<>>)

CreateConfig == Writer("gateway", "createConfig", {"route"}, {Key("gateway:routes:all", {})}, <<>>)
UpdateConfig == Writer("gateway", "updateConfig", {"route"}, {Key("gateway:routes:all", {})}, <<>>)
DeleteConfig == Writer("gateway", "deleteConfig", {"route"}, {Key("gateway:routes:all", {})}, <<>>)
CreateOverride == Writer("limits", "createOverride", {"override"}, {}, <<>>)
UpdateOverride == Writer("limits", "updateOverride", {"override"}, {}, <<>>)
DeleteOverride == Writer("limits", "deleteOverride", {"override"}, {}, <<>>)

Writers ==
    {UsersCreate, UsersUpdate, UsersRemove, UpdateProfile, UploadAvatar, UpdatePreferences, AddAddress,
     UpdateAddress, UpdateUserRole, UpdateUserStatus, ProductsCreate, ProductsUpdate, ProductsRemove,
     ToggleActive, UpdateStock, UpdatePrice, CategoriesCreate, CategoriesUpdate, CategoriesRemove,
     SensorsCreate, SensorsUpdate, SensorsRemove, Calibrate, SensorsToggle, IngestData, BatchIngest,
     ClearData, DevicesCreate, DevicesUpdate, AssignDevice, DevicesRemove, CreateIoTDevice,
     UpdateBySerialNumber, DevicesToggle, PerformDeviceStatusCheck, SendCommand, SendCommandFails,
     CalibrateSensor, CalibrateSensorFails, RecordDeviceHealth,
     UpdateFirmware, AddSensor, UpdateSensor, RemoveSensor, UpdateSystemConfig, CreateReport,
     UpdateReport, DeleteReport, CreateConfig, UpdateConfig, DeleteConfig, CreateOverride,
     UpdateOverride, DeleteOverride}

\* Views somebody means to keep current, and views that only time clears.
Managed ==
    {UsersFindAll, UsersFindOne, GetProfile, GetPreferences, GetAddresses, ProductsFindAll,
     GetByCategory, ProductsSearch, GetCategoryTree, CategoriesFindOne, SensorsFindAll, SensorsFindOne,
     DevicesFindAll, DevicesFindOne, GetSystemConfig, GetAllSystemConfigs, GetReports, GetReportById,
     GetRoutes, FindApplicableOverride}
Timed ==
    {SearchProducts, GetDashboardStats, GetSalesAnalytics, GetProductMetrics, GetUserEngagement,
     GetDeviceStatistics, GetOrderTrends, GetRevenueReports, GetGrowthMetrics, GetTopProducts,
     GetTopCategories, CategoryToProducts, ProductToOrders, UserToOrders, BuildHierarchy,
     ForecastRevenue, PredictDemand, DetectAnomalies, AnalyzeCohorts, ComparePeriods, CompareProducts,
     CompareCategories, GetLineChartData, GetBarChartData, GetPieChartData, GetAreaChartData,
     GetLiveMetrics, GetLiveSalesData}

Warmers == {WarmSystemConfig, WarmCategories, WarmFeaturedProducts, WarmTopProducts, WarmDashboardStats}
Views == Managed \cup Timed \cup Warmers

(***************************************************************************)
(* The code's known gaps, named so that any other one is an error.         *)
(***************************************************************************)
\* Methods that change rows and invalidate nothing, some of them only when the broker refuses a command.
Forgetful ==
    {SendCommandFails, CalibrateSensorFails, UsersCreate, UpdateUserRole, UpdateUserStatus,
     ProductsCreate, UpdateStock, UpdatePrice,
     SensorsToggle, IngestData, BatchIngest, ClearData, UpdateFirmware, AddSensor, UpdateSensor,
     RemoveSensor, CreateOverride, UpdateOverride, DeleteOverride}
\* Methods whose key misses the entry.
Misses == ({CreateReport, UpdateReport, DeleteReport} \X {GetReports})
              \cup {<<RecordDeviceHealth, DevicesFindAll>>}
\* Services that read a table the first one writes; it does not know of their entries.
Apart == {<<"users", "devices">>, <<"devices", "users">>, <<"devices", "sensors">>, <<"sensors", "devices">>}
Gap(w, v) == w \in Forgetful \/ <<w, v>> \in Misses \/ <<w.of, v.of>> \in Apart

\* Keys that leave out a parameter the answer depends on.
SharedKeys == {ComparePeriods, CompareProducts, CompareCategories, GetBarChartData, GetPieChartData,
               GetAreaChartData, PredictDemand}

\* Questions of a view whose key is another view's.
Crossings ==
    {<<GetSystemConfig, {"all"}, GetAllSystemConfigs>>,
     <<UsersFindOne, {"profile:"}, GetProfile>>, <<UsersFindOne, {"preferences:"}, GetPreferences>>,
     <<UsersFindOne, {"addresses:"}, GetAddresses>>,
     <<GetTopProducts, {}, WarmTopProducts>>, <<GetDashboardStats, {}, WarmDashboardStats>>}

==============================================================================
